---------------------------- MODULE MCChatServer ----------------------------
\* Small instances of the websocket side of the chat server.
EXTENDS ChatServerProperties
LOCAL INSTANCE TLC
CONSTANTS a, b, c1, u, v, web, chat

\* A user with a chat client, and one whose dashboard connects twice, with one
\* key; a and b are interchangeable.
ThreeClients == {a, b, c1}
UserOfThree == [x \in ThreeClients |-> IF x = c1 THEN v ELSE u]
AppOfThree == [x \in ThreeClients |-> IF x = c1 THEN chat ELSE web]
ChatThenAny == [x \in ThreeClients |-> IF x = c1 THEN <<{"chat"}, {"chat", "private", "other"}>> ELSE <<>>]
Dashboards == Permutations({a, b})

\* Two users, one chat client each.
TwoClients == {a, b}
TwoUsers == {u, v}
UserOfTwo == [x \in TwoClients |-> IF x = a THEN u ELSE v]
AllChat == [x \in TwoClients |-> chat]

\* One user, with a chat client and the dashboard.
UserOfSame == [x \in TwoClients |-> u]
OneWeb == [x \in TwoClients |-> IF x = a THEN chat ELSE web]

NoFrames == [x \in Client |-> <<>>]
OneOther == [x \in Client |-> IF x = a THEN <<{"other"}>> ELSE <<>>]

\* Valkey has nothing yet, or a private message of the user from an earlier run.
NothingCached == [k \in Kind |-> <<>>]
OldPrivate == [k \in Kind |-> IF k = "private" THEN <<{u}>> ELSE <<>>]
=============================================================================
