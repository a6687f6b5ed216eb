--------------------------- MODULE MessageSearch ---------------------------
(***************************************************************************)
(* Searching stored messages: the reducer of the dashboard's search page   *)
(* (web/app/hooks/useMessageSearch.tsx), the query it sends, and what the  *)
(* server answers (db/messages.go, FetchMessages).  Operators only; the    *)
(* page itself is in module SearchPage.                                    *)
(*                                                                         *)
(* A page of messages is a set: messages are numbered in the order they    *)
(* were written, and every answer lists the newest first.                  *)
(***************************************************************************)
EXTENDS Integers, FiniteSets

CONSTANTS
    MessageMax,   \* bound: messages ever stored
    Channel,      \* the channel names the page offers as filters
    ChannelOf,    \* the channel each message was written in
    Keyword,      \* what may be searched for
    NoKeyword,    \* the empty keyword, which is not sent
    Hits,         \* the messages each keyword finds
    Limit         \* messages on a page (10)

Message == 1..MessageMax
Word == Keyword \cup {NoKeyword}

ASSUME SearchConstants ==
    /\ MessageMax \in Nat
    /\ Limit \in Nat \ {0}
    /\ NoKeyword \notin Keyword
    /\ Hits \in [Word -> SUBSET Message]
    /\ Hits[NoKeyword] = Message
    /\ DOMAIN ChannelOf = Message

-----------------------------------------------------------------------------
\* MessageSearchState, without what is always set back before the next event
\* (searching) or never shown (messages, availableFilters).
Search == [keyword : Word, temporaryKeyword : Word, activeFilters : SUBSET Channel,
           has_more : BOOLEAN, page : Nat]

NewSearch(more) ==
    [keyword |-> NoKeyword, temporaryKeyword |-> NoKeyword, activeFilters |-> {},
     has_more |-> more, page |-> 0]

SetTemporaryKeyword(s, k) == [s EXCEPT !.temporaryKeyword = k]
AddFilter(s, c) == [s EXCEPT !.activeFilters = @ \cup {c}]
RemoveFilter(s, c) == [s EXCEPT !.activeFilters = @ \ {c}]
SetMessages(s, more) == [s EXCEPT !.has_more = more]

\* The three that search.
NextPage(s) == [s EXCEPT !.page = @ + 1]

PrevPage(s) == [s EXCEPT !.page = IF @ <= 0 THEN @ ELSE @ - 1]

ExecuteSearch(s) == [s EXCEPT !.keyword = s.temporaryKeyword, !.page = 0]

-----------------------------------------------------------------------------
\* searchMessages: the parameters of GET /messages, with offset page * Limit.
Query == [keyword : Word, channels : SUBSET Channel, page : Nat]
Href(s) == [keyword |-> s.keyword, channels |-> s.activeFilters, page |-> s.page]

\* The route's own loader, without parameters: the newest messages.
RouteQuery == [keyword |-> NoKeyword, channels |-> {}, page |-> 0]

-----------------------------------------------------------------------------
\* FetchMessages: the messages found, the newest first, from the offset on; one
\* more than the limit is asked for, to see whether there are more.
Found(stored, q) ==
    {m \in stored : m \in Hits[q.keyword] /\ (q.channels = {} \/ ChannelOf[m] \in q.channels)}

Newer(found, m) == Cardinality({n \in found : n > m})

Answer(stored, q) ==
    LET found == Found(stored, q)
    IN [of   |-> q,
        msgs |-> {m \in found : Newer(found, m) \in (q.page * Limit)..(q.page * Limit + Limit - 1)},
        more |-> Cardinality(found) > q.page * Limit + Limit]

Page == [of : Query, msgs : SUBSET Message, more : BOOLEAN]
=============================================================================
