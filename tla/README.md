# A verification development of OpenRabbleServer

These TLA+ modules model OpenRabbleServer: the chat server, which is the Go
program under `chatserver/` with what it keeps in Valkey and PostgreSQL, and the
administrators' dashboard, the React application under `web/`. TLC checks them on
small instances; TLAPS proves the safety properties for all instances.

## 1. The system

### Components, state and operations

| component | source (`chatserver/internal/`, or `web/app/`) | state | operations |
|---|---|---|---|
| hub | `hub/hub.go` | `Connections`, a map from `user:application` to client; channel `Messages` | `Run`/`handleMessage`, `Broadcast`, `Whisper`, `RegisterClient`, `UnregisterClient`, `GetConnectedUsers`, `FindUsernameByUserID` |
| client | `client/client.go` | a websocket, the channel `Send` (256) | `ReadPump`, `WritePump` |
| connection handler | `server/connection_handler.go` | none of its own | `handleConnection` |
| message cache | `cache/cache.go`, `private_messages.go`, `flush_cache.go` | Valkey: counters, recent lists, flush queues; `flushMutex` | cache a message, flush a queue, delete a message |
| rate limiter | `cache/rate_limit.go`, `db/rate_limiter.go`, `server/handlers/rate_limiter.go` | Valkey: a counter per user with a time to live; a row in PostgreSQL and two fields in memory | check and count, change the settings |
| channels | `db/channels.go`, `server/handlers/channels.go` | table `channels`, ordered by `sort_order` | create, rename, move, remove with or without its messages |
| bans | `db/bans.go`, `server/handlers/users.go` | table `bans` | ban, pardon, check |
| stored messages | `db/messages.go`, `server/handlers/messages.go` | tables `chat_messages`, `private_messages` | store a batch, search, remove |
| sessions, activity, users, discovery, start-up, migrations | rest of `db/` and `server/` | tables written once or only read | plain queries |
| search page | `hooks/`, `components/message/`, `routes/search_messages.tsx`, `api/messages.ts` | the search (keyword, filters, page), the list, a selection | search, page, select, delete |
| channel page | `components/channel/`, `routes/channel.tsx`, `api/channels.ts` | the list, which channel is selected for which dialog | add, edit, move, delete |
| pages for users and bans | `pages/users/`, `components/user/`, `routes/users/`, `api/users.ts` | the page shown with its data, the open dialog | navigate, ban, pardon |
| settings page, live view, presence, session of the dashboard | `components/settings/`, `contexts/`, `root.tsx` | what is typed; the last 100 messages; names; a token | show what arrives; change the limits |

### How they interact

* `handleConnection` checks the token and the bans, upgrades the connection,
  sends the user's online status to the hub **by channel**, and then calls
  `RegisterClient` **directly**, in its own goroutine. It writes the recent
  messages and the channels straight to the websocket, queues the list of users
  on `Send`, and starts the two pumps.
* `ReadPump` hands each message to the hub by channel, and when reading fails it
  calls `UnregisterClient` **directly**. That broadcasts the offline status, in
  the reader's goroutine.
* The hub's goroutine takes one message at a time, passes it through the rate
  limiter and the cache (which may run a whole flush in the same call) and then
  sends it to the clients one by one, blocking on each `Send` channel.
* A ticker flushes the public and then the private queue. A mutex separates
  flushes from each other, and nothing separates them from caching.
* Administrators' requests (channels, bans, removal of messages, limits) run in
  goroutines of the HTTP server and share only the database, Valkey and two
  fields of the cache with the rest.
* The dashboard talks to the server through **React Router**: a *fetcher* sends
  one request at a time and forgets its last one, loads are aborted and made
  again around submissions, a submission that succeeds reloads the data of the
  page, and whatever throws replaces the dashboard by its error page, unless it
  comes from a fetcher whose page was left. Requests of different fetchers overlap,
  and a fetcher with a fixed key outlives its page. The router is a library; what of
  it the dashboard relies on is modelled as external.

### What is hard, and what correctness means

| part | what is hard | what makes it correct |
|---|---|---|
| hub, client, handler | any number of goroutines use one map and each other's channels without a lock; blocking sends; clients that vanish at any point | no goroutine meets a closed channel through the map; clients get what is live in order and joining leaves no gap; private messages stay private; a lost connection is torn down; presence is known |
| message cache | a queue in one store is copied to another in steps that fail separately; crashes between them; two flushers; removals at the same time | every accepted message is queued, stored or removed; removed ones stay so; queues are bounded; what is queued is stored in the end |
| rate limiter | counters that expire while settings change, also to values nobody meant; two copies of the settings | nobody is blocked for good; at most twice the limit in a window; both copies agree |
| channels | transactions of many statements that lock rows in different orders | the table is an ordered list; moves do what they say; removed rows stay removed; every request is answered |
| bans | arithmetic of the duration; overlapping bans; a check before the join | a ban lasts as given; nobody joins past it |
| search page | answers that come late, are aborted and repeated; rows deleted between two pages; list, page number and buttons set in different places | all of them belong to one answer; what was deleted goes; walking back from empty pages ends |
| channel page | four fetchers; reloads that arrive while a dialog is filled in | a dialog is about a channel that is there, and closes when its request was carried out; in the end the page shows the server's list |
| pages for users and bans | navigations and reloads give each other up; dates decide what can be pressed | who is banned is shown so, can be pardoned, and is not banned again from a page that knows |

`PROJECT.json` lists each hazard at its line with the properties that cover it.

## 2. The plan

The order of work, the most important behaviour first. Items 1 to 11 are done.

1. `ChatState`, `Hub`, `Client`, `ChatServer`: the websocket side, composed from
   the start because the goroutines of clients run the code of the hub.
2. `MessageCache`, and `MessageStore`, the abstract specification it implements.
3. `RateLimit`.
4. `Channels`, and `ChannelList`, the abstract list it implements.
5. `Bans`.
6. Proofs: the type invariants of the websocket side and the cache, `Accounted`,
   `Registration` and what follows from it, `CountersExpire`, `SettingsAgree`.
7. The dashboard: `MessageSearch` and `SearchPage`; `Fetchers`, and with it
   `ChannelPage` over the abstract list, and `UserPages` over `Bans` itself.
8. The cache with several requests that remove messages, and channels that are
   removed with theirs.
9. The hub with a cache whose replies get lost.
10. More proofs: that the cache implements `MessageStore`, and what removals, queues
    and recent lists promise; the bans; `Whispered`, `NoHole` and `LiveInOrder`; the
    channels, and that they implement `ChannelList`.
11. Proofs about the pages of the dashboard, and `AtMostTwice`.
12. Open: the switch that deletes a channel's messages, and descriptions; the
    messages and sessions on a user's profile; the live view.

## 3. Modules and code

| module | what it holds |
|---|---|
| `ChatState` | constants, variables and `Init` of the websocket side |
| `Hub` | the map, `Broadcast`/`Whisper`, the hub's goroutine |
| `Client` | the goroutines of `ReadPump` and `WritePump` |
| `ChatServer` | `handleConnection`, crashes, `Next`, `Spec`, fairness |
| `ChatServerProperties`, `MCChatServer` | properties; instances |
| `MessageCache`, `MessageStore`, `MessageCacheProperties`, `MCMessageCache` | the cache; its abstract specification; properties; instances |
| `RateLimit`, `RateLimitProperties`, `MCRateLimit` | the limiter |
| `Channels`, `ChannelList`, `ChannelsProperties`, `MCChannels` | the channels; the abstract list |
| `Bans`, `BansProperties`, `MCBans` | the bans |
| `MessageSearch` | operators: the search reducer, the query, the server's answer |
| `SearchPage`, `SearchPageProperties`, `MCSearchPage` | the search page |
| `Fetchers` | what React Router does with submissions and reloads (external) |
| `ChannelPage`, `ChannelPageProperties`, `MCChannelPage` | the channel page |
| `UserPages`, `UserPagesProperties`, `MCUserPages` | the pages for users and bans, EXTENDS `Bans` |
| `ChatServerProofs` | theorems about the websocket side: types, registration, delivery |
| `MessageCacheProofs` | theorems about the cache, and that it implements the store |
| `RateLimitProofs`, `ChannelsProofs`, `BansProofs` | theorems about the limiter, the channels, the bans |
| `SearchPageProofs`, `ChannelPageProofs`, `UserPagesProofs` | theorems about the pages of the dashboard; the last one EXTENDS `BansProofs` |

`PROJECT.json` gives for each definition the lines it stands for. Definitions
whose comment begins with "Mutant:" are wrong versions of the definition that
follows; they show that the properties notice such a mistake.

### The websocket side

A `Proc` is a goroutine that uses the hub: the hub's own, or the one of a client
(the handler until it ends by starting the reader, and the reader then).

* **The map.** `conns` is `Connections`. `Insert` and `Remove` are the writes.
  A loop over the map is a `walk`: the keys still to come (`todo`), the keys
  added since, which Go may or may not produce (`maybe`), and the client it is
  sending to (`to`). A removed entry is not produced any more. A loop may end
  with keys left in `maybe`, but not in `todo`.
* **Channels.** `offer[c]` is the message c's goroutine is blocked sending to
  `Messages`, which has no buffer. `send[c]` is c's `Send`, bounded by `SendCap`;
  a send to a full channel waits, and one to a closed channel is a panic
  (`ClosedSend`), which ends the process because nothing recovers it.
* **Go's map check.** When one goroutine can write the map and another use it
  (`WritesMap`, `UsesMap`) the runtime may end the process (`MapRace`), or not
  notice. Torn states of the map itself are not modelled.
* **After a crash** no action is enabled: no restart policy exists for the
  server. All that was in memory is reset, and Valkey's content stays.
* **Unregistration** is by key, in four steps (`UnregisterHit` or
  `UnregisterMiss`, `UnregisterDelete`, `CloseSendChannel`, the broadcast), since
  other goroutines run between them, for the time of a database call.
* **History variables**: `log` (who each cached message is from and to), `live`
  (what was written to each websocket), `snap` (what it was sent on joining), `told`
  (whom each client knows to be online) and `skipped` (what a client should have been
  sent on joining, when the read of the recent messages failed).
* **The cache**, seen from the hub: a message gets the next id and is sent on
  (`HandleCached`), is refused (`HandleDropped`), or is cached while the reply of
  the script is lost, so that it is not sent on (`HandleUnacknowledged`); `unsent`
  records these. A handler that joins reads the recent messages (`ReadRecent`); when
  that fails it goes on with none. `Cached` is what earlier runs of the server left in
  Valkey.
* **Abstracted**: texts, names, channels, the database write of a session (it
  may fail, and only logs).

### The message cache

A message is its cacheID, and a list the set of its cacheIDs: the Lua scripts
are atomic and ids only grow, so lists are sorted. Each call to Valkey or
PostgreSQL in a flush is a step (`Lock`, `ReadQueue`, `Commit` or `Rollback`,
`DeleteQueue` or `DeleteQueueFails`); the inserts of one transaction and its
commit are one step since nobody sees them apart. `Unstorable` holds messages
the table refuses. `late` records which messages were queued while a flush had
read the queue: these are the ones a `DEL` may take along. Each entry of a queue is
JSON that the caching script wrote itself, so the branch of the flush for entries
that do not decode is never taken.

A request of an administrator selects cacheIDs (`SelectMessages`), deletes the
rows that are still there (`DeleteMessages`; `NoRowsDeleted` when there are none)
and purges the cache of all it selected, one by one (`DeleteCachedMessage`).
Several may be under way. `RemoveMessagesByChannel` deletes rows and leaves the
cache alone. `removed` and `wiped` record what either took.

`MessageStore` says what is promised about messages without queues, flushes and
mutexes; only right after a store may it forget what came too late. The refinement
maps `waiting` to what is queued, not stored and not removed, and "settling" to
the time between a commit and its `DEL`.

### The rate limiter

Time is in ticks. A counter has a count and the ticks it has left; the script is one
step, because Valkey runs it as one; the hub reads the two fields of the settings in two
steps, and an administrator writes the row and the two fields in three. An update that
fails may have changed the row all the same; `behind` remembers that memory did not
follow. `EXPIRE` with zero or less deletes the counter. The history `passed` has, for
each span of up to one window, how many messages were allowed in the last so many ticks.

### The channels

`rows` is the committed table; `dirty[a]` the rows a's transaction has written
and holds locked. A statement sees the committed table and its own writes (READ
COMMITTED), waits for a locked row, and works on what it then finds. Deadlocks
are broken by rolling one transaction back, and every statement may fail.
`ChannelList` is the list one administrator is promised; the refinement maps it to
the ids in the order of `(sort_order, id)`, and its `ask` to the request that is
served, so that each change of the list is the one that was asked for.

### The bans

Time is in hours; `Signed` is the wrap of an int64, whose values
are from `-Half` to `Half - 1`. Each
request to connect is at one of five points of `handleConnection`.

### The search page

`search` is the state of `useMessageSearch`'s reducer; `searching` is set back before
the next event and left out. The pages of messages are sets, since every answer
lists the newest first; `MessageSearch!Answer` is the server's query, with one more
than the limit to learn `has_more`. `fetcher`, `route` and `deletion` are the three
requests: the search, the reload of the route, the submission. Each is asked,
answered (the data is read *then*) and lands later. The router's part is what a
submission does to loads under way (`Interrupted`), which loads it makes again
(`LoadsAgain`), and that reloads land together (`LandReloads`). The list shown is
the fetcher's data, once there is any, and the route's before; the page number and
`has_more` are the hook's. `OthersDelete` is another administrator.

Both fetchers have fixed keys, "my" and "my-key", which a user's page uses too
(`pages/users/profile.tsx`). `Leave`, and `Crash` with the error page, close the page
(`away`), and `Open` opens it again: with a search that starts anew, and with fetchers
that are fresh or have what another visit, or a user's page, left in them (`Adopt`): an
answer, a load, a deletion. `own` says that the fetcher's load is a search of this visit.
Of the others it is only said that they find some of what is stored (`Others`).

### The channel page and the pages for users and bans

`Fetchers` has the submissions (`requests`) and the reloads after them: a fetcher's
new submission takes the place of its last one, which the server may still carry
out; reloads land in the order they were asked for, and an older one that would
land after a newer one is given up. An answer from 400 on reloads nothing, and
gives up all the reloads that were asked for before it landed. `missed` records that
the server did something of which the page was not told, because the answer or the
last reload was dropped; the next data that lands last sets it back.

`ChannelPage` has a fetcher each for the input and the three dialogs. The server is
the abstract list of `ChannelList`, as it holds for one request at a time: `Moved` and
`Edit` include a channel that is moved before itself, which stays where it is, and one
that is gone. A request may be answered as failed although it was carried out
(`Failed`): a deletion then gives up the reloads, and the others replace the page by
the error page. `LandReload` includes the effect that clears the selection.

`UserPages` EXTENDS `Bans`: `Perform` calls `BanUser` and `PardonUser`, and what a
loader reads is `IsUserBanned` and the rows of `bans`. `Hour` runs on, so that bans
end while a page is open. Navigation loads a page like a reload, also the page that
is shown already, and gives up the last navigation; requests of a page that is left
go on without a fetcher (`"gone"`). A request that throws, done or not, shows the error
page (`Throw`), but one whose page was left is swallowed and reloads nothing
(`Swallow`). A reload for a page that a given-up navigation was to reach takes away the
data of the page shown.

## 4. The runs

| run | instance | what it shows |
|---|---|---|
| `ws_chat` | two of three connections: a chat client that sends a chat message and then a frame of any kind, and two to the dashboard of another user, with one key (interchangeable, so a symmetry set); `Send` of one | order, completeness on joining but for reads that fail, privacy, also when replies of the cache are lost; the inductive invariant `Registration`, also when a key is taken over |
| `ws_live` | one user, two applications, `Send` of one, one private message of an earlier run, one frame of the chat client | teardown under fairness, announcements that arrive, as long as nobody waits for a channel without a reader; the two connections do not disturb each other |
| `cache_failures` | three public and two private messages, full at two, every call may fail, one crash, one message that cannot be stored; one administrator, and removals of channels | nothing disappears, recent lists are complete, and the invariant of the proof holds of all reachable states |
| `cache_promises` | three public messages and a private one, without failures; two administrators, and removals of channels | refinement of `MessageStore`; removals last; bounded queues; what is not queued between `LRANGE` and `DEL` is stored in the end |
| `rate_limiter` | limits 1 and 2, windows 0, 2 and 3, two changes, that may fail although they were made, one restart | see the properties |
| `channels_one` | one administrator, four ids, three names, three requests besides creations | refinement of `ChannelList`; distinct orders; purges |
| `channels_two` | two administrators, three ids, two names, three requests | locks, deadlocks, stale lists; every request is answered |
| `bans` | two users, one connection that comes back, three bans, of 0, 1, 3 or 4 hours, three hours; 4 hours do not fit a duration | duration and check |
| `web_search` | two messages, one a page, one keyword that finds the first, a filter for its channel; the user pages to the second page, leaves and comes back | search, paging, deletions and aborted loads, and what the fetchers hand on between visits |
| `web_channels` | two channels, a third may be added, two names, two submissions, that may fail although they were carried out | dialogs, reloads, overlapping requests |
| `web_users` | one user, two bans, for ever or for one hour, one hour passes, a page of one record, two submissions, that may fail although they were carried out | bans and pardons across pages, and across errors that are shown or swallowed |
| `v_map_race` | two users, one connection each | a violation, see section 6 |

**Why the bounds are enough.** Each is the smallest at which the case a property is
about occurs. Two clients and the hub give all pairs of the goroutines that can disturb
each other, but for a bystander that blocks a walk by two others; which two of three are
made decides in `ws_chat` whether they share a key. A `Send` of one makes every send
block. In `ws_live` an old private message fills it before the pump is there, so that
the handler, the hub and the readers block for good in all the ways the code has; a
third client would only be one more whose channel nobody empties, and `Stuck` names
whoever it is that a goroutine waits for. A full cache of two is reached, passed and
trimmed with three messages. Three rows give a mover, its target and a bystander; two
transactions can deadlock. Three bans overlap, end and are pardoned in every order. On
the dashboard two messages give a full page, an empty one and a page to walk back to;
two submissions overlap with each other, with the reloads they make and with those they
abort; a page of one record is one that an older ban has dropped off. The bounds
themselves (`ConnMax`, `Frames`, `MsgMax`, `CrashMax`, `RequestMax`, `IdMax`,
`PatchMax`, `BanMax`, `NowMax`, `MessageMax`, `PageMax`, `SubmitMax`, ...) are
constants, named in their modules.

**Deadlock** is checked except where the system can stop: on the websocket side
peers need not send or come back, and with full channels the goroutines can
really wait for each other for good (section 6); the instance of the channels
ends when its ids and requests are used up. The rate limiter, the cache, the
bans and the pages never stop.

**Fairness.** The Go scheduler runs every goroutine that can go on, so each of
hub, handler, reader and writer has weak fairness of its own, and a panic that
is due happens. A websocket write ends, well or badly. Peers owe nothing: they
need not connect, send or leave. The ticker of the cache keeps ticking, and
`sync.Mutex` does not starve a waiter (it hands itself over after a
millisecond), hence strong fairness of `Lock`. In PostgreSQL a statement ends,
one that waits gets its lock when it is free, and deadlocks are found. For the
dashboard: the server answers, or refuses, what it is sent, and answers land, which
is what HTTP with its timeouts gives (on the pages for users, that the server goes on
answering and that something lands as long as something can). Nothing is assumed about
administrators: they need not click, and liveness is asked of the page (`Rests`: if the
user stops, so does the page; `Closes` and `BanCloses`: a dialog closes once its request
was carried out). `BanCloses` has as its premise that navigations come to an end,
because each gives up the one before it, for ever if someone keeps clicking.

**What the properties excuse.** Some losses belong to the code, and the properties
name them and nothing more:

* `NoHole`: messages whose reply was lost (`unsent`), and what was cached before a
  client was in the map when its read of the recent messages fails (`skipped`).
* `TornDownEventually`, `Announced`: a goroutine that waits for a full channel nobody
  empties (`Stuck`).
* `Accounted`, `StoreSpec`, `Persisted`: messages queued between the `LRANGE` and the
  `DEL` of a flush (`late`).
* `SettingsAgree`: an update whose row was written and whose answer was lost
  (`behind`).
* `Current`, `BannedShown`, `Closes`, `BanCloses`: something the server did of which the
  answer or the last reload was dropped, until the page loads again (`missed`).
* `Consistent`, `DeletedGone`: what a visit to the search page shows of another's answer
  before it searches (`own`).

## 5. What is proved

For all values of the constants that satisfy the assumptions of the modules
(`HubConstants`, `ClientConstants`, `CacheConstants`, `RateConstants`, `BanConstants`,
`ChannelConstants`, `SearchConstants`, `PageBound`, `PageConstants`, `PagesConstants`: types,
distinctness of the special values, capacities that are positive, default limits that
make sense). What a theorem assumes besides is said below, and is what its run assumes.
Each inductive invariant was checked by TLC on the instance of a run before it was
proved.

* **Message cache** (`MessageCacheProofs`): `Accounted` is not inductive. A `DEL`
  keeps it only because what it deletes is stored already, and this needs that
  the flusher is the only one between reading and deleting (`OneFlusher`), that
  its copy covers the queue but for late messages, and that after the commit the
  queue is covered by the table (`BatchCovers`); a purge keeps it because what it
  deletes from the queue has been removed, by itself or by another request
  (`PurgesRemoved`), for any number of administrators. Theorems `TypeCorrect`,
  `Invariant`, `NoMessageUnaccounted`.
* **Message cache, what is promised** (the same module). Under `QueuesDeleted`
  (no `DEL` of a queue fails, no crash) the cache implements `MessageStore`: the
  initial state maps to an initial state, and each action to a step of the store or
  to none (`Implementation`). The reason is `StoreInv`: what is stored is in a queue
  only between a commit and its `DEL`, and what is about to be committed is new to the
  table and the older part of its queue. Under the same and without failed purges
  `RemovedStaysAway` proves `RemovedForGood`. `BoundedQueues` needs that flushes succeed
  (`FlushesSucceed`), and that the hub flushes a full queue itself before it goes on
  (`FullIsFlushed`). `NewestAreRecent` needs no assumption.
* **Websocket side, types** (`ChatServerProofs`): `TypeCorrect`, with the bound on
  every `Send` channel.
* **Websocket side, registration** (the same module): `Registration` relates,
  for each client, the entry of the map, the points of its handler and its
  reader, and its `Send` channel. It is inductive together with the types:
  `RegistrationKept`. From it follow `ClosedLeftMap` (a client whose channel is closed
  is not in the map) and `ReadRegistered`, also for connections that share a key,
  and `TornDownUnshared`, where no two do.
* **Websocket side, delivery** (the same module): `Delivery` follows a cached message
  from the log to the websockets. `Walks`: only the hub's goroutine sends one, with the
  cacheID and the users the log has for it, and a recipient it has picked is not picked
  again. `InOrder`: what is on its way to a client is older than what the hub may still
  send it. `Joining` and `Complete`: since a handler registers before it takes its
  snapshots, whatever is cached later finds the client in the map. A snapshot that could
  not be read is complete but for `skipped`, and nothing that is cached after the client
  is in the map can get into that. With the types and `Registration` it is inductive
  (`DeliveryKept`), and gives `CachedOrder`, `NothingMissed` and `PrivateStaysPrivate`,
  also for connections that share a key, crashes, failed reads and lost replies.
* **Rate limiter** (`RateLimitProofs`): `NoEndlessBlock` (a counter that counts has time
  left, for settings of either sign) and `SettingsInStep`: between requests memory and
  row agree, unless the answer to an update that was made is lost (`behind`). It assumes
  one administrator (`\A a, b \in Admin : a = b`) and row 1 only, the one the dashboard
  is given; without either it is false. `TwiceTheLimit` follows from `FixedWindows`: as
  long as the settings are the default ones, what was allowed since a counter began is
  no more than it counted or than the limit, and in what is left of one window before
  that, one counter at most has counted (`CountedWindowed` for a message, `TickWindowed`
  for a second that passes).
* **Channels** (`ChannelsProofs`). For any number of requests at once, `MoveInv`: each
  row a transaction has written is there and locked by it alone (`Locks`), every row
  has an id that was given out (`Issued`), and a move's list has the channel before
  its target and is written as far as the move has come, but for rows that are gone
  (`Moves`). From it follow `RemovedNeverReturns` and `MoveLands`. With one request at a
  time (`Admin = {x}`; for two both are false) `OneInv`: the rows a transaction sees
  are numbered by one list as far as it has come, keep their names, and none is called
  what it purges. From it follow `OrdersApart` and `OwnMessagesOnly`.
  Also with one request at a time the table implements `ChannelList` (`KeepsList`): the
  initial state maps to the empty list, and each step to one of the list or to none.
  Only a creation, a renaming and a commit change the table. What a commit makes of
  it follows from `ListInv`: what is renumbered is the list that was asked for, and no
  channel comes or goes on the way. The lemmas under these are about the operators:
  a table has one sorted list (`SortedExists`, `SortedUnique`) with each row once
  (`SortedFacts`), `RemoveAt` and `InsertAt` of the community modules do what their
  names say and leave the order of the others (`RestAhead`, `PutAhead`), and
  `MoveFacts`.
* **Bans** (`BansProofs`): `Inv` says that a ban whose hours fit ends when they are over,
  and that a connection that was found clear had no ban that stood among those made
  before its request. `BansLast` and `NobodyJoinsPastBan` follow, and `TypeCorrect`, for
  signed arithmetic of any width.
* **Search page** (`SearchPageProofs`): `PageInv`. What is asked for is the latest
  search, and what is answered is an answer to it (`Latest`), because a new search
  aborts the last one; what was deleted is in no answer that may still land, and in the
  list only while the list is being asked for again (`Deleted`), because deletions abort
  what is under way and ask for it once more. All this is about what this visit asked
  for (`own`): of what a fetcher brings along from another page nothing is known, and
  `AdoptFacts` and `OthersFacts` say that a search leaves it behind. It gives
  `LatestShown` and `DeletedLeave`.
* **Channel page** (`ChannelPageProofs`): `PageInv`. `Current` alone is not inductive.
  `Told` says where a change is that the page does not show yet: in the answer to a
  request that counts, or in the last reload, which is still to be answered or has the
  list as it is, or else `missed` says that such an answer or reload was dropped. A
  reload that lands last was answered after everything else that is under way.
  `TypeCorrect` needs `Submitted`: the input of the page requires a name. Theorems
  `DialogKept` and `CurrentShown`.
* **Pages for users and bans** (`UserPagesProofs`): `PagesInv` has the invariant of the
  bans (their lemmas are used for the server's steps), `DialogOfFree`, and again a
  `Told`, of bans only, through errors that are shown and errors that are swallowed:
  pardons and bans that end leave a page that was fresh fresh (`FreshKept`), so that
  what is shown errs towards banned, and the button to pardon stays on for each ban in
  force. Theorems `DialogKept` and `BansShown`.

**Only model-checked.** Each invariant and each action property that a run checks is
a theorem, and so are the two refinements. What is left to TLC is liveness under
fairness, which is out of the prover's reach, with whatever needs `ENABLED`:
`TornDownEventually`, `Announced`, `Persisted`, `Released`, `Served`, `Rests`, `Closes` and
`BanCloses`. Induction over data is out of reach too: no definition that is proved
about is recursive, and no module declares a RECURSIVE operator.

## 6. What the models show of the code

One run ends in a violation, of what a document says (`findings` in
`PROJECT.json`): in `v_map_race` clients are registered and unregistered in their own
goroutines, and not through the hub's channels, so that the map is written while it
is used.

Other behaviour is part of the models, and the properties are worded so as to name
it:

* A message queued between `LRANGE` and `DEL` of a flush is lost without any failure
  (`late` in `Accounted`, `StoreSpec` and `Persisted`), although `cache/README.md:11` calls
  the key a queue of messages waiting to be persisted. `Persisted` says that every other
  message is stored, and does not bear that line out.
* After a crash, or a failed `DEL`, between commit and `DEL` the queue holds messages
  that are stored. Every later flush is refused by their unique `cache_id`, so that
  later messages are never stored; `Persisted` is checked without failures.
* A message whose reply from Valkey is lost is stored, and shown to those who join
  later, but not to those who are there (`unsent` in `NoHole`).
* When the recent messages cannot be read a client joins without them, and is told
  nothing (`cache.go:121`, `private_messages.go:114`; `skipped` in `NoHole`).
* Removing a channel with its messages leaves them in the recent list and in the
  flush queue. When it runs between the two statements of a request that removes
  messages, that request finds no rows and purges nothing.
* The hub waits on a full `Send` channel, for good when the client's pump is gone
  or was never started: then no message and no announcement goes on to anybody, and
  readers wait with it. It happens in `ws_live`, is what `Stuck` stands for in its
  properties, and is named in `hub/README.md:82-83` as to be improved.
* Of two clients that join together, one may never learn of the other: it took the
  list of users before the other was in the map, and the other was announced
  before it was in the map itself (announcement, registration and list are three
  steps). `Announced` says what does hold.
* A broadcast that has picked a client panics when that client's channel is closed
  before the send.
* A second connection of the same user and application takes over the entry of
  the first; when the first leaves, it removes the second, which gets nothing
  more.
* The limiter counts in fixed windows, up to twice the limit around the end of
  one; the schema calls it a sliding window.
* When the answer to an update of the limits is lost after the row was written, the
  server goes on with the old limits until the next update or restart.
* Two administrators at once can give two channels the same `sort_order`, can
  leave the limiter's memory and row apart, and can purge messages filed under a
  name that has changed hands.
* A ban of more than 2562047 hours wraps around; a ban does not end a connection
  that exists.
* The dashboard opens a second connection with the same key whenever its token is
  renewed (`websocket_context.tsx:76`); if the server sees it before the first has
  left, its live view goes silent.
* "Delete Selected" may be clicked again before the page was reloaded: the second
  deletion is refused, and the reload after the first is dropped, so that the list
  stays as it was until the next search.
* Until a search was made the button for the next page goes by what the page was
  opened with, also when the list has been reloaded since. And until then the list may be
  that of another visit, or of a user's messages, since the key of the fetcher is the
  same there (`useMessageSearch.tsx:37`, `profile.tsx:21`).
* A temporary ban whose hours are left empty, are no number, or are zero or less, is
  one for ever. What was typed is kept when its dialog is closed, and drawn empty
  when it opens again.
* Two clicks make two bans, and pardoning one leaves the user banned. The page of
  the bans shows the latest 50 only.
* The button to pardon a ban for ever is on only because the missing `end` becomes
  an invalid date, which compares as false (`bans.tsx:82`).
* A refused ban or pardon, like any error, replaces the whole dashboard; but if its page
  was left meanwhile the error is swallowed. When such a ban was made and only its answer
  failed, the user is shown as free until the page is loaded again.
* A refused deletion of a channel gives up the reloads that are under way after other
  requests: their dialogs stay open, and the list stays as it was.

## 7. What is not modelled, and why

* Of the dashboard: the settings page (one dialog over the request in `RateLimit`),
  the live view, the list of users and the session with Keycloak (lists of what
  arrives; a library). Read while modelling: the switch for deleting a channel's
  messages keeps its state while it is drawn off (`delete_channel_dialog.tsx:13`), and
  the list of users looks for `message.users` where the server sends
  `payload.users` (`user_list.tsx:18`). Of the pages that are modelled: descriptions,
  that switch, reasons, the messages and sessions of a profile, and
  the link to the search page while it is shown.
* Sessions, activity, discovery, token validation, migrations, routing: plain
  queries or set-up that no other part depends on.
* Two administrators on the dashboard at once, but for what one of them deletes while
  the other searches; on the server there are two (`channels_two`, `cache_promises`).
* Texts, JSON and formatting, except where a conversion decides something (the
  duration of a ban).
* Keycloak, the proxy and the deployment, except for the facts used: no restart
  of the server by itself, and stores that keep their data.
