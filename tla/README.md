# A verification project for affinidi-messaging

TLA+ models of the DIDComm mediator (`affinidi-messaging-mediator`), of its SDK
(`affinidi-messaging-sdk`) and of the DIDComm library both use
(`affinidi-messaging-didcomm`): modules, TLC configurations and TLAPS proofs.
Every action is translated from the source; `PROJECT.json` maps each definition
to the lines it stands for.

## The system

A mediator keeps messages for DIDs. Clients authenticate with a challenge, send
messages over REST or a WebSocket, and read and empty their inbox by REST calls
or by Message Pickup 3.0 messages. A client with a WebSocket can have messages
pushed. All lasting state is in one Redis database that several mediators may
share; Lua functions make some changes to it atomic. Every message is packed
and unpacked by the DIDComm library, which resolves DID documents on the way.

| Component | State | Operations | Hard parts |
|---|---|---|---|
| Message database (`database/*.rs`, `atm-functions.lua`) | `MSG:`, `MSG:META:`, streams `RECEIVE_Q:` and `SEND_Q:`, counters per DID and `GLOBAL`, `MSG_EXPIRY` | store, delete, fetch, list, get, status | a function that fails half way is not undone; the clock; one text stored twice |
| Pickup requests (`handlers/*`, `protocols/message_pickup.rs`) | none of their own; a loop over database calls per request | fetch, list, outbound, delete, delivery request, messages received, status | several sessions of one DID; a client that goes away in the middle |
| Live delivery (`tasks/websocket_streaming.rs`, `handlers/websocket.rs`, `database/streaming.rs`) | the task's map of clients, bounded channels, `GLOBAL_STREAMING`, `STREAMING_SESSIONS:`, pub/sub | register, start, stop, deregister, look up, publish, clean start | tasks blocked on each other's channels, several sockets of a DID, several mediators, crashes, lost subscriptions |
| Authentication (`handlers/authenticate.rs`, `database/session.rs`) | `SESSION:` | challenge, response | two calls per response, retries, expiry |
| Inbound (`messages/*`, `handlers/message_inbound.rs`) | none | unpack, dispatch, publish, store, answer | published before stored; posts repeated after an answer was lost; readers in between |
| Statistics (`database/stats.rs`, `tasks/statistics.rs`) | `GLOBAL` | count, print | agreement with what is there |
| Mediator start (`server.rs`, `common/config.rs`, `database/handlers.rs`) | configuration, JWT key | load, connect and wait, load scripts, bind | a database that is away at any step; a restart with tokens in use |
| SDK live stream (`ws_handler.rs`, SDK `message_pickup.rs`) | search list (and a message cache that is never filled), two channels of 32 | send, next, get, pickup calls, time out, abort | answers to earlier calls, messages sent twice, blocked channels |
| SDK sessions (`authentication/mod.rs`, `messages/*`, `transports/*`) | tokens, a copy of them in the WebSocket task | login, every REST call | failed logins, races with other clients, expiry |
| DIDComm messages (`message/*`, `protocols/routing`) | the resolver's cache of documents | pack (from_prior, sign, encrypt, protect sender, forwards), unpack | documents that change while a message is on its way; layers hidden in layers; several curves; limits |
| Well-known DID, language bindings | none | | |

Interaction: a handler of a request calls the database and, for a message to
somebody, looks the DID up in `GLOBAL_STREAMING` and publishes to the mediator
it finds there; that mediator's streaming task passes the message to the socket
of the DID. WebSocket handlers talk to the task of their own mediator over a
channel of ten updates and hear from it over a channel of five messages. The
SDK's application talks to its WebSocket task over two channels of 32.

What makes the components correct: the queues, the metadata and the counters
agree (database); a message is neither lost unread nor taken twice, and paging
shows everything (pickup); what an answer lists as stored is there and gets read
(inbound); messages go to sockets of their DID, registrations follow the
sockets, and nobody waits for ever (live delivery); a challenge is worth one
pair of tokens (authentication); tokens are kept from one's own login only and
outlive the faults of the mediator (SDK sessions, start); what the mediator
pushes and the SDK can unpack reaches the application in order and calls end
(SDK live stream); what is opened is what was packed, by whom it says, and
nobody on the way can read it (DIDComm messages).

The hazards, each at its line and with the properties that address it, are in
`PROJECT.json`.

## The modules

| Module | What it is |
|---|---|
| `StreamIds` | ids of Redis streams, the time the Lua code computes for them, XADD, XDEL, XRANGE, and the test for start_ids |
| `MessageStore` | the message database: `StoreMessage`, `DeleteMessage`, the reads as operators |
| `Mailbox` | what the database promises: an inbox per DID |
| `StreamIdsProofs` | lemmas about XRANGE and what a page returns |
| `MessageStoreProofs` | theorems about `MessageStore` |
| `Pickup` | extends `MessageStore` with the requests of sessions, one step per database call |
| `Inbound` | extends `Pickup` with the messages that come in: publish, store, answer |
| `InboundProofs` | theorems about `Pickup` and `Inbound` |
| `Streaming`, `StreamingProofs` | live delivery on any number of mediators, and theorems about it |
| `AuthSession`, `AuthSessionProofs` | authentication and theorems about it |
| `MediatorProcess` | start, crash and restart of a mediator, and a database that goes away |
| `SdkSession`, `SdkSessionProofs` | extends `AuthSession` and `MediatorProcess` with clients of the SDK and their tokens; theorems about them |
| `LiveStream`, `LiveStreamProofs` | the WebSocket task of the SDK, its channels and the calls of the application; theorems about them |
| `Didcomm` | keys, documents and layers of a message, and which key each layer is made for |
| `Packing` | extends `Didcomm` with `pack_encrypted`, one step per call to the resolver |
| `Envelope`, `EnvelopeProofs` | extends `Packing` with the way over mediators and `unpack`; theorems about both |
| `MC...` | instances for TLC; the constants are in the `.cfg` files |

### How state and actions correspond to the code

**MessageStore.** A packed message stands for its hash. `recvQ` and `sendQ` hold
the stream entries, `recvLast` and `sendLast` the last id that Redis remembers
for a stream. Redis runs a Lua function as one step but keeps what it wrote
when a command fails, so `StoreMessage` has three outcomes: all of it, stopped
at the XADD on `RECEIVE_Q`, stopped at that on `SEND_Q`. `inbound.rs` always
stores with the mediator's DID as sender, hence a single `SEND_Q`. `Tick` lets
the server's clock jump to a later time of `Clocks`. `StreamTime` is
`string.format("%d%d", seconds, ms)` with seconds of a fixed number of digits:
whether the result goes up only depends on the digits the milliseconds add.
Lengths in bytes are left out: each byte counter changes with the count next to
it.

**Pickup.** `req` is the request a session has running: the ids still to do and
whether the next call is the delete (`held`). `Fetch` is one call and then one
delete per element (Optimistic), `DeliveryRequest` and `ListMessages` one call;
a list names the oldest `MaxListed` entries of the inbox or of the outbox, of
one's own DID only, and a delivery request for another DID or with a limit
outside `AcceptedLimits` gets nothing. `Outbound`,
`MessagesReceived` and `DeleteRequest` are loops of `GetNext` and `DeleteNext`.
`Disconnect` drops the handler between any two calls, as axum does. `got`,
`cursor` and `claims` record the texts and entries clients were given, where
they page on, and how many deletes of a text succeeded. `DeleteUnread` says whether
clients ask to delete what they have not read.

**Inbound.** `post` is what a caller of `handle_inbound` is at. `Forward` and
`Ping` are the two kinds of message that lead to one to store, told apart
because a second forward of a text has the hash of the first while a reply is
packed anew. `Unreadable`, `Unhandled`, `Ephemeral` and `Unpackable` are the
ways to an answer without a store. `TryLiveStream` comes before `TryStore`:
the publication reaches a session of the DID at once or never (what happens to
it in between is in `Streaming`). `TryStore` is the Lua call, whose refusal goes
to the errors of the answer (`Stored`), and `Answered` delivers the answer;
`told` counts the answers that listed a text. `Cut` ends the caller anywhere.

**Streaming.** `chan` is the channel into a task, `rx` the one into a socket,
`sending` the message the task is in the middle of handing over (it serves
nothing else then), `sock` the point at which a handler is: `open` in its
`select!`, `start`/`stop` waiting for room in `chan`, `reply` publishing the
status message, `closing` waiting for room for its Deregister. A publication is
two steps, the lookup (`publisher`) and the PUBLISH. An update, with the one
Redis transaction it makes, is one step, since only the task reads its map;
its Redis call can fail (`DbOutcomes`), as can the clean start and the
subscription of a restart (`StartOutcomes`), the status and the lookup of a reply
and the PUBLISH (`ok`): the handler logs the error and nobody hears of it.
`stray` records what `GLOBAL_STREAMING` says without a registration behind it: the
mediator wrote an entry for a DID that is not in its map, or Redis failed to
register or deregister it. `Wired` says whether some `tx` of a
socket is still alive. `task` is `dead` after a panic or a failed start (both
channels and the map are dropped) and `down` after a crash.

**AuthSession.** A response is two steps, `ReadSession` (read, check, draw the
new id) and `UpdateSession` (the transaction, whose RENAME can fail while the
rest of it runs). A response carries the session id it names and the DID it
comes from; the challenge text is not part of the model because the code reads
it into the body but decides on the session id, the DID and the state only. A
message without `from` is not compared with the session (`NoDid`); the tokens
are for the DID of the session in any case.
Random ids do not repeat.

**MediatorProcess.** `phase` is how far `start()` is. Each step is one thing
that can end the process: the configuration (`TryFromRaw`, with what each
setting must hold, and AWS answering or not), the connection, which alone is
tried again (`Retry`), the Lua functions, the metadata, the address. The JWT key
is made from the configuration, so a restart has it again. `Outage` and
`Recover` are the database's, `Crash` and `Restart` the process's.

**SdkSession.** `atm` is an ATM value with the call it is in. A call goes
through `authenticate()` (challenge, response, keep the tokens) unless it has
tokens, and then makes its request: to an endpoint that checks the token
(`protected`), to `/authenticate` (a DIDComm message without a WebSocket,
`sending.rs:60`), or none (`refuse`: more than 100 ids to delete).
`StartWebsocketTask` copies the ATM (`TaskOf`). `Fail` is any error of a login.
Requests that the mediator has accepted go on without their ATM (`Finish`,
`Abandon`), and other clients challenge and answer as in `AuthSession`.

**LiveStream.** `handler` is the task `ws_handler`; `commands` and `events` are
the channels into it and out of it, `out` what it is in the middle of sending
(it serves nothing else then), `socket` what has arrived and was not read. `ATM`
is borrowed mutably by a call, so `call` is one record: `sending` waits for room
in `commands`, `waiting` for an event or the time limit, `expiring` for room for
the TimeOut of a get; a call without a limit is one whose wait is 0.
`Unreadable` are the messages that are no text or do not unpack; the running
task drops them, before it looks at the search list. The pickup calls over a
WebSocket send their request and make gets for it: `more` counts the gets still
to come, `took` whether one of them was given the answer. `Cancel` drops the
future at any of these awaits. The message cache stays empty, because the
condition that would use it is `if true //cache.next_flag`; hence a Next is
never answered, a Get always with NotFound, and `MayRead` (the cache is not
full) is always true. `Copies` is what that condition makes of a message
somebody searches for.

**Didcomm, Packing, Envelope.** A message is the sequence of its layers,
outermost first. Cryptography is ideal: a JWE opens with a secret for a key it
was made for, a signature verifies with the key that made it. `Versions` are the
documents a DID publishes one after the other, `view` what each agent's cache
answers, and `Learn` lets a newer one arrive between any two steps. `choice`
holds the arguments, options and headers of the one message that is packed,
`claim` what pack reports (PackEncryptedMetadata), `got` what unpack reports
(UnpackMetadata), `env` the envelope the reader fills, `ops` its count of
operations. `Packing` has a step for each part that resolves documents: prior,
body with signature, encryption, route, one forward per routing key. `Envelope`
carries the result to the owner of the endpoint, where the mediator stores what
a forward is for, until the addressee opens it. Mediators unpack with the
default options, the addressee with those of `choice`. Pack resolves the
recipient as it is given, a DID or a key id; `UrlsResolved` are the key ids that
the resolver takes. A service is usable (`v2`) when its endpoint accepts
`didcomm/v2`; its type does not matter, because `check_service_type` only asks
whether there is one. Of a chain of services only the routing keys of the last
count, not those of the mediator's own.

Operators named like another one with a word added (`CountReceivedLost`,
`TakePublishedUnknown`) are wrong versions of it: `PROJECT.json` pairs each
with the property that has to notice the difference.

## The runs

| Run | Shows |
|---|---|
| `inbox` | two sessions of one DID page, read and delete with every request there is: of two racing deletes one succeeds, paging with the last receive_id skips nothing while messages come and go, receivers can delete, and the database implements `Mailbox` (stores and deletes map to arrivals and removals or change nothing); for texts stored once and three-digit milliseconds |
| `inbound` | texts are posted, posted again, published, stored and answered while their receiver pages and deletes what it holds, stores are refused and either side is cut off at any point: what an answer lists as stored is there and is read some time, nothing leaves unread, and streams, index and counters of the database agree |
| `stream` | two mediators, a DID with a socket on each, another DID, a crash with a restart that may fail, a lost subscription, failing lookups and publications, overflow checks: messages only reach sockets of their DID, channels keep to their capacity, nothing is left behind in `GLOBAL_STREAMING` and the clean start cleans, but for entries written without a registration |
| `stream_live` | two sockets of one DID on one mediator, with failing database calls, toggles with and without a socket, panicking handlers and a task that a Deregister may kill: progress of the task and the end of replaced sockets, under fairness, and no entry of `GLOBAL_STREAMING` outlives the sockets but one written without a registration |
| `session` | an application and its WebSocket task, and other clients, against a mediator that crashes, starts again with a configuration that may be broken, and loses its database: as long as tokens are valid they work again after every fault |
| `session_races` | ATMs of two DIDs log in at once, fail and try again, while other clients respond to their challenges and retry: responses race and lose, a request outlives the login it was made for; a challenge gives tokens once and to the DID that asked, the counters cover them, and what an ATM keeps is from its own login |
| `live` | in the SDK messages that can be unpacked are handed over in the order of arrival whatever calls are made, given up or time out; twice only for keys that were asked for; a call ends unless it waits without a limit for something that does not come or both sides wait for room; the task goes on reading its socket |
| `envelope` | a message is packed with every combination of options, over no, one or two mediators, for DIDs and key ids, while documents change: unpack reports what pack reported, the sender is proven, others only hold it sealed, it takes the way that the document announces, and only the agent that its outermost layer is for turns it away, and for a reason |
| `repeats` | without the assumption of `inbox` that texts are stored once, `ReceiverCanDelete` fails |
| `stream_reconnect` | `RemovesOnlyItsOwn` fails as soon as a DID has two sockets on one mediator |
| `live_pickup` | a pickup call loses the answer it was given |
| `live_zero` | a get with a wait of 0 waits for ever |

### What the failing runs show

- `repeats`: a text is stored for alice and then for bob. The second store
  replaces the metadata, which names bob from then on: the entry that waits for
  alice stays in her queue and she cannot delete it. (Two stores for alice and one
  delete leave such an entry too: the metadata is gone with the first delete.)
- `stream_reconnect`: a second socket of a DID replaces the first; the first
  ends and deregisters the DID, i.e. the second.
- `live_zero`: the branch of the timer in `select!` is on only for a wait that is
  not 0; such a call is never limited.
- `live_pickup`: `send_messages_received` over a WebSocket makes two gets for
  one answer and returns what the second one gets. If the answer was there
  before the task had the first get, it is sent once: the first get takes it
  and drops it, and the second returns another message, or none.

More consequences of the same code have no run of their own.

- Messages. One text is stored at 1.500 s and deleted, the next is stored at
  2.005 s: its stream time is smaller (`25` against `1500` in the models), Redis
  remembers the last id of the deleted entry and refuses the XADD, and the function
  stops after it counted the text. The queue is empty, and the status reports one
  message. An entry of the first 100 ms of a second has an id of eleven or
  twelve digits, which `inbox_fetch_handler` does not accept as a start_id. A
  delivery request gives an empty list back if another message comes first.
- Statistics. Sent messages are never counted: the transaction in
  `update_send_stats` is always discarded (`stats.rs:128` lacks the key). Of two
  racing responses to a challenge the one that loses is counted in
  `SESSIONS_SUCCESS` like the other (the RENAME fails, the rest of the
  transaction runs), so that `TokensAreCounted` says `<=`. The statistics task
  ends at its first database error (`statistics.rs:23`).
- Live delivery. After `stream_reconnect` the second socket ends as well, since
  its channel closed, and its Deregister finds an empty map. The log line of the
  task computes `clients.len()-1` (`websocket_streaming.rs:220`): with overflow
  checks, as in a debug build, the task panics, and with it live delivery by
  this mediator; without them the line shows a wrong number. Start and Stop
  write `GLOBAL_STREAMING` for the DID whether or not it is in the map, and the
  clean start goes through the set of registered DIDs only: a DID without a
  socket toggles over REST, the mediator dies and starts again, and still counts
  as the place where this DID is. A toggle that is overtaken by the Deregister
  of an older socket does the same. The reply to a toggle right after the
  connection is looked up before the task took the registration from its
  channel, and dropped.
- SDK. A get takes whatever message is first in the channel, be it another one
  than it asks for. A get that was answered by another message leaves its id in
  the search list, without a TimeOut, and its message will be sent twice. A
  message that does not unpack is dropped with a line in the log, and a get that
  waits for it is not told. `authenticate()` returns at once when the ATM has
  tokens, and nothing resets them or uses the refresh token that
  `authenticate.rs:39` of the mediator describes: once the access token has
  expired every call fails.
- Inbound. A ping that wants no response is answered with an error, because
  `ping.rs:120` gives no message and `inbound.rs:156` takes that for one; the
  reply to the others has the type of a ping. Replies are wrapped in forwards if
  the document of the client names a mediator, and stored in the inbox of the
  client itself, who has no key for the outermost layer.
- DIDComm. A routing key, and the recipient, may be key ids. The mediator that
  takes off the forward stores the message under its `next` as it is
  (`routing.rs:91`); requests read the inbox of the DID of their session, so
  that nobody finds it. The requests of the `envelope` run lead there.
  `UnpackOptions::default()` has `unwrap_re_wrapping_forward` on, against its
  documentation (`unpack/mod.rs:206`): a mediator that comes twice in a row on
  the way takes off both forwards.
- Start. A FUNCTION LOAD that Redis refuses is only logged
  (`database/handlers.rs:103`), and `max_deleted_messages` in
  `conf/mediator.toml` lacks the `$` of its variable, so that it gets its default.

### Bounds, and why they are enough

- `repeats`: two DIDs and a text that is stored twice, without refused appends.
- `inbox`: two sessions are enough for a race of two requests, two texts and a
  page and a list (`MaxListed`) of one for entries that come and go around the
  cursor, two clock readings for ids of one time and of a later one. Requests
  name `h1` only, `h2` is deleted by fetches with Optimistic; sessions are
  symmetric.
- `inbound`: two callers and two accepted messages (`MaxPosts`) are what a
  repeated post takes, for the same DID or another one; one session of the
  receiver pages one element at a time and deletes one text; the clock
  (`BackwardClocks`) crosses a second, so that a store is refused.
- `stream`, `stream_live`: two sockets of one DID are what replacing takes, a
  second DID what mixing up takes; the channel capacities are 2 and 1 instead of
  10 and 5, so that full channels occur; publications, toggles, crashes and
  drops are counted by `bounds` and limited by `MaxPublished`, `MaxToggles`,
  `MaxRestToggles`, `MaxCrashes`, `MaxDrops`. The mutual wait of `TaskProgress`
  is reached in `stream_live`. In `stream` a DID has one socket per mediator and
  handlers do not panic, which leaves room for two mediators and a crash;
  `stream_live` has the two sockets of a DID on one mediator, where each can replace
  the other or deregister it. Both together are the theorems' part.
- `session`: an ATM and its copy, other clients with one id (`OtherIds`), two
  ids and one request, which bounds the run to one login that gets an answer: what
  happens to its tokens is the question. One crash and one outage (`MaxCrashes`,
  `MaxOutages`), which meet at every step of the start; the configuration file
  may be broken when it is read. All clients are of one DID; `session_races` has
  two.
- `session_races`: two ATMs of different DIDs, without tasks, so that tokens of
  the one are never those of the other. Four ids and two requests are enough for
  both logins to be under way together, for one that is given up while its
  request goes on and tried again, and for two responses to one challenge. Other
  clients draw no ids of their own here (`OtherIds`), but send responses that
  name anybody's session, from any DID or none. Ids and requests are symmetric;
  crashes are in `session`.
- `live`, `live_pickup`: an answer, a message that is looked for by
  its id and an answer that does not unpack are the kinds that the task tells
  apart; channels of one element instead of 32, so that both fill up and
  `MutualWait` occurs; three calls (`MaxCalls`) are enough for a get that is
  given up, a later get of the same key and a command behind a full channel.
  `try_next_message` is not counted. `live_zero` needs one call and no requests.
- `envelope`: the sender, its former DID, the addressee and two mediators with
  keys of two curves and of an unsupported kind, one of them without its secret;
  six services for routes of no, one and two mediators, by DID, by URL or by key
  id; recipients given as a DID, as a key id that the resolver takes and as one
  that it does not (`UrlsResolved`); one
  second version of three of the documents. The limit of operations is 4 instead
  of the default so that it is reached.

`CHECK_DEADLOCK FALSE` everywhere: the bounds let the models run out of things
to do, and an idle mediator is not an error.

### Fairness

`stream_live` assumes weak fairness of the task, and of a socket's
handler for each thing it can do by itself (send an update it holds, pass a
message on, notice that its channel closed, deregister, reply, publish). tokio
polls whatever is ready, and `select!` chooses among ready branches at random;
weak fairness of the task as a whole is enough because publications and toggles
are bounded. That messages are passed on assumes peers that read. Clients need
not connect, toggle, send or close, and a crashed mediator may stay down.

`live` assumes weak fairness of the SDK's task and of the running call (tokio
polls both whenever they can go on, timers included). Nothing has to arrive,
the connection need not close, and the application need not call, give up or
take anything.

`inbound` assumes weak fairness of the handlers (of posts and of requests), and
strong fairness of the receiver's next page and of its answer: the client is
one that pages again and again, and not each of its fetches is cut off. Nobody
needs to post or to delete.

`session` assumes weak fairness of the calls and the requests they make, of the
start, of a restart (whatever runs the mediator starts it again; the code
leaves that to its operator) and of the database coming back; and strong
fairness of an application that lists its messages again and again, and of the
steps of a start that depend on what is outside (the configuration file, AWS,
the address): they succeed some time when they are tried over and over.

`live_zero` uses the fairness of `live`: its call waits although everything that
can go on does. `envelope` checks safety and assumes no fairness.

## The proofs

`tlapm` proves the following for all values of the constants: any number of
DIDs, sessions, sockets, mediators, messages and calls, any clock, documents and
channel capacities. The assumptions on constants are named in the modules that
declare them; where a theorem needs one more, it is said here and why.

**MessageStore.**

- `TypeCorrect`, `IndexCorrect`, `CountersCorrect`, `DeletesCorrect`.
  `IndexSound` is not inductive: that a delete leaves the index of other texts
  alone needs that no two entries of a stream have one id, and that a new id is
  new needs that no entry is above the last id of its stream (`StreamsSound`;
  together `IndexInv`). The counters need in addition that each delete really
  removes an entry, which is what the index gives, and finite queues
  (`CountInv`). The action property `DeletesOneCopy` follows from `IndexInv`.
- `ReceiverCanDeleteInCleanUse`: under `CleanUse` (texts stored at most once,
  clock readings with three-digit milliseconds) every queued message can be
  deleted by its receiver. `CleanInv` adds that the stream ids never run ahead
  of the clock, so that no append is refused, and that a text that was stored
  once is queued once. `repeats` shows that it fails without the hypothesis.
- `StatisticAgrees` (`QueuedStatIsSumOfStatus`), for finitely many DIDs. The sum
  is a recursive function over an enumeration of the DIDs. Its proofs are by a
  least counterexample, as induction theorems cannot be used: the sum exists,
  and it changes by as much as one summand does.
- `StoreImplementsMailbox`: under `CleanUse` the database implements `Mailbox`.
  The refinement mapping is the inbox of each DID as the sequence that XRANGE
  reads. A store appends to it because a new id is above all others; a delete
  takes one element out because the index leads to exactly one entry.

**StreamIds.** XRANGE returns the one sequence that is sorted by id and has
every entry once. That there is such a sequence for a finite stream of any
length, and only one, is proved from a smallest set of entries without one
(the finite subsets are well-founded). The lemmas the others cite: an append at
the end extends the sequence, a delete shortens it, a bounded page leaves out
only entries behind those it returns.

**Pickup, Inbound.** Every step of a request or of a post is a step of the
database or leaves it alone, which carries `IndexInv` and `CleanInv` over.

- `InboundTypesCorrect`; `ClaimsAreExclusive` and `InboundClaimsAreExclusive`
  (`ClaimedOnce`): the deletes of a text that succeeded, plus one if its metadata
  is there, are at most the times it was stored (`ClaimsCovered`). A delete has
  to find metadata and takes it away, so two of them cannot share one store.
- `NothingLeavesUnread`, `NothingPostedLeavesUnread` (`NoUnreadLoss`): for
  clients that only delete what they hold (`~DeleteUnread`), as a client that
  deletes by id without reading asks for the loss. A request's ids are among
  what its DID was given (`ReadsBeforeDeletes`), also those that a fetch with
  Optimistic is still to delete.
- `StoredMeansQueued` (`ToldIsStored`): for each text, the answers under way
  that will list it and those that did are covered by what is queued and what
  was taken out with success (`AnswersCovered`). It counts sets of callers, as
  a text can be posted several times and each answer needs a copy of its own.
- `PagingIsComplete` (`PagingSkipsNothing`): under `CleanUse`. Ids then only
  grow, so an entry that arrives later is behind the cursor; and a page returns
  the entries next to it without a gap (`PagesHaveNoGap`, from `StreamIds`).
- `PickupImplementsMailbox`, `InboundImplementsMailbox`: both specifications
  implement `Mailbox` under `CleanUse`.

**AuthSession.** `ChallengesAreUsedOnce`, `TokensAreForTheChallenged`,
`SessionsAreWellFormed` and `CountersCoverTokens`. The
invariant `AuthInv` says that ids not drawn yet name nothing, that the new
ids of open responses are distinct and unused, and that a challenge which
gave tokens has no session any more; so the RENAME of a second response
cannot find it. For the counters, `Counted` adds that `SESSIONS_CREATED` is
the number of ids that have an owner and that the successes are at least the
tokens; as no two tokens come from one challenge, the map from tokens to
challenges is an injection and bounds the tokens by the sessions created.

**SdkSession.** `SessionTypesCorrect`, `SessionsSurviveCrashes` (the two
promises of `AuthSession`, now with crashes, outages and logins given up) and
`TokensAreKeptByTheirOwner` (`KeptTokensAreOwn`). `LoginInv` follows a token on
its way: the request an ATM waits for is open, in the ATM's own name and nobody
else's (`WaitingInv`), so that the answer is for that ATM (`AnswersInv`) and so
are the tokens it keeps and the copy its WebSocket task got (`KeptInv`).

**Streaming.**

- `StreamTypesCorrect` and `MessagesReachTheirOwner` (`DeliveredToOwner`) hold in
  every case. `Addressed` says it of each place a socket is named: updates in
  the channel of a mediator come from its own sockets, the map leads a DID to
  its own socket, and so does what the task is in the middle of sending.
- `NothingIsLeftBehind` (`NoEntryWhenGone`), `CleanStartFindsAll`
  (`CleanStartCleans`): with no hypothesis about connections, toggles or Redis;
  sockets of a DID may overlap, and calls may fail. What both except are the
  pairs in `stray`, that is a mediator that wrote about a DID without a
  registration of it. `NoEntryWhenGone` speaks of
  sockets that came to their Deregister and of mediators with a task: a handler
  that panicked leaves its entry, and so does a task that did, until the
  mediator starts again. `KeysInv` says that an entry which is not stray is in
  the session set of its mediator, and that its DID is in the map while the task
  runs; `OrderInv`, about the order of the updates in a channel together with
  the map, that a client in the map whose socket has closed has a Deregister
  under way.

**LiveStream.** `LiveTypeCorrect`, `MessagesComeInOrder` (`HandedOverInOrder`),
`NothingElseComesTwice` (`TwiceOnlyIfAsked`). `OrderInv` looks at what the
application took, what is in the channel and what the task is sending as one
sequence: a message in it comes after those that arrived before it and can be
unpacked, for the first time, and a second copy has a key that was asked for;
`AskedInv` ties the search list to those keys, through the commands that are
still under way.

**Packing, Envelope.**

- `EnvelopeTypeCorrect`: pack makes stacks of well-formed layers that end in a
  plaintext, whatever the documents are, and unpack takes them off one by one.
- `AttributionIsProven` (`SenderIsProven`): `EnvInv` says that every layer of the
  message is genuine to the agent that packed it (who holds the keys of its
  signature and authenticated encryption; forwards and JWEs in front have none),
  and that while unpack runs what it reports is either not proven yet or a key
  of such a layer that was opened.
- `OnlyTheAddresseeReads` (`StaysSealed`): under `PrivateKeys`, nobody has a
  secret for a key in somebody else's document. `SealInv` says that the message
  is at each point still below a JWE for keys of the addressee, or nobody but
  the addressee has it, or it was never encrypted.

- `MetadataIsTrue` (`MetadataAgrees`): `ShapeInv` describes the stack. The
  innermost JWE is the one whose keys and sender pack reported, below it is the
  signature it reported, if any, and the plaintext, and above it alternate
  anoncrypt layers and forwards, but for the anoncrypt layer of protect_sender.
  `MetaInv` follows the metadata through the steps of unpack: what they say after
  each step, given what is left of the stack.
- `TheAnnouncedWay` (`RouteTaken`), with no hypothesis. `WayInv` relates the stack
  to the way: while pack wraps, the routing keys that are left are the first stops
  of `Announced`, `route.next` is the stop after them, and the forwards in the
  stack are addressed to the stops from there on (`Wrapped`); later `trail` is the
  beginning of the way and the forwards that are left are addressed to the rest of
  it, at every second layer (`Walked`, `Ahead`). Stating it for all routes
  corrected the property: a mediator that is listed twice in a row takes off its
  own second forward in the loop of `unpack`, and relays afterwards with metadata
  that say nothing of it. `trail` therefore records the forwards that a reader
  takes off for itself as well, and the property excepts no rewrapped message.
- `RefusedOnlyWithoutKeys` (`RefusedForAReason`): under `PrivateKeys` and
  `SecretsFit`, every secret for a key id that a document lists is for the key that
  the document had at first. Without it a reader could turn a message away
  because its own secret does not open it, or a sender could sign with a key that
  nobody can verify. `SoundInv`: while the documents stay as they were, every layer
  is one they account for (`Fresh`), what is below a forward is a JWE for the
  forward's addressee, and what protect_sender hides is for the same keys
  (`Follows`); so each reader resolves the sender's key, opens what it has a
  secret for and verifies what is signed, and `RefusalInv` leaves as reasons the
  limit of operations and no secret at all. `AddressInv` adds that a message lies
  in the inbox of the agent its outermost layer is for: that takes `WayInv` for
  the first stop, and `PrivateKeys` for a reader that unwraps forwards, which goes
  on only if it has a secret for the addressee. `MCEnvelope` assumes both
  hypotheses by name, so that TLC checks them of the agents of the run.

Helpers on sequences are written with functions where the library's are opaque to
the provers (`Keep` in `Didcomm`).

Only model-checked: liveness (`ServedAgain`, `ToldIsRead`, `TaskProgress`,
`SupersededEnds`, `CallEnds`, `SocketIsRead`), as fairness and
ENABLED are out of the prover's reach. Every other property of the passing runs is
stated by a theorem.

## Not modelled

Cryptography itself and encodings (`jwe`, `jws`, `utils`: a layer is opened with
the right key or not at all); message builders, attachments and headers that no
decision depends on; numbers and log levels of the configuration; the well-known
DID, which returns a constant; the statistics task, which reads and logs;
language bindings, the processor (empty), examples.

Also abstracted: WebSocket messages other than toggles run concurrently with the
socket in the model (a sender), not inside its handler; Redis calls of
`MessageStore` do not fail for other reasons than the stream ids (in `Inbound` a
caller whose database does not answer is cut off); two mediators with one
streaming uuid (a configuration error, which `mediator.toml` warns of) do not
occur. In `Inbound`: a result for several recipients (`handle_inbound` loops
over them, but no handler builds such a result). In `LiveStream`: a second
`start_websocket_task` while a task runs (it replaces both channels, the old
task ends), `try_next_rkyv_message`, and the code of the message cache that
cannot be reached. In `SdkSession`: the SDK's requests have no time limit, so
one that the mediator never answers waits as long as its connection lives; the
model lets every request end. In `Packing`: which of several errors of a step is
reported, and what makes the resolver, which is not part of this repository,
take a key id (`UrlsResolved`).

## Plan

1. Done: all modules above, and proofs about every component that has a model.
2. Done: proofs of every invariant and action property that the passing runs
   check, and of the refinements of `Mailbox`.
3. Models: a second WebSocket task of one ATM, and the counters of WebSockets.
