# A TLA+ model of Chatterino's connection and session core

Chatterino is a desktop chat client for Twitch (C++20, Qt). What a user sees
depends on a handful of long-lived conversations with servers — IRC, Twitch's
EventSub, the live-update sockets of 7TV, BTTV and PubSub — that are driven
from two or three threads by callbacks, posted events and timers, and on what
these leave behind: the messages of a channel and its images. That is the part
of the program these modules model: it is where an order of events nobody tried
decides whether a channel is joined, an emote set is kept up to date, a
subscription is lost, or a message is shown twice.

Paths below are relative to `src/`. Everything in the modules is translated from
the source there; `PROJECT.json` maps each definition to its lines.

## 1. Inventory

| Part | State | Operations | Hard behaviour | Correct when |
|---|---|---|---|---|
| Live-update connection pool (`providers/liveupdates`, owners in `seventv/`, `bttv/`, `twitch/PubSub*`) | clients and their topics, backlog, `addingClient_`, retry timers | join/part, subscribe/unsubscribe, open, close, retry, stop | sockets live on a websocket thread, the manager on the GUI thread; events are posted; connections fail before or after opening | a joined topic is held exactly once, never lost, and reaches an open connection |
| WebSocket connections (`common/websockets`) | connection stage, send queue, `isClosing`, listener, health probe | create, send, close, handshake steps, read, write, detach | asynchronous callbacks on a strand race with close and shutdown | the listener hears at most one open, no message after close, one close |
| EventSub controller (`providers/twitch/eventsub`, `lib/twitch-eventsub-ws`) | subscription table with reference counts and states, connections, retry timers | subscribe, unsubscribe by handle, Helix create/delete, welcome, reconnect, revoke, retry | Helix answers arrive late and in any order; sessions die with requests in flight | a referenced subscription is live or has a request or retry under way; an unreferenced one is released |
| IRC connections and channel registry (`providers/irc`, `providers/twitch/TwitchIrcServer`) | read and write connection, reconnect timers, ping state, channel registry, join rate limiter | join, part, connect, disconnect, ping timeout, account change | a join waits in a rate limiter while the connection it was meant for is gone; a channel is released on another thread while the GUI opens its name again | every open channel is joined or about to be joined, and no closed one is |
| Rate limiting (`util/RatelimitBucket`, `TwitchIrcServer::prepareToSend`) | budget, queue, times of sent messages | send, cooldown | tokens come back by timer | never more than the budget in a window, no item lost |
| Message history (`messages/LimitedQueue`, `common/Channel`, `twitch/TwitchChannel`, `recentmessages`, `widgets/helper/ChannelView`) | bounded ring of messages per channel, when it was last connected, loads under way, a view's filtered copy and layouts | add, prepend history, fill a gap, replace, clear, break, join, heartbeat | history arrives while live messages are added and old ones dropped; services fail or answer in part; a gap is measured by when the connection was last known to work | order kept, no duplicates, no gap without a cause, every load ends, the view follows |
| Heartbeats (7TV, PubSub, IRC) | last heartbeat, pong flags | timer, message, pong | late answers | a dead connection is closed, a live one kept |
| Network requests (`common/network`) | in-flight requests, timers, callbacks, file cache | execute, answer from the cache, finish, time out, write the cache, call back | three threads; timeout against reply; a caller that is gone; a cache file read while it is written | one outcome per request, and one for every request that was sent |
| Images and emotes (`messages/Image`, `singletons/Emote*`, `providers/*/Emotes`) | reference counts, frames, `shouldLoad_`, `empty_`, the expiration pool | create, paint, load, decode, expire, destroy | the last reference may go on any thread, also while the pool holds its mutex | what has frames can expire; an answered load reaches the image; no thread locks a mutex twice |
| Image uploader (`singletons/ImageUploader`) | upload queue | upload, retry | one upload at a time | every queued image is uploaded or reported |
| Whispers, chatters, live status (`Twitch*`, `controllers/twitch`) | poll timers, generations of history loads | poll, apply | answers of an older request | stale answers are dropped |
| Accounts (`providers/twitch/TwitchAccountManager`) | accounts, current user | add, remove, switch | switch while requests run | state follows the current user |
| Settings, window layout, paths (`singletons`) | settings tree, splits | load, save | crash while saving | layout survives a restart |
| Highlights, ignores, filters, commands, completion (`controllers`) | rule lists, expression trees | evaluate | none: pure functions of a message and the settings | first match wins, well-typed filters evaluate |
| Plugins (`controllers/plugins`) | Lua states, timers, callbacks | load, reload, call | reload while callbacks are pending | no call into an unloaded plugin |
| Widgets (`widgets`) | Qt widget tree, scrolling, selection | user input, painting | none modelled | — |
| Updates, toasts, logging, native messaging, crash handling (`singletons`) | per-service state | file and process I/O | I/O | — |

How they interact. `TwitchChannel` is the hub: it takes a handle on the EventSub
controller for each of its topics, joins the BTTV and 7TV managers, is registered
in `TwitchIrcServer` (which joins it on the read connection) and stores messages.
The three socket families call back from their own thread and post to the GUI
thread (`runInGuiThread`, `postToThread`, `QTimer`), where almost all state is
owned; what crosses the boundary is a posted event, so order is first come first
served per sender, and any GUI handler can run between two of them. Helix requests
answer on the GUI thread after an arbitrary delay. `IrcConnection`'s ping timer is
also the heartbeat by which a channel knows until when it had every message, and the
joined channel's ROOMSTATE or first message starts its history load. Images are
loaded by network requests whose callbacks run on the thread pool; each holds a
reference to its image while it runs.


## 2. Plan

The order follows what breaks worst when an order of events is wrong.

| Step | Modules | State of the work |
|---|---|---|
| 1. Live updates | `LiveUpdates`, `MCLiveUpdates`, `LiveUpdatesProofs` | modelled, checked; every invariant proved |
| 2. EventSub | `EventSub`, `MCEventSub`, `EventSubProofs` | modelled, checked; every invariant proved |
| 3. IRC | `RatelimitBucket` and `IrcConnection`, composed by `TwitchIrc`; `MCTwitchIrc`, `TwitchIrcProofs` | modelled, checked; every invariant proved |
| 4. One websocket | `WsListener` (abstract), `WsConnection` (implements it), `MCWsConnection`, `WsConnectionProofs` | modelled, checked; every invariant and the refinement proved |
| 5. Message history | `LimitedQueue`, used by `MessageHistory`; `MCMessageHistory`, `LimitedQueueProofs`, `MessageHistoryProofs` | modelled, checked; every invariant proved |
| 6. Requests and images | `NetworkRequests`, composed by `Images`; `MCImages`, `ImagesProofs` | modelled, checked; every invariant proved |
| 7. Heartbeats | the 7TV and PubSub clients' heartbeat on top of a live-update client | to do |
| 8. Queues | the image uploader's queue, generations of whisper history | to do |
| 9. Pure algorithms | types of filter expressions, the first-match rule of highlights | to do |

Still to be stated for what is there: an abstract pool ("a set of wanted topics,
each eventually on one connection") that `LiveUpdates` implements.

## 3. The modules and the code

`PROJECT.json` ("map") has the lines of every definition. Operators commented
"Mutant" are variants of the code that are used by nothing; each stands for a
plausible bug that makes a property fail.

### LiveUpdates

`BasicPubSubManager` keeps clients, one socket each, and spreads topics over
them; `Keys` are what its owners join (a 7TV user, a BTTV channel), `Joins[k]` and
`Parts[k]` the topics a join subscribes to and a part releases — BTTV's parts are
fewer than its joins, as in `BttvLiveUpdates.cpp`.

| Variables | Code |
|---|---|
| `clients`, `subs`, `opened` | `clients_`, each client's `subscriptions_` and `isOpen` |
| `pending`, `adding`, `stopping` | `pendingSubscriptions_`, `addingClient_`, `stopping_` |
| `timers` | single-shot retry timers of `onConnectionClose` |
| `wanted`, `calls` | the owner's set of joined keys; subscriptions of a join still to be made by the same handler |
| `dialing`, `up`, `events` | the sockets on the websocket thread, and the open and close events posted to the GUI thread |

A GUI handler is one step, or a run of steps during which `GuiIdle` keeps every
other handler out (a join of several topics, the resubscription of a closed
client's topics). The sockets' steps interleave with them. Left out: the backoff's
delay, diagnostics, `createSocket` failing (an URL that does not parse).

### EventSub

`Controller` keeps a table of subscription requests with reference counts. Handles
come and go, and Helix answers arrive, on the GUI thread; sessions, retries and
resubscription run on the EventSub thread. `state`, `refCount`, `conn`, `subID` and
`timer` are the fields of `Controller::Subscription`, `sessions` the connections
with the set each `Connection` listener keeps, `tasks` the handlers posted to the IO
context, `todo` the rest of a handler that is running, and `creates`, `deletes` the
Helix requests under way. `live` is what exists at
Twitch: a create takes effect some time before it is answered, may be refused
or answered with an error though it took effect, and a second one is a conflict. The
set `Faults` says which of them a run has. One step of the IO thread is the part of
`subscribe(request, isRetry)` under the mutex or the part after it, since the GUI
thread can run in between.

### RatelimitBucket, IrcConnection, TwitchIrc

`RatelimitBucket` is the JOIN limiter as operators on a record; `IrcConnection`
the flags and timers of one connection; `TwitchIrc` composes two of each with the
registry of channels. Communi, the IRC library under `IrcConnection`, is not in the
repository: `socket` is what the code sees of it, `stalled` a peer that is gone
without the socket's knowing. `entry` is the weak pointer in `channels` (`"none"`,
`"live"`, or `"expired"` between the last release and the removal), `orphans` the live
channels whose entry another's `destroyed` handler removed, and `joined` what Twitch has
after the JOINs and PARTs that got there.

| Steps | Code |
|---|---|
| `ConnectedTo`, `Broken`, `Received`, `PingTick`, `Retry`, `Connect`, `UserReconnects`, `ReconnectReceived`, `SwitchAccount`, `ReconnectWrite` | one handler of the GUI thread each; `UserReconnects` is `connect()` called again, in any state |
| `OpenChannel`, `ConnectedTo`, `Cooldown`, then `Lookup` and `SendJoin` for each name | what gives names to a rate limiter, and the limiter's callback: it looks for the name in the registry, then sends the JOIN. `called` and `found` are the names in between, and `GuiFree` keeps other handlers of the GUI thread out until they are gone |
| `ReleaseHere` | the GUI thread drops a last reference: destructor and `destroyed` handler are one step, as all that other threads do meanwhile is to remove and to part too, which commutes with its parts |
| `ReleaseThere`, `Unregister`, `SendPart` (read, then write) | one of `Threads` drops it: its handler takes neither `channelMutex` nor `connectionMutex`, and each of its steps may come between any two of the GUI thread |

`raced` remembers the two races this makes possible, for each connection until it is
opened again: a channel opened while a PART of its name was due, whose JOIN that PART may
follow; and one removed after a callback had found it, whose JOIN may follow the PARTs.
The code loses the first channel's JOIN and stays in the second, so `OpenIsJoined`,
`ClosedIsParted` and `EventuallyJoined` except these names and no others. A connection
attempt ends (it connects or breaks): Communi's own timeout is not modelled. Left out: the
content of messages, sending chat messages and its limits, whisper history, and the data
races inside the map of channels and inside the socket when two threads use them at
once, each use being one step.

### WsListener, WsConnection

`WsListener` is the contract of `WebSocketListener`: idle, then open with messages,
then closed, once. `WsConnection` is `WebSocketConnectionHelper`, with `conn` the
fields of the object and the operations pending on it, `posted` the calls posted to
the IO thread by `run()`, the handle and the pool, and `silent` a peer that has
disappeared. Dialling walks through the resolved addresses; `closeImpl()` cancels
what is pending, whose completion then comes as an error; a timer that is due when
it is rescheduled still runs. The two templates (TCP, TLS) differ in one handshake,
chosen by `secure`.

### LimitedQueue, MessageHistory

`LimitedQueue` is the bounded ring as operators on sequences: what is pushed to the
back displaces the oldest, what is pushed to the front never does, and an insertion
into a full buffer drops what is first afterwards. `MessageHistory` is one Twitch
channel with a view. The server numbers its messages, so that a message is its own
timestamp and the log is the clock; those in `Unnamed` have no id and carry the System
flag (a NOTICE), and no history service knows an id for them.

| Variables | Code |
|---|---|
| `messages`, `proxy`, `layouts` | `Channel::messages_`, that of the view's proxy channel, `ChannelView::messages_` |
| `link`, `fresh` | the read connection (`"silent"`: gone unnoticed), `recentlyReceivedMessage_` |
| `room`, `disconnected`, `lastConnectedAt` | `roomId()`, `disconnected_`, `lastConnectedAt_` |
| `loading`, `loads` | `loadingRecentMessages_`, the `LoadContext`s under way with the service asked, its answer, and the partial answer kept |
| `missed`, `excused`, `mixed`, `cleared` | bookkeeping of the properties: what was sent while the client was not joined; the part of it no load will bring, marked where the code gives it up; a first load that reached past a live message; a view emptied by `/clear` |

A GUI handler is one step, with the signals of the channel carried through proxy and
layouts (`Adds`, `AddsAtStart`, `Fills`, `Replaces`). A service may answer completely, in
part (without the older messages) or not at all; the next one is asked at once.
Left out: a plugin's `clearMessages`, the fill of /mentions, day separators,
moderation that disables messages, quitting, services with invalid URLs, a clock
that differs between server and client, the setting that turns history off, and a
list of services of which none is enabled (there is one at least, and a load ends
only with an answer).

Two properties make an exception once `mixed` says that the first load reached past a
live message. The list is then out of order where that load ends, and a full buffer
drops what stands first, which need not be the oldest: a missed message may be gone
while older ones are there (`LostForAReason`), and the proxy may drop one that the
channel, which dropped it before, gets back with a gap (`ViewFollowsChannel`). Proving
the properties without the exception failed there, and TLC finds the behaviours on
instances larger than the run's: `MaxMessages = 3`, `Limit = 8`, `HistoryLimit = 3`,
`Providers = 1`, one break and one failure (the first load gets a partial answer) for
the first, `MaxMessages = 5`, `Included = {1, 2, 3, 5}`, `Limit = 7`,
`HistoryLimit = 3`, `Providers = 1` and one break for the second.

### NetworkRequests, Images

`NetworkRequests` has one action for each handler of a request, with the request as
parameter: `stage` is what the worker thread knows of it, `jobs` what waits or runs on
the thread pool, `posted` the queue of the GUI thread, `files` the cache, in which a file
that is being written, or was when an earlier run ended, is `"cut"` or `"broken"`. `Images`
composes it with `Image.cpp`: each image is created once per key while it lives, `gui`
and `held` are the references of the GUI thread and of running callbacks, and whoever
drops the last one runs the destructor, which must lock the pool's mutex. `sweep` is
`freeOld()`, which holds that mutex step by step while callbacks run. Left out: `freeAll()`,
redirects, what frames show, and quitting, with it the branch of `finished()` for a cancelled
reply, which calls nobody back (`timeout()` disconnects `finished` before it aborts). A
task that ended is taken to be deleted at once.

## 4. What is checked

| Run | Question | Instance |
|---|---|---|
| `live_updates_safety` | does any order of joins, parts, opens, closes, retries, stop lose, duplicate, strand or overfill, and does a topic of a key that stays joined reach an open connection? | BTTV's three topics on two keys, two per client, two closes, three joins |
| `live_updates_parted` | violated: is a topic whose key was parted let go? | as above, two per client |
| `eventsub_safety` | do table, listeners and Twitch agree under every fault, with two users? | two requests of two users, three handles, one session lost, one error |
| `eventsub_kept` | do the code's assertions hold while no handle is dropped, and has one user one subscription per request? | two requests of one user, two losses or reconnects, two errors |
| `eventsub_live` | is every request decided? | two requests of two users, refusals, errors and lost answers |
| `eventsub_again`, `eventsub_leak` | violated: is a Retrying request being retried; is an unreferenced subscription released? | one request, two handles, no fault |
| `irc_safety` | joined, parted, retried, spaced, under all interleavings, and is an open channel joined in the end? | one name opened twice, one break or reconnect, one switch, budget one, one other thread |
| `websocket` | contract, serial writes, no stranded connection, the end after close, a dead peer | two addresses, two sends, two closes, two messages |
| `message_history` | are messages in order and single, is every gap accounted for, does a view follow, does every load end? | four messages, one without an id, queues of four, history of two, two services, one break, two failures |
| `images` | one outcome per request, no frames the pool does not know, every answer heard | two images of one URL, one dynamic, two loads each, a request with timeout and caller, one sweep |
| `images_lock` | violated: does the GUI thread never wait for its own mutex? | an image and the one that takes its place, one sweep |

Why the bounds suffice. The hazards here are between few parties: a topic moving
between two clients and a backlog; one request and two sessions; one channel, one
queue and a connection that comes back. Two of each is the least that lets two of a
kind collide, and a third join (a third handle) lets something happen after a
collision. The IRC run has one name, whose second channel collides with the first one's
`destroyed` handler and with its JOIN in a limiter of budget one; that any number of names
can queue is left to the proofs. `MaxBreaks` bounds stalls, losses, RECONNECTs and the
user's reconnects together. Capacities and budgets are one or two so that they run out. The bounds
`MaxCloses`, `MaxJoins`, `MaxHandles`, `MaxDrops`, `MaxErrors`, `MaxOpens`,
`MaxBreaks`, `MaxSwitches`, `MaxSends`, `MaxHeard`, `MaxMessages`, `MaxFails`, `MaxLoads`,
`MaxRequests`, `MaxSweeps` are named in the modules and
occur only in the guards of what the environment does. Four messages in a
queue of four overflow it, because system messages take places too. A second load of an
image is one after an expiration, and two images of one URL share a cache file. The
theorems below hold for every value of the bounds.

Deadlock is not checked where the system may stop: an EventSub table whose requests
are all decided, IRC connections after the last break, a websocket that is gone, a
channel whose messages are all sent, images nobody asks for.

### Fairness

`LiveUpdates`: the GUI thread handles posted events and timers, a dial ends, and a
pool that was stopped closes its sockets. Nothing makes the owner join or a
connection close. `EventSub`: the IO thread runs what is
posted, timers end, Helix answers each request; a welcome that has arrived waits
while the IO thread runs a handler and is served between two handlers, so it is
only repeatedly enabled and gets strong fairness. `TwitchIrc`: the GUI thread goes on as long as it
has something to do (the first `connect()`, posted calls, the rest of a callback, timers, a
dial that ends), in any order; a ping timer fires again and again; a `destroyed` handler
another thread has begun goes on. `WsConnection`: the IO thread runs what is posted and
due; dialling, closing and cancelled or failed operations complete; a write
completes. Nothing is assumed of the peer, of messages or of pongs.
`MessageHistory`: a request to a service ends, in an answer, an error or its timeout, and the
GUI thread runs what is posted. `Images`: the GUI thread and the pool get on with their
work and a timer that runs ends; the server and the connection may never answer, which
is why `AnswersArrive` speaks of requests with a timeout and of loads that were answered. A
plain image whose data decodes to nothing (`Blank`) is its one exception.

### Findings

Four runs end in a violation of what the repository says of itself:

* `live_updates_parted`. `unsubscribe()` looks at the clients only. A user or channel
  that is parted while its topic waits in the backlog is subscribed by the next
  connection that opens, and stays so.
* `eventsub_again`. When the last handle goes while a retry waits, `removeRef()`
  cancels the retry but leaves the state `Retrying`. The next `subscribe()` believes
  that "a retry is currently in progress" and only counts its handle.
* `eventsub_leak`. When the last handle goes while the create is unanswered there is
  no subscription id yet, so nothing is deleted; the answer then stores the id of a
  subscription that nobody refers to.
* `images_lock`. `freeOld()` refers to each image while it holds the mutex of the pool. If
  the image is dropped meanwhile by everybody else, the end of that reference runs
  `~Image`, which locks the mutex again on the same thread. The comment "erase without
  mutex locking issue" sees the danger for the entry and not for the reference.

More was met while modelling that no statement in the repository contradicts, or
that is below the level of the modules; each is in "hazards" with its line:
with two users Twitch may have two subscriptions of a request, when the answer to the first
is lost and the other user takes its session before the retry; a create refused as
`Forbidden` leaves its request `Subscribing`; so does a create
that succeeds after its session is gone; a session that dies while a delete is
unanswered makes the answer meet an assertion, as do the creates of two users on one
fresh connection; EventSub notifications capture raw channel pointers; the
`destroyed` handler of a channel changes the registry without its mutex, so that on another
thread it may remove the entry of a channel opened since, its PARTs may follow that
channel's JOIN, and a JOIN may follow them (the exceptions called `raced`); a reconnect
that finds history loading skips its own request, a load of a gap that fails is not
repeated, and a heartbeat after an unnoticed break moves the start of the gap past
what was missed (each an `excused` loss of `LostForAReason`); the first load repeats
messages that came in live before it, after which a full channel may lose a missed
message and keep older ones; a fill of a gap brings back what `/clear` had
removed; a plain image whose data decodes to nothing is neither loaded, nor empty,
nor asked for again; idle live-update clients are never
closed, and BTTV's `BroadcastMe` is never unsubscribed.

## 5. What is proved

TLAPS checks the following for every value of the constants allowed by their
assumptions: for the pool, a positive capacity, finitely many topics, no topic that
two keys share, and parts that are topics of the join; for EventSub, finitely many
requests, whose owners are users; for IRC, a positive budget, finitely many channels
and the two connections `read` and `write`; for the history, a queue with room for one
item at least, and one history service at least. In each module a theorem follows from an
inductive invariant: it holds initially, every action preserves it, and it implies
the property.

| Theorem | Says |
|---|---|
| `LiveUpdatesProofs!TypeCorrect`, `NoDuplicateHolds`, `BacklogHasDriverHolds`, `WantedIsTrackedHolds`, `WithinCapacityHolds`, `EventsMatchHolds` | the pool never duplicates, strands, loses or overfills, and its events name clients it has |
| `EventSubProofs!TypeCorrect`, `OneConnectingHolds`, `ReferencesAreCountedHolds`, `UnsubscribingHasDeleteHolds`, `ConnectionKnowsRequestHolds`, `SubscribedIsHeardHolds` | table, listeners and Twitch agree under every fault |
| `EventSubProofs!AttemptsAreExclusiveHolds`, `OneSubscriptionHolds` | the assertions about attempts, if no handle is dropped; one subscription per request, if there is one user |
| `WsConnectionProofs!TypeCorrect`, `AliveHasOperationHolds`, `WritesAreSerialHolds` | no connection is stranded; one write at a time |
| `WsConnectionProofs!ContractHolds` | `WsConnection` implements `WsListener` |
| `TwitchIrcProofs!TypeCorrect`, `LossIsRetriedHolds`, `TimeoutIsEarnedHolds`, `OpenIsJoinedHolds`, `ClosedIsPartedHolds`, `JoinsAreSpacedHolds` | every invariant of the IRC core |
| `LimitedQueueProofs!QueueStaysBounded` | no operation of the queue exceeds its limit or invents an item |
| `MessageHistoryProofs!TypeOKHolds`, `LoadingIsUnderWayHolds`, `InOrderHolds`, `FillMergesHolds`, `ViewFollowsChannelHolds`, `LostForAReasonHolds` | every invariant of the message history: one load at a time, the order, what a fill gives, what the view shows, what may be lost |
| `ImagesProofs!TypeCorrect`, `OneOutcomeHolds`, `LoadedIsTrackedHolds`, `LoadsOnce` | one outcome per request; frames are tracked; one load of an image at a time |

* *Live updates.* `TypeOK` is inductive alone, and `NoDuplicateSubscription` with it:
  lemmas about the backlog (`DrainSplits`, `OrderOfSubs`, `DistinctConcat`) show that
  draining it and appending a closed client's topics move topics without copying
  one. `BacklogHasDriver` also needs that ids are fresh and that `addingClient_` is
  set only while some client has not opened (`DriverInv`). `WantedIsTracked` needs
  that what a running part unsubscribes is wanted by no joined key (`WantedInv`),
  which rests on keys sharing no topics. `WithinCapacity` is inductive with the types;
  `EventsMatchClients` needs that ids are fresh, that a socket belongs to a client,
  and that one being dialled has not been reported open (`SocketsMatch`).
* *EventSub.* The types need that an id or a tag not in use can always be found
  (`FreshIsNew`), hence `RequestsAssumption`. `ConnectionKnowsRequest` needs that no
  entry names a session still to come. `SubscribedIsHeard` rests on two more
  invariants: `IdsInv`, an id belongs to one create, one entry or the deletes of one
  request, so that a delete ends no other request's subscription; and
  `SessionsApart`, no two listeners are on one session of Twitch and a create knows
  that of its connection, so that a death takes from no other listener. Between them,
  what Twitch made for a create whose answer is on its way still exists while the
  connection listens (`CreatedIsLive`). `AttemptsAreExclusive` follows from
  `AttemptInv`: a request is in one place (queued, about to be tried, asked of Helix,
  waiting for its timer, or kept by a listener), each place holds it once, and the
  state says in which; lemmas about queues say what appending and taking do to the
  requests they name. It is assumed that `release` is not among the faults, without
  which it is false. `OneSubscription` is proved for requests of one user, whose only
  session serves every attempt, so that Twitch's refusal of a second subscription on
  one session is enough; with two users it is false.
* *WsConnection.* The invariant says that the listener is kept until it is told of
  the close, that a connection which is closing and still has its listener has its
  async_close pending, that one which reads is open, one which is open dials no
  more, and that `isSending` tells whether a write is pending; and that `run()` is
  posted once and first. The refinement keeps `phase` and `heard`: every step is a
  step of the contract or stutters.
* *TwitchIrc.* `LossIsRetried` needs that a socket which is there never has
  `expectConnectionLoss_` set, so its loss is signalled. `TimeoutIsEarned` needs that
  a connection being opened is not waiting for a PONG. `OpenIsJoined` rests on lemmas
  about the rate limiter (`SendKeepsItems`, `CooldownKeepsItems`): whatever it is
  given it hands on at once or keeps. `OpenIsJoined` and `ClosedIsParted` are inductive
  together with `RacesAreKnown`: a name that did not race is not live while a PART of it is
  due, and is in the registry while a callback has found it. So a PART takes no channel
  away that is wanted and a JOIN brings none back that is gone. Each action changes the
  fate of one name on one connection (`JoinsIn`), and the other names stay as they are
  (`JoinsInKept`).
* *MessageHistory.* `LimitedQueueProofs` says item by item what each operation of the
  queue returns; an insertion is `Placed(q, i, x, r)` whether or not the oldest item
  fell out. The invariant `HistoryInv` is `TypeInv` with five parts, and order alone
  would not be inductive: whether a message may be put in somewhere depends on what is
  still to come there. `UnderWay`: the flag is set and there is one load, or neither.
  `LoadInv`: what the services have answered is in order and inside the window of the
  load, which ends no later than `lastConnectedAt_`. `LinkInv`: what the state of the
  connection says of `disconnected_` and of what was missed. `ListsInv`: channel and
  proxy are in order, or cut in two parts that are, so that nothing a load may still bring
  belongs in front of the cut (`OrderOf`); until the first load has ended, the channel
  is full or has lost nothing (`PendOf`); while a gap loads, the proxy has
  what the channel shows of later messages, no farther from its end, so that a fill
  drops none from the proxy alone (`FollowOf`). `LostInv`: a missed message is
  shown, asked for or still to be asked for, or older than all a full channel holds, save
  when `mixed`. The lemmas that carry it are what a push at the back (`GoodAdds`), a
  first load (`FirstLoad`) and a fill (`FillOrder`, `GapLoad`) do to a list in two
  parts. TLC checked the invariant on the run's instance before it was proved.

  `FillMerges` is proved for any queue and any answer in the order of time, from the types
  alone: after `k` messages the buffer is the newest part (`TailOf`) of the merge so far
  (`Halfway`), which one may see from any place that messages done do not pass and
  messages left do not fall short of (`Ready`, `HalfwaySame`). As places never go back,
  the item a message is put in front of has not been dropped (`InsertedInFront`),
  and the code may ignore whether `insertBefore` found it.
  `Keep`, `FillEach` and `FlattenSeq` are recursive functions; induction is over
  `0 .. n`, with a set where the library's theorems take an operator (`UpTo`), and
  `Recursion` says that a function given by its steps exists.
* *Images.* `NetworkInv` describes one request: what waits on the pool and in the GUI
  thread's queue is there once, in an order that puts `finally()` last, and agrees with
  what was called already. `ImageInv` adds that an image has at most one token of a load
  (asked, called back, decoding, posted) and is known to the pool while it is busy or
  has frames.

Model-checked only: the liveness properties (`EventuallySubscribed`,
`EventuallyDecided`, `EventuallyJoined`, `CloseEnds`, `SilenceIsNoticed`, `LoadsEnd`,
`AnswersArrive`), which rest on fairness and are out of the prover's reach. Every
invariant of the passing runs is a theorem.

## 6. What is not modelled

`PROJECT.json` ("components") lists every part with its status. Heartbeats
of the 7TV and PubSub clients, the image uploader, whisper and live polling and the
filter language are planned. Widgets, settings and layout files, updates, toasts,
logging and native messaging are I/O of which a checker would see nothing; highlights,
ignores, commands and completion are functions of one message. Plugins are mostly
bindings. Data races inside a single step and the lifetimes of captured pointers
are below the modules, whose steps are whole handlers, or the parts of a handler between
which another thread can act.
