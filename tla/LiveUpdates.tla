------------------------------ MODULE LiveUpdates ------------------------------
(***************************************************************************)
(* The pool of live-update connections behind 7TV's EventAPI, BTTV's live  *)
(* updates and Twitch's PubSub: BasicPubSubManager, BasicPubSubClient and  *)
(* BasicPubSubListener, with the join and part calls of the classes that   *)
(* own a manager (SeventvEventAPI, BttvLiveUpdates).                       *)
(*                                                                         *)
(* Two threads take steps.  The GUI thread owns the manager: it runs one   *)
(* handler at a time, and a handler that makes several calls into the      *)
(* manager keeps the thread until the last of them (`calls`).  The         *)
(* websocket thread owns the sockets: it opens and closes them and posts   *)
(* one event for each to the GUI thread, in order.                         *)
(***************************************************************************)
EXTENDS Naturals, Sequences, FiniteSets

CONSTANTS
    Topics,     \* the subscriptions a client can hold
    Keys,       \* what a caller joins: a channel, a user, an emote set
    Joins,      \* Joins[k]: the topics that joining k subscribes to
    Parts,      \* Parts[k]: the topics that parting k unsubscribes from
    MaxSubs,    \* BasicPubSubClient::maxSubscriptions
    MaxCloses,  \* bound: connections that are lost before the manager stops
    MaxJoins    \* bound: calls of join

ASSUME TopicsAssumption ==
    /\ IsFiniteSet(Topics)
    /\ Joins \in [Keys -> SUBSET Topics]
    /\ Parts \in [Keys -> SUBSET Topics]
    /\ \A k \in Keys : Parts[k] \subseteq Joins[k]
    /\ \A k, l \in Keys : k # l => Joins[k] \cap Joins[l] = {}

ASSUME BoundsAssumption ==
    /\ MaxSubs \in Nat \ {0}
    /\ MaxCloses \in Nat
    /\ MaxJoins \in Nat

VARIABLES
    subs,       \* clients_: for each client's id, its subscriptions_
    opened,     \* the clients whose open_ is set
    pending,    \* pendingSubscriptions_, a stack
    nextId,     \* nextId_
    adding,     \* addingClient_
    stopping,   \* stopping_, set with the pool reset
    timers,     \* pending QTimer::singleShot calls to addClient
    wanted,     \* joinedChannels / subscribedUsers / subscribedEmoteSets ...
    joins,      \* calls of join made so far
    calls,      \* calls the running GUI handler has still to make
    dialing,    \* sockets whose handshake is not finished
    up,         \* sockets that are open
    events,     \* events posted to the GUI thread by the listeners
    closes      \* connections lost so far

gui == <<subs, opened, pending, nextId, adding, stopping, timers, wanted, joins, calls>>
net == <<dialing, up, events, closes>>
vars == <<gui, net>>

clients == DOMAIN subs

TypeOK ==
    /\ clients \in SUBSET Nat
    /\ subs \in [clients -> SUBSET Topics]
    /\ opened \subseteq clients
    /\ pending \in Seq(Topics)
    /\ nextId \in Nat
    /\ adding \in BOOLEAN
    /\ stopping \in BOOLEAN
    /\ timers \in Nat
    /\ wanted \subseteq Keys
    /\ joins \in 0 .. MaxJoins
    /\ calls \subseteq {"subscribe", "unsubscribe"} \X Topics
    /\ dialing \in SUBSET Nat
    /\ up \in SUBSET Nat
    /\ events \in Seq({"open", "close"} \X Nat)
    /\ closes \in 0 .. MaxCloses

Init ==
    /\ subs = [c \in {} |-> {}]
    /\ opened = {}
    /\ pending = <<>>
    /\ nextId = 0
    /\ adding = FALSE
    /\ stopping = FALSE
    /\ timers = 0
    /\ wanted = {}
    /\ joins = 0
    /\ calls = {}
    /\ dialing = {}
    /\ up = {}
    /\ events = <<>>
    /\ closes = 0

Entries(seq) == {seq[i] : i \in DOMAIN seq}
GuiIdle == calls = {}

--------------------------------------------------------------------------------
(* Helpers of the manager *)

HasRoom(c) == Cardinality(subs[c]) < MaxSubs

\* Mutant: subscribe() forgets the backlog.
IsSubscribedOnClient(t) == \E c \in clients : t \in subs[c]

IsSubscribed(t) == (\E c \in clients : t \in subs[c]) \/ t \in Entries(pending)

\* Mutant: one client is taken to be enough.
AddOnlyClient(s, isAdding) ==
    IF isAdding \/ stopping \/ DOMAIN s # {}
    THEN subs' = s /\ adding' = isAdding /\ UNCHANGED <<nextId, dialing>>
    ELSE /\ subs' = [c \in {nextId} |-> {}]
         /\ adding' = TRUE
         /\ nextId' = nextId + 1
         /\ dialing' = dialing \cup {nextId}

\* addClient(), called when the clients are s and addingClient_ is isAdding.
AddClient(s, isAdding) ==
    IF isAdding \/ stopping
    THEN /\ subs' = s
         /\ adding' = isAdding
         /\ UNCHANGED <<nextId, dialing>>
    ELSE /\ subs' = [c \in DOMAIN s \cup {nextId} |->
                        IF c \in DOMAIN s THEN s[c] ELSE {}]
         /\ adding' = TRUE
         /\ nextId' = nextId + 1
         /\ dialing' = dialing \cup {nextId}

--------------------------------------------------------------------------------
(* The GUI thread *)

\* joinChannel, subscribeUser, subscribeTwitchChannel: nothing when the key is
\* already in the set, else one subscribe() per topic.
Join(k) ==
    /\ GuiIdle
    /\ joins < MaxJoins /\ joins' = joins + 1
    /\ k \notin wanted
    /\ wanted' = wanted \cup {k}
    /\ calls' = {"subscribe"} \X Joins[k]
    /\ UNCHANGED <<subs, opened, pending, nextId, adding, stopping, timers, net>>

\* partChannel, unsubscribeUser, unsubscribeEmoteSet, unsubscribeTwitchChannel.
Part(k) ==
    /\ GuiIdle
    /\ k \in wanted
    /\ wanted' = wanted \ {k}
    /\ calls' = {"unsubscribe"} \X Parts[k]
    /\ UNCHANGED <<subs, opened, pending, nextId, adding, stopping, timers, joins, net>>

\* subscribe(t): the iteration order of an unordered_map decides which client
\* with room takes the topic.  A client takes topics before it is open.
Subscribe(t) ==
    /\ <<"subscribe", t>> \in calls
    /\ calls' = calls \ {<<"subscribe", t>>}
    /\ \/ /\ IsSubscribed(t)
          /\ UNCHANGED <<subs, pending, nextId, adding, dialing>>
       \/ /\ ~IsSubscribed(t)
          /\ \E c \in clients :
                /\ HasRoom(c)
                /\ subs' = [subs EXCEPT ![c] = @ \cup {t}]
          /\ UNCHANGED <<pending, nextId, adding, dialing>>
       \/ /\ ~IsSubscribed(t)
          /\ \A c \in clients : ~HasRoom(c)
          /\ AddClient(subs, adding)
          /\ pending' = Append(pending, t)
    /\ UNCHANGED <<opened, stopping, timers, wanted, joins, up, events, closes>>

\* unsubscribe(t): the first client that holds the topic drops it.  The backlog
\* is not looked at.
Unsubscribe(t) ==
    /\ <<"unsubscribe", t>> \in calls
    /\ calls' = calls \ {<<"unsubscribe", t>>}
    /\ \/ /\ \A c \in clients : t \notin subs[c]
          /\ UNCHANGED subs
       \/ \E c \in clients :
             /\ t \in subs[c]
             /\ subs' = [subs EXCEPT ![c] = @ \ {t}]
    /\ UNCHANGED <<opened, pending, nextId, adding, stopping, timers, wanted, joins, net>>

\* The last k entries of the backlog, what k pops return.
Popped(k) == {pending[i] : i \in Len(pending) - k + 1 .. Len(pending)}

\* Mutant: the drain loop ignores what a client took before it was open.
DrainsBlindly(id, k) ==
    k = IF Len(pending) < MaxSubs THEN Len(pending) ELSE MaxSubs

\* The drain loop of onConnectionOpen takes k entries for client id: every one
\* of them found room, and it ended because the entries to take ran out or the
\* next one found none.
Drains(id, k) ==
    LET toTake == IF Len(pending) < MaxSubs THEN Len(pending) ELSE MaxSubs
        roomAfter(i) == Cardinality(subs[id] \cup Popped(i)) < MaxSubs
    IN /\ k <= toTake
       /\ \A i \in 0 .. k - 1 : roomAfter(i)
       /\ k = toTake \/ ~roomAfter(k)

OnConnectionOpen(id) ==
    /\ GuiIdle
    /\ events # <<>> /\ Head(events) = <<"open", id>>
    /\ events' = Tail(events)
    /\ opened' = opened \cup {id}
    /\ \E k \in 0 .. Len(pending) :
          /\ Drains(id, k)
          /\ pending' = SubSeq(pending, 1, Len(pending) - k)
          /\ LET drained == [subs EXCEPT ![id] = @ \cup Popped(k)]
             IN IF k < Len(pending)
                THEN AddClient(drained, FALSE)
                ELSE /\ subs' = drained
                     /\ adding' = FALSE
                     /\ UNCHANGED <<nextId, dialing>>
    /\ UNCHANGED <<stopping, timers, wanted, joins, calls, up, closes>>

\* Mutant: the closed client is not erased.
KeepingClient(id) == [subs EXCEPT ![id] = {}]

WithoutClient(id) == [c \in clients \ {id} |-> subs[c]]

\* Mutant: the topics of a failed connection are not put back.
NothingMoved(S) == {<<>>}

\* Every way of laying the elements of S out in a sequence: the iteration order
\* of an unordered_set.
Orders(S) ==
    {f \in [1 .. Cardinality(S) -> S] : \A t \in S : \E i \in DOMAIN f : f[i] = t}

\* A connection that closes before it opened gives its topics to the backlog and
\* is retried later; one that was open has its topics subscribed again at once.
OnConnectionClose(id) ==
    /\ GuiIdle
    /\ events # <<>> /\ Head(events) = <<"close", id>>
    /\ events' = Tail(events)
    /\ adding' = FALSE
    /\ subs' = WithoutClient(id)
    /\ opened' = opened \ {id}
    /\ \/ /\ stopping
          /\ UNCHANGED <<pending, timers, calls>>
       \/ /\ ~stopping /\ id \notin opened
          /\ \E order \in Orders(subs[id]) : pending' = pending \o order
          /\ timers' = timers + 1
          /\ UNCHANGED calls
       \/ /\ ~stopping /\ id \in opened
          /\ calls' = {"subscribe"} \X subs[id]
          /\ UNCHANGED <<pending, timers>>
    /\ UNCHANGED <<nextId, stopping, wanted, joins, dialing, up, closes>>

\* Mutant: the timer fires again and again.
RepeatingTimer ==
    /\ GuiIdle
    /\ timers' = timers - 1
    /\ AddClient(subs, adding)
    /\ UNCHANGED <<opened, pending, stopping, wanted, joins, calls, up, events, closes>>

\* Mutant: the timer runs out and nothing is dialled.
IdleTimer ==
    /\ GuiIdle
    /\ timers > 0
    /\ timers' = timers - 1
    /\ UNCHANGED <<subs, opened, pending, nextId, adding, stopping, wanted, joins,
                   calls, net>>

RetryTimer ==
    /\ GuiIdle
    /\ timers > 0
    /\ timers' = timers - 1
    /\ AddClient(subs, adding)
    /\ UNCHANGED <<opened, pending, stopping, wanted, joins, calls, up, events, closes>>

\* stop(): the pool's destructor asks every connection to close; a second call
\* does nothing.
Stop ==
    /\ GuiIdle
    /\ stopping' = TRUE
    /\ UNCHANGED <<subs, opened, pending, nextId, adding, timers, wanted, joins, calls, net>>

--------------------------------------------------------------------------------
(* The websocket thread *)

WsOpen(id) ==
    /\ id \in dialing
    /\ dialing' = dialing \ {id}
    /\ up' = up \cup {id}
    /\ events' = Append(events, <<"open", id>>)
    /\ UNCHANGED <<gui, closes>>

\* A failed handshake, a lost connection, a missed heartbeat, or the pool
\* shutting down.
WsClose(id) ==
    /\ id \in dialing \cup up
    /\ IF stopping THEN UNCHANGED closes
       ELSE closes < MaxCloses /\ closes' = closes + 1
    /\ dialing' = dialing \ {id}
    /\ up' = up \ {id}
    /\ events' = Append(events, <<"close", id>>)
    /\ UNCHANGED gui

--------------------------------------------------------------------------------
\* What the GUI thread's event loop will run: posted events, due timers and the
\* rest of the running handler.
GuiLoop ==
    \/ \E t \in Topics : Subscribe(t) \/ Unsubscribe(t)
    \/ \E id \in clients : OnConnectionOpen(id) \/ OnConnectionClose(id)
    \/ RetryTimer

WsThread == \E id \in dialing \cup up : WsOpen(id) \/ WsClose(id)

Next ==
    \/ \E k \in Keys : Join(k) \/ Part(k)
    \/ Stop
    \/ GuiLoop
    \/ WsThread

Spec == Init /\ [][Next]_vars

\* The event loop runs what is posted to it, a single-shot timer fires, a
\* handshake ends one way or the other (WebSocketConnection bounds it with a
\* timeout) and a pool that shuts down closes its connections.
Fairness ==
    /\ WF_vars(GuiLoop)
    /\ WF_vars(RetryTimer)
    /\ WF_vars(\E id \in dialing : WsOpen(id) \/ WsClose(id))
    /\ WF_vars(stopping /\ WsThread)

FairSpec == Spec /\ Fairness

--------------------------------------------------------------------------------
(* Properties *)

\* Everything the manager remembers of a topic: a client's subscription, an
\* entry of the backlog, or a call of the running handler.
Tracked ==
    (UNION {subs[c] : c \in clients}) \cup Entries(pending)
        \cup {t \in Topics : <<"subscribe", t>> \in calls}

\* A topic is held once: by one client, or by one entry of the backlog.  The
\* server counts a topic that two connections ask for twice and each of its
\* messages arrives twice; the check in subscribe() looks at clients and backlog,
\* while the two paths of onConnectionClose and the drain loop move topics
\* between them without it.
NoDuplicateSubscription ==
    /\ \A c, d \in clients : c # d => subs[c] \cap subs[d] = {}
    /\ \A c \in clients : subs[c] \cap Entries(pending) = {}
    /\ \A i, j \in DOMAIN pending : i # j => pending[i] # pending[j]

\* A key that was joined and not parted keeps all of its topics, whatever
\* connections open, fail and close meanwhile: the owner never asks again, since
\* the key stays in its set, so a topic the manager loses is lost for good.
WantedIsTracked == stopping \/ \A k \in wanted : Joins[k] \subseteq Tracked

\* A backlog never waits for nothing: there is a connection under way whose open
\* or close event will empty or retry it, or a retry timer.  addingClient_ is
\* one flag for all connections and any open or close clears it.
BacklogHasDriver ==
    pending # <<>> /\ ~stopping => clients \ opened # {} \/ timers > 0

\* There is an event of this kind for client id in the queue.
Posted(kind, id) == <<kind, id>> \in Entries(events)

\* The events of the sockets match the manager's view of its clients: an event is
\* posted only for a client the manager still has (onConnectionOpen dereferences
\* what resolve() finds and onConnectionClose asserts it), at most one open and
\* then one close.  A client that is not open has its open or close event still
\* to come, and one whose socket is gone its close event, so none is orphaned.
EventsMatchClients ==
    /\ \A i \in DOMAIN events : events[i][2] \in clients
    /\ \A i, j \in DOMAIN events :
          i < j /\ events[i][2] = events[j][2]
              => events[i][1] = "open" /\ events[j][1] = "close"
    /\ \A id \in clients :
          /\ Posted("open", id) => id \notin opened \cup dialing
          /\ Posted("close", id) => id \notin dialing \cup up
          /\ id \in opened \/ id \in dialing \/ Posted("open", id)
                \/ Posted("close", id)
          /\ id \in dialing \/ id \in up \/ Posted("close", id)

\* No client goes over the number of subscriptions its server allows, on any of
\* the paths that give it one: a direct call, a resubscription, the drain loop.
WithinCapacity == \A c \in clients : Cardinality(subs[c]) <= MaxSubs

\* A topic that stays wanted ends up with an open connection, once connections
\* stop failing.
EventuallySubscribed ==
    \A k \in Keys : \A t \in Joins[k] :
        k \in wanted ~> \/ k \notin wanted
                        \/ stopping
                        \/ \E c \in opened : t \in subs[c]

\* SeventvEventAPI.hpp says of unsubscribeUser "Unsubscribes from a user by its
\* 7TV user id" and BttvLiveUpdates.hpp of partChannel "Parts a twitch channel by
\* its id": once the call is over, an open connection holds no topic that no
\* joined key asks for.
PartedIsReleased ==
    GuiIdle => \A c \in opened : \A t \in subs[c] :
                  \E k \in wanted : t \in Joins[k]
================================================================================
