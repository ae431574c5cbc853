------------------------------- MODULE EventSub -------------------------------
(***************************************************************************)
(* Twitch EventSub: the Controller that owns the table of subscriptions,   *)
(* the Connections that listen to a websocket Session each, and the Helix  *)
(* requests that create and delete subscriptions on Twitch's side.         *)
(*                                                                         *)
(* The GUI thread takes and drops subscription handles and runs the Helix  *)
(* callbacks; the EventSub thread runs posted tasks, retry timers and the  *)
(* callbacks of the sessions.  They share the table under a mutex, so a    *)
(* step here is what one thread does while it holds it.                    *)
(*                                                                         *)
(* A session is a number.  `logical` is Twitch's own session, which a      *)
(* session_reconnect message moves to another connection.  Shutting down   *)
(* (setQuitting, ~Controller) is left out.                                 *)
(***************************************************************************)
EXTENDS Naturals, SequencesExt

CONSTANTS
    Requests,    \* subscription requests
    Owner,       \* Owner[r]: the Twitch user r is made for
    NoUser,      \* an empty twitchUserID
    Faults,      \* what the environment may do, a subset of AllFaults
    MaxHandles,  \* bound: calls of subscribe() by the owners of handles
    MaxDrops,    \* bound: sessions that are lost or told to reconnect
    MaxErrors    \* bound: Helix answers that lead to a retry

\* release: a handle is dropped; drop: a session dies; reconnect: Twitch sends
\* session_reconnect; refuse: Helix refuses a request for good; forbid: with a
\* 403; error: Helix answers an error worth a retry; lostAnswer: it does so
\* although it made the subscription.
AllFaults == {"release", "drop", "reconnect", "refuse", "forbid", "error", "lostAnswer"}

ASSUME RequestsAssumption == IsFiniteSet(Requests)
ASSUME FaultsAssumption == Faults \subseteq AllFaults
ASSUME OwnerAssumption == NoUser \notin {Owner[r] : r \in Requests}
ASSUME BoundsAssumption == MaxHandles \in Nat /\ MaxDrops \in Nat /\ MaxErrors \in Nat

VARIABLES
    state,      \* Subscription::state; "absent" when the table has no entry
    refCount,   \* Subscription::refCount
    conn,       \* Subscription::connection, a session or None
    subID,      \* Subscription::subscriptionID, or None
    timer,      \* Subscription::retryTimer: "none", "armed", or "fired" once its
                \* handler is queued
    handles,    \* SubscriptionHandles alive for the request
    tasks,      \* handlers queued on the EventSub thread
    todo,       \* calls the running handler of the EventSub thread still makes
    sessions,   \* sessions that have a listener, with what the listener knows
    nextSession,
    creates,    \* createEventSubSubscription requests without an answer yet; id is
                \* that of the subscription once Twitch made it
    deletes,    \* deleteEventSubSubscription requests without an answer yet
    live,       \* subscriptions that exist on Twitch's side
    taken,      \* subscribe() calls so far
    drops,      \* sessions lost or reconnected so far
    errors      \* errors answered so far

table == <<state, refCount, conn, subID, timer>>
helix == <<creates, deletes, live>>
bounds == <<drops, errors>>
vars == <<table, handles, tasks, todo, sessions, nextSession, helix, taken, bounds>>

None == 0
States == {"absent", "Unsubscribed", "Failed", "Subscribing", "Retrying",
           "Subscribed", "Unsubscribing"}
Users == {Owner[r] : r \in Requests}
ioIdle == todo = <<>>
Alive(logical) == \E p \in DOMAIN sessions : sessions[p].logical = logical

TypeOK ==
    /\ state \in [Requests -> States]
    /\ refCount \in [Requests -> Nat]
    /\ conn \in [Requests -> Nat]
    /\ subID \in [Requests -> Nat]
    /\ timer \in [Requests -> {"none", "armed", "fired"}]
    /\ handles \in [Requests -> Nat]
    /\ tasks \in Seq({"subscribe", "retry", "timer"} \X Requests)
    /\ todo \in Seq({"subscribe", "place", "retry"} \X Requests)
    /\ DOMAIN sessions \subseteq 1 .. nextSession - 1
    /\ \A p \in DOMAIN sessions :
          sessions[p] \in [ready : BOOLEAN, logical : Nat, subs : SUBSET Requests,
                           user : Users \cup {NoUser}]
    /\ creates \subseteq [tag : Nat, req : Requests, session : Nat, logical : Nat, id : Nat]
    /\ deletes \subseteq [tag : Nat, req : Requests, id : Nat]
    /\ live \subseteq [id : Nat, req : Requests, logical : Nat]

Init ==
    /\ state = [r \in Requests |-> "absent"]
    /\ refCount = [r \in Requests |-> 0]
    /\ conn = [r \in Requests |-> None]
    /\ subID = [r \in Requests |-> None]
    /\ timer = [r \in Requests |-> "none"]
    /\ handles = [r \in Requests |-> 0]
    /\ tasks = <<>> /\ todo = <<>>
    /\ sessions = [p \in {} |-> {}] /\ nextSession = 1
    /\ creates = {} /\ deletes = {} /\ live = {}
    /\ taken = 0 /\ drops = 0 /\ errors = 0

\* The least number in 1 .. that a set does not hold.
FreshIn(S) == CHOOSE n \in 1 .. Cardinality(S) + 1 : n \notin S

\* table[request] of an unordered_map: an entry that is missing is made.
Entered(r) == IF state[r] = "absent" THEN "Unsubscribed" ELSE state[r]

Enqueue(kind, r) == tasks' = Append(tasks, <<kind, r>>)

--------------------------------------------------------------------------------
(* Handles, on the GUI thread *)

\* subscribe(request): a new or a failed subscription is started, any other
\* only gains a reference.
Subscribe(r) ==
    /\ taken < MaxHandles /\ taken' = taken + 1
    /\ handles' = [handles EXCEPT ![r] = @ + 1]
    /\ refCount' = [refCount EXCEPT ![r] = @ + 1]
    /\ IF Entered(r) \in {"Unsubscribed", "Failed"}
       THEN /\ state' = [state EXCEPT ![r] = "Subscribing"]
            /\ Enqueue("subscribe", r)
       ELSE UNCHANGED <<state, tasks>>
    /\ UNCHANGED <<conn, subID, timer, todo, sessions, nextSession, helix, bounds>>

\* Mutant: a handle that was moved from releases its reference again.
RemoveRefTwice(r) ==
    /\ "release" \in Faults
    /\ handles' = [handles EXCEPT ![r] = @ - 1]
    /\ refCount' = [refCount EXCEPT ![r] = @ - 1]
    /\ UNCHANGED <<state, conn, subID, timer, tasks, todo, sessions, nextSession, helix,
                   taken, bounds>>

\* removeRef(request), from the destructor of a handle.  The last reference ends
\* a pending retry and, when the subscription has an id, deletes it.
RemoveRef(r) ==
    /\ "release" \in Faults /\ handles[r] > 0
    /\ handles' = [handles EXCEPT ![r] = @ - 1]
    /\ refCount' = [refCount EXCEPT ![r] = IF @ = 0 THEN 0 ELSE @ - 1]
    /\ IF refCount'[r] > 0
       THEN UNCHANGED <<state, timer, subID, deletes>>
       ELSE /\ timer' = [timer EXCEPT ![r] = "none"]
            /\ IF subID[r] = None
               THEN UNCHANGED <<state, subID, deletes>>
               ELSE /\ state' = [state EXCEPT ![r] = "Unsubscribing"]
                    /\ deletes' = deletes \cup
                          {[tag |-> FreshIn({d.tag : d \in deletes}),
                            req |-> r, id |-> subID[r]]}
                    /\ subID' = [subID EXCEPT ![r] = None]
    /\ UNCHANGED <<conn, tasks, todo, sessions, nextSession, creates, live, taken, bounds>>

--------------------------------------------------------------------------------
(* Twitch, and the Helix callbacks, which run on the GUI thread *)

IdsInUse == {x.id : x \in live \cup deletes \cup creates} \cup {subID[r] : r \in Requests}

\* Twitch makes at most one subscription of a request for a session.
Conflict(c) == \E l \in live : l.req = c.req /\ l.logical = c.logical

\* Twitch makes the subscription; the answer is still on its way.
Accept(c) ==
    /\ c.id = None /\ Alive(c.logical) /\ ~Conflict(c)
    /\ LET id == FreshIn(IdsInUse \ {None})
       IN /\ live' = live \cup {[id |-> id, req |-> c.req, logical |-> c.logical]}
          /\ creates' = (creates \ {c}) \cup {[c EXCEPT !.id = id]}
    /\ UNCHANGED <<table, handles, tasks, todo, sessions, nextSession, deletes, taken, bounds>>

\* The listener of session p takes up r for r's user, or lets it go.
Listening(p, r) ==
    [sessions EXCEPT ![p].subs = @ \cup {r}, ![p].user = Owner[r]]
NotListening(p, r) ==
    [sessions EXCEPT ![p].subs = @ \ {r},
                     ![p].user = IF sessions[p].subs \subseteq {r} THEN NoUser ELSE @]

\* markRequestSubscribed(request, connection, subscriptionID).  A session that
\* has lost its listener leaves the table as it is.
MarkSubscribed(r, p, id) ==
    IF p \notin DOMAIN sessions
    THEN UNCHANGED <<table, sessions>>
    ELSE /\ sessions' = Listening(p, r)
         /\ conn' = [conn EXCEPT ![r] = p]
         /\ subID' = [subID EXCEPT ![r] = id]
         /\ state' = [state EXCEPT ![r] = "Subscribed"]
         /\ UNCHANGED <<refCount, timer>>

CreateOk(c) ==
    /\ c.id # None
    /\ MarkSubscribed(c.req, c.session, c.id)
    /\ creates' = creates \ {c}
    /\ UNCHANGED <<handles, tasks, todo, nextSession, deletes, live, taken, bounds>>

\* An answer that is not worth a retry: markRequestFailed.
CreateFailed(c) ==
    /\ c.id = None /\ ("refuse" \in Faults \/ Conflict(c))
    /\ state' = [state EXCEPT ![c.req] = "Failed"]
    /\ creates' = creates \ {c}
    /\ UNCHANGED <<refCount, conn, subID, timer, handles, tasks, todo, sessions,
                   nextSession, deletes, live, taken, bounds>>

\* A 403 returns from the callback before anything is marked.
CreateForbidden(c) ==
    /\ "forbid" \in Faults /\ c.id = None
    /\ creates' = creates \ {c}
    /\ UNCHANGED <<table, handles, tasks, todo, sessions, nextSession, deletes, live,
                   taken, bounds>>

\* An answer worth a retry: the session is gone, an error, or no answer although
\* the subscription was made.
CreateRetry(c) ==
    /\ IF c.id = None /\ ~Alive(c.logical)
       THEN UNCHANGED errors
       ELSE /\ (IF c.id = None THEN "error" ELSE "lostAnswer") \in Faults
            /\ errors < MaxErrors /\ errors' = errors + 1
    /\ creates' = creates \ {c}
    /\ Enqueue("retry", c.req)
    /\ UNCHANGED <<table, handles, todo, sessions, nextSession, deletes, live, taken, drops>>

\* subscriptions.erase(request)
Erase(r) ==
    /\ state' = [state EXCEPT ![r] = "absent"]
    /\ refCount' = [refCount EXCEPT ![r] = 0]
    /\ conn' = [conn EXCEPT ![r] = None]
    /\ subID' = [subID EXCEPT ![r] = None]
    /\ timer' = [timer EXCEPT ![r] = "none"]

\* Mutant: the entry is erased although someone subscribed in the meantime.
ErasesAlways(r) ==
    /\ sessions' = IF conn[r] \in DOMAIN sessions THEN NotListening(conn[r], r) ELSE sessions
    /\ Erase(r)
    /\ UNCHANGED tasks

\* Mutant: the entry keeps the connection its subscription was on.
KeepsConnection(r) ==
    /\ sessions' = IF conn[r] \in DOMAIN sessions THEN NotListening(conn[r], r) ELSE sessions
    /\ IF refCount[r] = 0
       THEN Erase(r) /\ UNCHANGED tasks
       ELSE /\ state' = [state EXCEPT ![r] = "Subscribing"]
            /\ Enqueue("subscribe", r)
            /\ UNCHANGED <<refCount, conn, subID, timer>>

\* markRequestUnsubscribed(request): someone may have subscribed in the meantime.
MarkUnsubscribed(r) ==
    /\ sessions' = IF conn[r] \in DOMAIN sessions THEN NotListening(conn[r], r) ELSE sessions
    /\ IF refCount[r] = 0
       THEN Erase(r) /\ UNCHANGED tasks
       ELSE /\ state' = [state EXCEPT ![r] = "Subscribing"]
            /\ conn' = [conn EXCEPT ![r] = None]
            /\ Enqueue("subscribe", r)
            /\ UNCHANGED <<refCount, subID, timer>>

\* Mutant: only a delete that succeeds marks the request.
DeleteMarksOnSuccess(d) ==
    /\ \/ /\ live' = {l \in live : l.id # d.id}
          /\ MarkUnsubscribed(d.req)
          /\ UNCHANGED errors
       \/ /\ "error" \in Faults /\ errors < MaxErrors /\ errors' = errors + 1
          /\ UNCHANGED <<live, table, sessions, tasks>>
    /\ deletes' = deletes \ {d}
    /\ UNCHANGED <<handles, todo, nextSession, creates, taken, drops>>

\* Twitch answers a delete.  An error marks the request all the same.
DeleteDone(d) ==
    /\ \/ /\ live' = {l \in live : l.id # d.id}
          /\ UNCHANGED errors
       \/ /\ "error" \in Faults /\ errors < MaxErrors /\ errors' = errors + 1
          /\ UNCHANGED live
    /\ deletes' = deletes \ {d}
    /\ MarkUnsubscribed(d.req)
    /\ UNCHANGED <<handles, todo, nextSession, creates, taken, drops>>

--------------------------------------------------------------------------------
(* The EventSub thread *)

\* Mutant: the request is marked Retrying and no timer is set.
RetryWithoutTimer(r) ==
    IF refCount[r] = 0
    THEN Erase(r)
    ELSE /\ state' = [state EXCEPT ![r] = "Retrying"]
         /\ UNCHANGED <<refCount, conn, subID, timer>>

\* retrySubscription(request): nobody's subscription is forgotten, any other is
\* tried again when a new timer ends.
RetrySubscription(r) ==
    IF refCount[r] = 0
    THEN Erase(r)
    ELSE /\ state' = [state EXCEPT ![r] = "Retrying"]
         /\ timer' = [timer EXCEPT ![r] = "armed"]
         /\ UNCHANGED <<refCount, conn, subID>>

\* Mutant: a retry leaves the timer that started it in place.
StartKeepsTimer(r, isRetry) ==
    /\ state' = [state EXCEPT ![r] = Entered(r)]
    /\ UNCHANGED <<refCount, conn, subID, timer>>

\* subscribe(request, isRetry) up to the unlock of the table.
StartSubscribe(r, isRetry) ==
    /\ state' = [state EXCEPT ![r] = Entered(r)]
    /\ timer' = [timer EXCEPT ![r] = IF isRetry THEN "none" ELSE @]
    /\ UNCHANGED <<refCount, conn, subID>>

\* The io_context runs the next queued handler.
RunTask ==
    /\ ioIdle /\ tasks # <<>>
    /\ tasks' = Tail(tasks)
    /\ LET kind == Head(tasks)[1]
           r == Head(tasks)[2]
       IN IF kind = "retry"
          THEN RetrySubscription(r) /\ UNCHANGED todo
          ELSE /\ StartSubscribe(r, kind = "timer")
               /\ todo' = <<<<"place", r>>>>
    /\ UNCHANGED <<handles, sessions, nextSession, helix, taken, bounds>>

Step(kind) == todo # <<>> /\ Head(todo)[1] = kind

\* The rest of reconnectConnection(): subscribe each request of the listener.
NextSubscribe ==
    /\ Step("subscribe")
    /\ StartSubscribe(Head(todo)[2], FALSE)
    /\ todo' = <<<<"place", Head(todo)[2]>>>> \o Tail(todo)
    /\ UNCHANGED <<handles, tasks, sessions, nextSession, helix, taken, bounds>>

\* Mutant: connections that are still opening are not counted.
NoneIsOpening == {}

\* Connections that are open but not ready: without a session id yet.
NotReady == {p \in DOMAIN sessions : ~sessions[p].ready}

\* getViableConnection(ownerTwitchUserID): ready, and free for the user.
Viable(r) ==
    {p \in DOMAIN sessions : sessions[p].ready /\ sessions[p].user \in {NoUser, Owner[r]}}

NewSession(p, record) ==
    /\ nextSession' = nextSession + 1
    /\ sessions' = [q \in (DOMAIN sessions \ {p}) \cup {nextSession} |->
                        IF q = nextSession THEN record ELSE sessions[q]]

\* The rest of subscribe(): ask Helix through the first viable connection, or
\* see to it that one is opening and try again later.
Place ==
    /\ Step("place")
    /\ LET r == Head(todo)[2]
       IN IF Viable(r) # {}
          THEN LET p == CHOOSE v \in Viable(r) : \A w \in Viable(r) : v <= w
               IN /\ creates' = creates \cup
                         {[tag |-> FreshIn({c.tag : c \in creates}), req |-> r,
                           session |-> p, logical |-> sessions[p].logical, id |-> None]}
                  /\ todo' = Tail(todo)
                  /\ UNCHANGED <<sessions, nextSession>>
          ELSE /\ IF NotReady = {}
                  THEN NewSession(None, [ready |-> FALSE, logical |-> nextSession,
                                         subs |-> {}, user |-> NoUser])
                  ELSE UNCHANGED <<sessions, nextSession>>
               /\ todo' = <<<<"retry", r>>>> \o Tail(todo)
               /\ UNCHANGED creates
    /\ UNCHANGED <<table, handles, tasks, deletes, live, taken, bounds>>

PlaceLater ==
    /\ Step("retry")
    /\ RetrySubscription(Head(todo)[2])
    /\ todo' = Tail(todo)
    /\ UNCHANGED <<handles, tasks, sessions, nextSession, helix, taken, bounds>>

\* A retry timer ends: its handler is queued and can no longer be cancelled.
TimerFire(r) ==
    /\ timer[r] = "armed"
    /\ timer' = [timer EXCEPT ![r] = "fired"]
    /\ Enqueue("timer", r)
    /\ UNCHANGED <<state, refCount, conn, subID, handles, todo, sessions, nextSession,
                   helix, taken, bounds>>

\* onSessionWelcome: the listener learns the id of its session.
Welcome(p) ==
    /\ ioIdle /\ ~sessions[p].ready
    /\ sessions' = [sessions EXCEPT ![p].ready = TRUE]
    /\ UNCHANGED <<table, handles, tasks, todo, nextSession, helix, taken, bounds>>

\* Mutant: the entries of a dead session are left as they are.
ResetNothing(subs) == UNCHANGED <<state, conn>>

\* Resetting what the listener of a dead session had, where the table has it.
ResetSubscriptions(subs) ==
    LET known == {r \in subs : state[r] # "absent"}
    IN /\ state' = [r \in Requests |-> IF r \in known THEN "Subscribing" ELSE state[r]]
       /\ conn' = [r \in Requests |-> IF r \in known THEN None ELSE conn[r]]

\* A session fails, is closed, or stays silent beyond its keepalive timeout:
\* reconnectConnection() without an URL resets what its listener had and
\* subscribes it again, in the order of an unordered_set.
SessionLost(p) ==
    /\ ioIdle /\ "drop" \in Faults /\ drops < MaxDrops /\ drops' = drops + 1
    /\ sessions' = [q \in DOMAIN sessions \ {p} |-> sessions[q]]
    /\ live' = {l \in live : l.logical # sessions[p].logical}
    /\ ResetSubscriptions(sessions[p].subs)
    /\ \E order \in SetToSeqs(sessions[p].subs) :
          todo' = [i \in DOMAIN order |-> <<"subscribe", order[i]>>]
    /\ UNCHANGED <<refCount, subID, timer, handles, tasks, nextSession, creates, deletes,
                   taken, errors>>

\* session_reconnect: reconnectConnection() with an URL hands the listener, with
\* the id it knows, to a session of its own; without subscriptions it is dropped.
SessionReconnect(p) ==
    /\ ioIdle /\ "reconnect" \in Faults /\ drops < MaxDrops /\ drops' = drops + 1
    /\ sessions[p].ready
    /\ IF sessions[p].subs = {}
       THEN /\ sessions' = [q \in DOMAIN sessions \ {p} |-> sessions[q]]
            /\ live' = {l \in live : l.logical # sessions[p].logical}
            /\ UNCHANGED nextSession
       ELSE NewSession(p, sessions[p]) /\ UNCHANGED live
    /\ UNCHANGED <<table, handles, tasks, todo, creates, deletes, taken, errors>>

--------------------------------------------------------------------------------
Gui ==
    \/ \E r \in Requests : Subscribe(r) \/ RemoveRef(r)
    \/ \E c \in creates : CreateOk(c) \/ CreateFailed(c) \/ CreateForbidden(c) \/ CreateRetry(c)
    \/ \E d \in deletes : DeleteDone(d)

Io ==
    \/ RunTask \/ NextSubscribe \/ Place \/ PlaceLater
    \/ \E p \in DOMAIN sessions : Welcome(p) \/ SessionLost(p) \/ SessionReconnect(p)

Environment ==
    \/ \E c \in creates : Accept(c)
    \/ \E r \in Requests : TimerFire(r)

Next == Gui \/ Io \/ Environment
Spec == Init /\ [][Next]_vars

\* The EventSub thread keeps running, a timer ends, a session is welcomed, and
\* Helix answers each request.  A welcome that has arrived waits while the thread
\* runs a handler and is served between two handlers, whence SF.
FairSpec ==
    /\ Spec
    /\ WF_vars(RunTask) /\ WF_vars(NextSubscribe) /\ WF_vars(Place) /\ WF_vars(PlaceLater)
    /\ SF_vars(\E p \in DOMAIN sessions : Welcome(p))
    /\ \A r \in Requests :
          /\ WF_vars(TimerFire(r))
          /\ WF_vars(\E c \in creates : c.req = r /\ Accept(c))
          /\ WF_vars(\E c \in creates :
                        c.req = r /\ (CreateOk(c) \/ CreateFailed(c) \/ CreateRetry(c)))

--------------------------------------------------------------------------------
(* Properties *)

\* However requests, timers, deaths and reconnects interleave, at most one
\* connection is open without a welcome: "There should only ever be 0 or 1" in
\* subscribe() (Controller.cpp:487).
OneConnecting ==
    \A p, q \in DOMAIN sessions : ~sessions[p].ready /\ ~sessions[q].ready => p = q

\* The table counts the handles of a request, and never forgets, nor leaves
\* Unsubscribed, a request somebody holds a handle for: erasing an entry in
\* retrySubscription() or markRequestUnsubscribed() never races a subscribe().
ReferencesAreCounted ==
    \A r \in Requests :
        /\ refCount[r] = handles[r]
        /\ handles[r] > 0 => state[r] \notin {"absent", "Unsubscribed"}

\* A subscription that is Subscribed exists at Twitch on a session whose listener
\* remembers it, so that the death of the session subscribes it again.
SubscribedIsHeard ==
    \A r \in Requests : state[r] = "Subscribed" =>
        \E p \in DOMAIN sessions :
            /\ r \in sessions[p].subs
            /\ \E l \in live : l.req = r /\ l.logical = sessions[p].logical

\* An entry names a session with a listener only if that listener has the
\* request: the table and the listeners, changed by two threads, agree.
ConnectionKnowsRequest ==
    \A r \in Requests : conn[r] \in DOMAIN sessions => r \in sessions[conn[r]].subs

\* An entry is Unsubscribing only while a delete of it is unanswered, whose
\* answer takes it out of that state.
UnsubscribingHasDelete ==
    \A r \in Requests : state[r] = "Unsubscribing" => \E d \in deletes : d.req = r

\* assert(subscription.retryTimer != nullptr) when a retry starts
\* (Controller.cpp:386): a queued retry handler finds its timer.
RetryFindsTimer ==
    \A i \in DOMAIN tasks : tasks[i][1] = "timer" => timer[tasks[i][2]] # "none"

\* assert(subscription.retryTimer == nullptr) of subscribe() (Controller.cpp:395)
\* and "Timer should not already be set" of retrySubscription() (:650): an
\* attempt meets no timer of another one.
SubscribeHasNoTimer ==
    /\ \A i \in DOMAIN tasks : tasks[i][1] = "subscribe" => timer[tasks[i][2]] = "none"
    /\ \A i \in DOMAIN todo : timer[todo[i][2]] = "none"

\* markRequestSubscribed(): "A subscription can only be marked subscribed from
\* the Subscribing or Retrying state" (Controller.cpp:683).
AnswerFindsAttempt ==
    \A c \in creates : c.id # None /\ c.session \in DOMAIN sessions =>
        state[c.req] \in {"Subscribing", "Retrying"}

\* As long as no handle is dropped those assertions hold, whatever dies, errs or
\* comes late in between.
AttemptsAreExclusive == RetryFindsTimer /\ SubscribeHasNoTimer /\ AnswerFindsAttempt

\* If all requests are made for one Twitch user, Twitch has at most one subscription
\* of a request, although answers are lost, sessions die and attempts are repeated.
\* With two users it may have two: an attempt whose answer is lost is repeated on a
\* session of its own once the other user has taken the first.
OneSubscription == \A l, m \in live : l.req = m.req => l = m

\* A request somebody holds a handle for is Subscribed or Failed in the end, if
\* no handle is dropped, no session dies and Helix never answers Forbidden.
EventuallyDecided ==
    \A r \in Requests : handles[r] > 0 ~> state[r] \in {"Subscribed", "Failed"}

\* Something will still change the state of r.
Working(r) ==
    \/ \E i \in DOMAIN tasks : tasks[i][2] = r
    \/ \E i \in DOMAIN todo : todo[i][2] = r
    \/ \E x \in creates \cup deletes : x.req = r
    \/ timer[r] # "none"

(* What comments say of the code, and the code does not do *)

\* State::Retrying: "A retry is currently in progress" (Controller.hpp:136).
RetryingIsInProgress ==
    \A r \in Requests : state[r] = "Retrying" /\ handles[r] > 0 => Working(r)

\* "If no more references exist of a specific subscription, we send an
\* unsubscription request" (SubscriptionHandle.hpp:23).
UnreferencedIsReleased ==
    \A l \in live : handles[l.req] > 0 \/ Working(l.req)

================================================================================
