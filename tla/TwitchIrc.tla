------------------------------- MODULE TwitchIrc -------------------------------
(***************************************************************************)
(* TwitchIrcServer: the registry of open channels and the two connections  *)
(* that join them, an anonymous one for reading and one of the current     *)
(* account for writing, each behind a rate limiter for its JOINs.          *)
(*                                                                         *)
(* The GUI thread runs everything but the destructor of a channel whose    *)
(* last reference one of Threads drops (the EventSub thread looks channels *)
(* up and drops them again).  That destructor's `destroyed` handler takes  *)
(* no lock, so that it and the GUI thread interleave: it removes whatever  *)
(* the registry has under the name, by then perhaps a channel opened       *)
(* later, and sends its two PARTs one after the other.                     *)
(***************************************************************************)
EXTENDS IrcConnection, RatelimitBucket, SequencesExt

CONSTANTS
    Channels,     \* names of channels
    Accounts,     \* Twitch accounts
    Anon,         \* the anonymous account
    Budget,       \* JOIN_RATELIMIT_BUDGET
    Threads,      \* threads besides the GUI thread that may drop a last reference
    MaxOpens,     \* bound: channels opened
    MaxBreaks,    \* bound: connections that stall or break, and reconnects asked for
    MaxSwitches   \* bound: switches of the account

ASSUME ConnsAssumption == Conns = {"read", "write"}
ASSUME ChannelsAssumption == IsFiniteSet(Channels)
ASSUME AnonAssumption == Anon \notin Accounts
ASSUME TwitchBounds ==
    /\ Budget \in Nat \ {0}
    /\ MaxOpens \in Nat /\ MaxBreaks \in Nat /\ MaxSwitches \in Nat

VARIABLES
    entry,     \* channels[name]: "none", "live", or "expired" (a weak pointer to nothing)
    orphans,   \* live channels of the name that the registry does not know
    handler,   \* the `destroyed` handler another thread runs: <<>>, or what it does
               \* next ("remove", "read" or "write" for a PART) and the name
    bucket,    \* joinBucket_ and writeJoinBucket_
    called,    \* names the limiter has passed to its callback, which has not looked yet
    found,     \* the name the callback has found in the registry and will JOIN next
    joined,    \* channels the connection is in, at Twitch
    raced,     \* history: names opened while a PART of theirs was due on the
               \* connection, or removed while the callback had found them
    user,      \* the current account
    posted,    \* reconnectWrite() calls posted to the GUI thread
    started,   \* connect() has been called
    opens, breaks, switches

registry == <<entry, orphans, handler>>
limiter == <<bucket, called, found>>
account == <<user, posted, started>>
bounds == <<opens, breaks, switches>>
vars == <<connVars, registry, limiter, joined, raced, account, bounds>>

TypeOK ==
    /\ ConnTypeOK
    /\ entry \in [Channels -> {"none", "live", "expired"}]
    /\ orphans \in [Channels -> Nat]
    /\ handler \in [Threads -> {<<>>} \cup ({"remove", "read", "write"} \X Channels)]
    /\ called \in [Conns -> SUBSET Channels] /\ found \in [Conns -> SUBSET Channels]
    /\ raced \in [Conns -> SUBSET Channels]
    /\ bucket \in [Conns -> [queue : Seq(Channels), budget : Nat, timers : Nat]]
    /\ joined \in [Conns -> SUBSET Channels]
    /\ user \in Accounts \cup {Anon} /\ posted \in Nat /\ started \in BOOLEAN
    /\ opens \in Nat /\ breaks \in Nat /\ switches \in Nat

Init ==
    /\ ConnInit
    /\ entry = [n \in Channels |-> "none"]
    /\ orphans = [n \in Channels |-> 0]
    /\ handler = [t \in Threads |-> <<>>]
    /\ bucket = [c \in Conns |-> NewBucket(Budget)]
    /\ called = [c \in Conns |-> {}] /\ found = [c \in Conns |-> {}]
    /\ raced = [c \in Conns |-> {}]
    /\ joined = [c \in Conns |-> {}]
    /\ user \in Accounts \cup {Anon}
    /\ posted = 0 /\ started = FALSE
    /\ opens = 0 /\ breaks = 0 /\ switches = 0

\* The GUI thread has returned from the callbacks of the rate limiters.
GuiFree == \A c \in Conns : called[c] = {} /\ found[c] = {}

InRegistry == {n \in Channels : entry[n] # "none"}

\* A JOIN or a PART that is sent, and gets there.
Hears(c) == socket[c] = "connected" /\ ~stalled[c]

\* A handler on another thread has removed n and has not sent its PART on c yet; the
\* one for writing comes after the one for reading.
PartDue(c, n) ==
    \E t \in Threads : handler[t] = <<"read", n>> \/ (c = "write" /\ handler[t] = <<"write", n>>)

--------------------------------------------------------------------------------
(* Connections *)

\* Mutant: the write connection joins channels only as they are opened.
JoinsOnReadConnect(c) ==
    IF c = "write"
    THEN {<<>>}
    ELSE SetToSeqs({n \in Channels : entry[n] = "live"})

\* onReadConnected() and onWriteConnected() send every live channel to the rate
\* limiter, the visible ones first; the anonymous account joins none for writing.
JoinsOnConnect(c) ==
    IF c = "write" /\ user = Anon
    THEN {<<>>}
    ELSE SetToSeqs({n \in Channels : entry[n] = "live"})

ConnectedTo(c) ==
    /\ GuiFree /\ Connected(c)
    /\ \E names \in JoinsOnConnect(c) :
          /\ bucket' = [bucket EXCEPT ![c] = AfterSend(@, names)]
          /\ called' = [called EXCEPT ![c] = ToSet(Handled(bucket[c], names))]
    /\ joined' = [joined EXCEPT ![c] = {}]
    /\ raced' = [raced EXCEPT ![c] = {n \in @ : PartDue(c, n)}]
    /\ UNCHANGED <<registry, found, account, bounds>>

\* The socket breaks; the peer disappears; the peer goes on talking.
Broken(c) ==
    /\ GuiFree /\ breaks < MaxBreaks /\ breaks' = breaks + 1
    /\ \/ SocketLost(c) /\ joined' = [joined EXCEPT ![c] = {}]
       \/ Stall(c) /\ UNCHANGED joined
    /\ UNCHANGED <<registry, limiter, raced, account, opens, switches>>

Received(c) ==
    /\ GuiFree /\ (MessageReceived(c) \/ PongReceived(c))
    /\ UNCHANGED <<registry, limiter, joined, raced, account, bounds>>

\* A peer that is there and answers late counts as a break.
PingTick(c) ==
    /\ GuiFree
    /\ \/ PingQuiet(c) /\ UNCHANGED <<joined, breaks>>
       \/ /\ PingTimeout(c)
          /\ joined' = [joined EXCEPT ![c] = {}]
          /\ IF stalled[c]
             THEN UNCHANGED breaks
             ELSE breaks < MaxBreaks /\ breaks' = breaks + 1
    /\ UNCHANGED <<registry, limiter, raced, account, opens, switches>>

Retry(c) ==
    /\ GuiFree /\ ReconnectTimeout(c)
    /\ UNCHANGED <<registry, limiter, joined, raced, account, bounds>>

\* close() and initializeConnection() of the connections in S.
Reinitialize(S) ==
    /\ Open(S)
    /\ joined' = [c \in Conns |-> IF c \in S THEN {} ELSE joined[c]]
    /\ UNCHANGED <<retry, registry, limiter, raced, user>>

\* connect(), when the program starts.
Connect ==
    /\ GuiFree /\ ~started /\ started' = TRUE
    /\ Reinitialize(Conns)
    /\ UNCHANGED <<posted, bounds>>

\* connect() again: the user reconnects, whatever the connections are doing.
UserReconnects ==
    /\ GuiFree /\ started
    /\ breaks < MaxBreaks /\ breaks' = breaks + 1
    /\ Reinitialize(Conns)
    /\ UNCHANGED <<posted, started, opens, switches>>

\* Twitch sends RECONNECT on a connection.
ReconnectReceived(c) ==
    /\ GuiFree /\ breaks < MaxBreaks /\ breaks' = breaks + 1
    /\ Hears(c)
    /\ Reinitialize({c})
    /\ UNCHANGED <<posted, started, opens, switches>>

--------------------------------------------------------------------------------
(* The rate limiters *)

\* Mutant: the end of a cooldown gives its unit back and does not call handleOne().
CooldownOnlyRefunds(c) ==
    /\ GuiFree /\ bucket[c].timers > 0
    /\ bucket' = [bucket EXCEPT ![c] = Refunded(@)]
    /\ UNCHANGED <<connVars, registry, called, found, joined, raced, account, bounds>>

\* A cooldown of a rate limiter ends.
Cooldown(c) ==
    /\ GuiFree /\ bucket[c].timers > 0
    /\ bucket' = [bucket EXCEPT ![c] = AfterCooldown(@)]
    /\ called' = [called EXCEPT ![c] = ToSet(HandledOnCooldown(bucket[c]))]
    /\ UNCHANGED <<connVars, registry, found, joined, raced, account, bounds>>

\* Mutant: the rate limiter sends every JOIN it was given.
JoinsBlindly(c, n) == TRUE

\* The callback sends a JOIN for what is still in the registry, for writing unless the
\* account is the anonymous one.
MayJoin(c, n) == n \in InRegistry /\ (c = "write" => user # Anon)

\* The callback of a rate limiter looks into the registry (getOrAddChannel() sends to
\* the one for writing first) ...
Lookup(c) ==
    /\ \A d \in Conns : found[d] = {}
    /\ c = "read" => called["write"] = {}
    /\ \E n \in called[c] :
          /\ called' = [called EXCEPT ![c] = @ \ {n}]
          /\ found' = [found EXCEPT ![c] = IF MayJoin(c, n) THEN {n} ELSE {}]
    /\ UNCHANGED <<connVars, registry, bucket, joined, raced, account, bounds>>

\* ... and sends the JOIN.
SendJoin(c) ==
    /\ found[c] # {} /\ found' = [found EXCEPT ![c] = {}]
    /\ joined' = [joined EXCEPT ![c] = IF Hears(c) THEN @ \cup found[c] ELSE @]
    /\ UNCHANGED <<connVars, registry, bucket, called, raced, account, bounds>>

--------------------------------------------------------------------------------
(* The account *)

\* currentUserChanged posts a reconnect of the write connection.
SwitchAccount(a) ==
    /\ GuiFree /\ switches < MaxSwitches /\ switches' = switches + 1
    /\ a # user /\ user' = a
    /\ posted' = posted + 1
    /\ UNCHANGED <<connVars, registry, limiter, joined, raced, started, opens, breaks>>

ReconnectWrite ==
    /\ GuiFree /\ posted > 0 /\ posted' = posted - 1
    /\ Reinitialize({"write"})
    /\ UNCHANGED <<started, bounds>>

--------------------------------------------------------------------------------
(* Channels *)

\* getOrAddChannel(name), when the registry has no live channel of the name.
OpenChannel(n) ==
    /\ GuiFree /\ opens < MaxOpens /\ opens' = opens + 1
    /\ entry[n] # "live"
    /\ entry' = [entry EXCEPT ![n] = "live"]
    /\ bucket' = [c \in Conns |->
          IF socket[c] = "connected" THEN AfterSend(bucket[c], <<n>>) ELSE bucket[c]]
    /\ called' = [c \in Conns |->
          IF socket[c] = "connected" THEN ToSet(Handled(bucket[c], <<n>>)) ELSE {}]
    /\ raced' = [c \in Conns |-> IF PartDue(c, n) THEN raced[c] \cup {n} ELSE raced[c]]
    /\ UNCHANGED <<connVars, orphans, handler, found, joined, account, breaks, switches>>

\* The GUI thread drops the last reference to a channel of the registry, or to one whose
\* entry another's handler removed.  ~TwitchChannel signals `destroyed` before this thread
\* does anything else: the registry forgets the name, and both connections are told to
\* part.  (An orphan that goes while the name is live makes the live channel an orphan in
\* its place, which is the first case over again.)
ReleaseHere(n) ==
    /\ GuiFree
    /\ \/ entry[n] = "live" /\ UNCHANGED orphans
       \/ /\ entry[n] # "live" /\ orphans[n] > 0
          /\ orphans' = [orphans EXCEPT ![n] = @ - 1]
    /\ entry' = [entry EXCEPT ![n] = "none"]
    /\ joined' = [c \in Conns |-> IF Hears(c) THEN joined[c] \ {n} ELSE joined[c]]
    /\ UNCHANGED <<connVars, handler, limiter, raced, account, bounds>>

\* Another thread drops it, and begins the destructor.
ReleaseThere(t, n) ==
    /\ handler[t] = <<>> /\ handler' = [handler EXCEPT ![t] = <<"remove", n>>]
    /\ \/ /\ entry[n] = "live"
          /\ entry' = [entry EXCEPT ![n] = "expired"]
          /\ UNCHANGED orphans
       \/ /\ orphans[n] > 0
          /\ orphans' = [orphans EXCEPT ![n] = @ - 1]
          /\ UNCHANGED entry
    /\ UNCHANGED <<connVars, limiter, joined, raced, account, bounds>>

\* Its handler removes whatever the registry has under the name ...
Unregister(t, n) ==
    /\ handler[t] = <<"remove", n>> /\ handler' = [handler EXCEPT ![t] = <<"read", n>>]
    /\ entry' = [entry EXCEPT ![n] = "none"]
    /\ orphans' = [orphans EXCEPT ![n] = IF entry[n] = "live" THEN @ + 1 ELSE @]
    /\ raced' = [c \in Conns |-> IF n \in found[c] THEN raced[c] \cup {n} ELSE raced[c]]
    /\ UNCHANGED <<connVars, limiter, joined, account, bounds>>

\* ... and sends a PART on the read connection, then one on the write connection.
SendPart(t, c, n) ==
    /\ handler[t] = <<c, n>>
    /\ handler' = [handler EXCEPT ![t] = IF c = "read" THEN <<"write", n>> ELSE <<>>]
    /\ joined' = [joined EXCEPT ![c] = IF Hears(c) THEN @ \ {n} ELSE @]
    /\ UNCHANGED <<connVars, entry, orphans, limiter, raced, account, bounds>>

--------------------------------------------------------------------------------
Next ==
    \/ Connect \/ UserReconnects \/ ReconnectWrite
    \/ \E c \in Conns :
          \/ ConnectedTo(c) \/ Broken(c) \/ Received(c) \/ PingTick(c) \/ Retry(c)
          \/ ReconnectReceived(c) \/ Cooldown(c) \/ Lookup(c) \/ SendJoin(c)
    \/ \E a \in Accounts \cup {Anon} : SwitchAccount(a)
    \/ \E n \in Channels : OpenChannel(n) \/ ReleaseHere(n)
    \/ \E t \in Threads, n \in Channels :
          ReleaseThere(t, n) \/ Unregister(t, n) \/ \E c \in Conns : SendPart(t, c, n)

Spec == Init /\ [][Next]_vars

\* What the GUI thread has to do for connection c: the end of an attempt to connect, a
\* timer, the rest of a callback.
Pending(c) == ConnectedTo(c) \/ Retry(c) \/ Cooldown(c) \/ Lookup(c) \/ SendJoin(c)

\* Qt goes on with what is pending, in any order, and each ping timer fires again and
\* again; a handler another thread has begun goes on.
FairSpec ==
    /\ Spec
    /\ WF_vars(Connect \/ ReconnectWrite \/ \E c \in Conns : Pending(c))
    /\ \A c \in Conns : WF_vars(PingTick(c))
    /\ \A t \in Threads :
          WF_vars(\E n \in Channels : Unregister(t, n) \/ \E c \in Conns : SendPart(t, c, n))

--------------------------------------------------------------------------------
(* Properties *)

\* A connection that was lost, timed out or failed to connect has its reconnect
\* timer running: there is no order of losses, pings, reconnects and account
\* switches after which nobody reconnects it.
LossIsRetried ==
    started => \A c \in Conns : socket[c] # "unconnected" \/ retry[c]

\* The ping timer gives a connection up only if a PING went out on that very
\* socket and nothing came since.
TimeoutIsEarned ==
    \A c \in Conns :
        socket[c] = "connected" /\ waitingForPong[c] /\ ~recent[c] => pinged[c]

\* A channel in the registry is in both connections, waits in their rate limiter or is
\* on its way out of it, whenever the connection is up and, for writing, the account is
\* not the anonymous one and no reconnect for it is posted.  Excepted are channels that
\* were opened while another thread still had to part the name, until the connection is
\* opened again: that PART takes no lock and may follow the JOIN.
OpenIsJoined ==
    \A n \in Channels, c \in Conns :
        /\ entry[n] = "live" /\ Hears(c) /\ n \notin raced[c]
        /\ c = "write" => user # Anon /\ posted = 0
        => n \in joined[c] \cup called[c] \cup found[c] \cup ToSet(bucket[c].queue)

\* A connection is in no channel that has left the registry, once its PARTs are sent;
\* also when it left while its JOIN waited in the rate limiter, on whichever thread.
\* Excepted are channels another thread removed between a callback's look into the
\* registry and its JOIN, until the connection is opened again: the JOIN may follow the PART.
ClosedIsParted ==
    \A n \in Channels, c \in Conns :
        entry[n] = "none" /\ Hears(c) /\ ~PartDue(c, n) /\ n \notin raced[c]
        => n \notin joined[c]

\* At most Budget JOINs are sent per cooldown, and none waits while there is
\* budget for it.
JoinsAreSpaced ==
    \A c \in Conns :
        /\ bucket[c].timers + bucket[c].budget = Budget
        /\ bucket[c].queue # <<>> => bucket[c].budget = 0

\* A channel that stays open is joined for reading in the end, and for writing
\* if the account that stays is not the anonymous one; with the exception of
\* OpenIsJoined.
EventuallyJoined ==
    \A n \in Channels :
        /\ <>[](entry[n] = "live" /\ n \notin raced["read"]) => <>[](n \in joined["read"])
        /\ <>[](entry[n] = "live" /\ n \notin raced["write"] /\ user # Anon)
              => <>[](n \in joined["write"])
================================================================================
