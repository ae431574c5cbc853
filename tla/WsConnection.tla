------------------------------ MODULE WsConnection ------------------------------
(***************************************************************************)
(* A connection of a WebSocketPool.  Every handler runs on the pool's one  *)
(* IO thread: what close(), sendText() and createSocket() post, in that    *)
(* order, and the completions of asynchronous operations, in any order.    *)
(*                                                                         *)
(* The stream is Beast's.  An operation that is cancelled completes with   *)
(* an error, or with the success it had already met; async_close() ends,   *)
(* as do the steps of connecting, by its timeout at the latest.            *)
(***************************************************************************)
EXTENDS Naturals, Sequences

CONSTANTS
    MaxEndpoints,  \* bound: addresses a host resolves to
    MaxSends,      \* bound: messages sent
    MaxCloses,     \* bound: close() calls of the handle and of the pool's shutdown
    MaxHeard       \* bound: messages received

ASSUME WsBounds ==
    /\ MaxEndpoints \in Nat /\ MaxSends \in Nat /\ MaxCloses \in Nat /\ MaxHeard \in Nat

VARIABLES
    conn,    \* the connection
    secure,  \* it is a TlsWebSocketConnection
    posted,  \* what is posted to the IO thread: "run", "send", "close"
    silent,  \* the peer has disappeared without the stream knowing
    sends, closes

vars == <<conn, secure, posted, silent, sends, closes>>

Connections ==
    [dial : {"none", "resolve", "connect", "tls", "handshake"},  \* the step that is pending
     endpoints : Nat,      \* resolvedEndpoints left
     stream : {"closed", "open", "closing"},
     reading : BOOLEAN,    \* an async_read() is pending
     writing : Nat,        \* async_write()s that are pending
     sending : BOOLEAN,    \* isSending
     queue : Nat,          \* queuedMessages
     shutting : BOOLEAN,   \* an async_close() is pending
     timer : SUBSET {"armed", "expired"},  \* healthCheckTimer: waits, and handlers that are due
     probes : 0 .. 3,      \* pingProbesTried
     closing : BOOLEAN,    \* isClosing
     listener : BOOLEAN,   \* listener and pool are set
     phase : {"idle", "open", "closed"},   \* history: what the listener was told
     heard : Nat]          \* history: messages it was given

TypeOK ==
    /\ conn \in Connections
    /\ secure \in BOOLEAN
    /\ posted \in Seq({"run", "send", "close"})
    /\ silent \in BOOLEAN
    /\ sends \in Nat /\ closes \in Nat

\* createSocket() has entered the connection into the pool and posted run().
Init ==
    /\ conn = [dial |-> "none", endpoints |-> 0, stream |-> "closed", reading |-> FALSE,
               writing |-> 0, sending |-> FALSE, queue |-> 0, shutting |-> FALSE,
               timer |-> {}, probes |-> 0, closing |-> FALSE, listener |-> TRUE,
               phase |-> "idle", heard |-> 0]
    /\ secure \in BOOLEAN
    /\ posted = <<"run">>
    /\ silent = FALSE
    /\ sends = 0 /\ closes = 0

\* An operation or a posted call holds a reference to the connection.
Busy ==
    \/ posted # <<>> \/ conn.dial # "none" \/ conn.reading \/ conn.writing > 0
    \/ conn.shutting \/ conn.timer # {}

\* The pool holds one as well, until the connection detaches.
Alive == conn.listener \/ Busy

--------------------------------------------------------------------------------
(* What the handlers are made of *)

\* detach(): the listener and the pool are told once.
Detach(c) ==
    [c EXCEPT !.listener = FALSE, !.phase = IF c.listener THEN "closed" ELSE @]

\* Mutant: async_close() is left to fail().
CloseOpen(c) ==
    IF c.closing
    THEN c
    ELSE [c EXCEPT !.closing = TRUE, !.timer = @ \ {"armed"},
                   !.shutting = c.stream = "open", !.stream = "closing"]

\* closeImpl(): everything is cancelled, and the stream closed.
CloseImpl(c) ==
    IF c.closing
    THEN c
    ELSE [c EXCEPT !.closing = TRUE, !.timer = @ \ {"armed"},
                   !.shutting = TRUE, !.stream = "closing"]

Fail(c) == Detach(IF c.stream = "open" THEN CloseImpl(c) ELSE c)

\* scheduleHealthCheck(): a handler that is due already still runs.
ScheduleHealthCheck(c) == [c EXCEPT !.timer = @ \cup {"armed"}]

\* Mutant: a second write is started while one is pending.
TrySendAgain(c) ==
    IF c.queue = 0 \/ c.stream # "open"
    THEN c
    ELSE [c EXCEPT !.sending = TRUE, !.writing = @ + 1]

TrySend(c) ==
    IF c.queue = 0 \/ c.sending \/ c.stream # "open"
    THEN c
    ELSE [c EXCEPT !.sending = TRUE, !.writing = @ + 1]

TryConnect(c) ==
    IF c.endpoints = 0
    THEN Fail([c EXCEPT !.dial = "none"])
    ELSE [c EXCEPT !.dial = "connect", !.endpoints = @ - 1]

--------------------------------------------------------------------------------
(* The owner, on any thread *)

\* sendText(), sendBinary()
Send ==
    /\ Alive /\ sends < MaxSends /\ sends' = sends + 1
    /\ posted' = Append(posted, "send")
    /\ UNCHANGED <<conn, secure, silent, closes>>

\* close() of the handle, or of every connection when the pool shuts down.
Close ==
    /\ Alive /\ closes < MaxCloses /\ closes' = closes + 1
    /\ posted' = Append(posted, "close")
    /\ UNCHANGED <<conn, secure, silent, sends>>

--------------------------------------------------------------------------------
(* Posted calls *)

PostedIs(call) == posted # <<>> /\ Head(posted) = call /\ posted' = Tail(posted)

\* run(): the TLS stream may refuse the host name.
Run ==
    /\ PostedIs("run")
    /\ \/ conn' = [conn EXCEPT !.dial = "resolve"]
       \/ secure /\ conn' = Fail(conn)
    /\ UNCHANGED <<secure, silent, sends, closes>>

RunSend ==
    /\ PostedIs("send")
    /\ conn' = TrySend([conn EXCEPT !.queue = @ + 1])
    /\ UNCHANGED <<secure, silent, sends, closes>>

RunClose ==
    /\ PostedIs("close")
    /\ conn' = CloseImpl(conn)
    /\ UNCHANGED <<secure, silent, sends, closes>>

--------------------------------------------------------------------------------
(* Completions *)

outside == <<secure, posted, silent, sends, closes>>

OnResolve ==
    /\ conn.dial = "resolve"
    /\ \/ \E n \in 0 .. MaxEndpoints : conn' = TryConnect([conn EXCEPT !.endpoints = n])
       \/ conn' = Fail([conn EXCEPT !.dial = "none"])
    /\ UNCHANGED outside

OnTcpHandshake ==
    /\ conn.dial = "connect"
    /\ \/ conn' = [conn EXCEPT !.endpoints = 0, !.dial = IF secure THEN "tls" ELSE "handshake"]
       \/ conn' = TryConnect(conn)
    /\ UNCHANGED outside

OnTlsHandshake ==
    /\ conn.dial = "tls"
    /\ \/ conn' = [conn EXCEPT !.dial = "handshake"]
       \/ conn' = Fail([conn EXCEPT !.dial = "none"])
    /\ UNCHANGED outside

\* The listener is told, what was queued is sent, and reading begins.
Opened(c) ==
    ScheduleHealthCheck(TrySend([c EXCEPT !.phase = "open", !.reading = TRUE]))

\* Nobody may be there any more when the handshake is done.
OnWsHandshake ==
    /\ conn.dial = "handshake"
    /\ \E ok \in BOOLEAN :
          LET c == [conn EXCEPT !.dial = "none",
                                !.stream = IF ok /\ ~conn.shutting THEN "open" ELSE @]
          IN conn' = IF ~c.listener \/ c.closing THEN c
                     ELSE IF ok THEN Opened(c) ELSE Fail(c)
    /\ UNCHANGED outside

\* Mutant: the listener is given a message whatever became of the connection.
ReceivesAlways(c) ==
    [ScheduleHealthCheck(c) EXCEPT !.heard = @ + 1, !.probes = 0]

\* A message comes in: it is delivered and the next one read.
Receives(c) ==
    IF ~c.listener \/ c.closing
    THEN [c EXCEPT !.reading = FALSE]
    ELSE [ScheduleHealthCheck(c) EXCEPT !.heard = @ + 1, !.probes = 0]

OnReadDone ==
    /\ conn.reading /\ ~silent /\ conn.heard < MaxHeard
    /\ conn' = Receives(conn)
    /\ UNCHANGED outside

OnReadError ==
    /\ conn.reading /\ conn.stream # "open"
    /\ LET c == [conn EXCEPT !.reading = FALSE]
       IN conn' = IF ~c.listener \/ c.closing THEN c ELSE Fail(c)
    /\ UNCHANGED outside

\* The message that was written is the first of the queue.
Written(c) == [c EXCEPT !.writing = @ - 1, !.queue = @ - 1, !.sending = FALSE]

\* The system takes what is written, also for a peer that has disappeared.
OnWriteDone ==
    /\ conn.writing > 0
    /\ conn' = TrySend(Written(conn))
    /\ UNCHANGED outside

OnWriteError ==
    /\ conn.writing > 0 /\ conn.stream # "open"
    /\ conn' = Fail(Written(conn))
    /\ UNCHANGED outside

\* Mutant: the end of async_close() is not passed on.
OnClosedSilently ==
    /\ conn.shutting
    /\ conn' = [conn EXCEPT !.shutting = FALSE, !.stream = "closed"]
    /\ UNCHANGED outside

OnClosed ==
    /\ conn.shutting
    /\ conn' = Detach([conn EXCEPT !.shutting = FALSE, !.stream = "closed"])
    /\ UNCHANGED outside

TimerExpires ==
    /\ "armed" \in conn.timer /\ "expired" \notin conn.timer
    /\ conn' = [conn EXCEPT !.timer = {"expired"}]
    /\ UNCHANGED outside

\* Mutant: probes are not counted.
ProbeUncounted(c) == ScheduleHealthCheck(c)

\* Mutant: one probe too many.
ProbeOnceMore(c) ==
    IF c.probes > 3
    THEN Fail(c)
    ELSE ScheduleHealthCheck([c EXCEPT !.probes = @ + 1])

\* A probe is sent, three times at most.
Probe(c) ==
    IF c.probes = 3
    THEN Fail(c)
    ELSE ScheduleHealthCheck([c EXCEPT !.probes = @ + 1])

OnHealthCheck ==
    /\ "expired" \in conn.timer
    /\ LET c == [conn EXCEPT !.timer = @ \ {"expired"}]
       IN conn' = IF c.closing THEN c ELSE Probe(c)
    /\ UNCHANGED outside

\* A pong is seen while a read is pending.
OnControlFrame ==
    /\ conn.reading /\ ~silent
    /\ conn' = ScheduleHealthCheck([conn EXCEPT !.probes = 0])
    /\ UNCHANGED outside

--------------------------------------------------------------------------------
(* The peer *)

\* It closes the connection, or the connection breaks.
PeerLeaves ==
    /\ conn.stream = "open"
    /\ conn' = [conn EXCEPT !.stream = "closed"]
    /\ UNCHANGED outside

PeerDisappears ==
    /\ ~silent /\ silent' = TRUE
    /\ UNCHANGED <<conn, secure, posted, sends, closes>>

--------------------------------------------------------------------------------
Dial == Run \/ OnResolve \/ OnTcpHandshake \/ OnTlsHandshake \/ OnWsHandshake

Next ==
    \/ Send \/ Close \/ RunSend \/ RunClose \/ Dial
    \/ OnReadDone \/ OnReadError \/ OnWriteDone \/ OnWriteError \/ OnClosed
    \/ TimerExpires \/ OnHealthCheck \/ OnControlFrame
    \/ PeerLeaves \/ PeerDisappears

Spec == Init /\ [][Next]_vars

\* The IO thread runs what is posted and due; connecting, closing and what was
\* cancelled or has failed completes.
FairSpec ==
    /\ Spec
    /\ WF_vars(Dial) /\ WF_vars(RunSend) /\ WF_vars(RunClose)
    /\ WF_vars(OnReadError) /\ WF_vars(OnWriteDone \/ OnWriteError) /\ WF_vars(OnClosed)
    /\ WF_vars(TimerExpires) /\ WF_vars(OnHealthCheck)

--------------------------------------------------------------------------------
(* Properties *)

\* A connection whose listener has not heard of a close has an operation pending
\* that ends in one, whatever close(), failures and timers did to it: none is left
\* in the pool with nobody to remove it.
AliveHasOperation ==
    conn.listener =>
        posted # <<>> \/ conn.dial # "none" \/ conn.reading \/ conn.shutting

\* At most one write is pending, and onWriteDone() finds the message it wrote
\* still in the queue, so its assert(false) is not reached.
WritesAreSerial == conn.writing <= 1 /\ conn.writing <= conn.queue

\* The listener hears what WebSocketListener promises: one open at most, messages
\* between open and close only, and nothing after a single close.
Listener == INSTANCE WsListener WITH phase <- conn.phase, heard <- conn.heard
ListenerContract == Listener!Spec

\* After close() the listener hears of it and in the end nothing holds the
\* connection, so the IO thread of a pool that shuts down can finish.
CloseEnds == closes > 0 ~> conn.phase = "closed" /\ ~Alive

\* A peer that disappears is noticed: the probes go unanswered and the connection
\* is given up.
SilenceIsNoticed == silent ~> conn.phase = "closed"
================================================================================
