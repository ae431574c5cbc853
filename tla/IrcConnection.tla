----------------------------- MODULE IrcConnection -----------------------------
(***************************************************************************)
(* One IRC connection of Chatterino (IrcConnection2.cpp): the flags its    *)
(* ping timer keeps, and the timer that reconnects it.  Every action is of *)
(* connection c and takes place on the GUI thread.                         *)
(*                                                                         *)
(* The connection underneath is Communi's, which is not part of the        *)
(* sources: it connects, or loses its socket, and close() drops the socket *)
(* at once.  `stalled` is a peer that is gone without the socket knowing.  *)
(***************************************************************************)
EXTENDS Naturals

CONSTANT Conns  \* the connections

VARIABLES
    socket,         \* "unconnected", "connecting" or "connected"
    stalled,        \* nothing arrives any more, and nothing that is sent does
    expectLoss,     \* expectConnectionLoss_
    waitingForPong,
    recent,         \* recentlyReceivedMessage_
    retry,          \* reconnectTimer_ is active
    pinged          \* history: a PING went out on this socket, and nothing came since

connVars == <<socket, stalled, expectLoss, waitingForPong, recent, retry, pinged>>

ConnTypeOK ==
    /\ socket \in [Conns -> {"unconnected", "connecting", "connected"}]
    /\ stalled \in [Conns -> BOOLEAN]
    /\ expectLoss \in [Conns -> BOOLEAN]
    /\ waitingForPong \in [Conns -> BOOLEAN]
    /\ recent \in [Conns -> BOOLEAN]
    /\ retry \in [Conns -> BOOLEAN]
    /\ pinged \in [Conns -> BOOLEAN]

ConnInit ==
    /\ socket = [c \in Conns |-> "unconnected"]
    /\ stalled = [c \in Conns |-> FALSE]
    /\ expectLoss = [c \in Conns |-> FALSE]
    /\ waitingForPong = [c \in Conns |-> FALSE]
    /\ recent = [c \in Conns |-> TRUE]
    /\ retry = [c \in Conns |-> FALSE]
    /\ pinged = [c \in Conns |-> FALSE]

\* Mutant: open() leaves the flags as the last socket left them.
OpenKeepsFlags(S) ==
    /\ socket' = [c \in Conns |-> IF c \in S THEN "connecting" ELSE socket[c]]
    /\ stalled' = [c \in Conns |-> c \notin S /\ stalled[c]]
    /\ expectLoss' = [c \in Conns |-> c \notin S /\ expectLoss[c]]
    /\ pinged' = [c \in Conns |-> c \notin S /\ pinged[c]]
    /\ UNCHANGED <<waitingForPong, recent>>

\* open() of each connection in S, whose socket has been dropped or never was.
Open(S) ==
    /\ socket' = [c \in Conns |-> IF c \in S THEN "connecting" ELSE socket[c]]
    /\ stalled' = [c \in Conns |-> c \notin S /\ stalled[c]]
    /\ expectLoss' = [c \in Conns |-> c \notin S /\ expectLoss[c]]
    /\ waitingForPong' = [c \in Conns |-> c \notin S /\ waitingForPong[c]]
    /\ recent' = [c \in Conns |-> c \notin S /\ recent[c]]
    /\ pinged' = [c \in Conns |-> c \notin S /\ pinged[c]]

Connected(c) ==
    /\ socket[c] = "connecting"
    /\ socket' = [socket EXCEPT ![c] = "connected"]
    /\ UNCHANGED <<stalled, expectLoss, waitingForPong, recent, retry, pinged>>

\* The socket becomes unconnected without close(): connectionLost, which the
\* server answers with smartReconnect().
SocketLost(c) ==
    /\ socket[c] # "unconnected"
    /\ socket' = [socket EXCEPT ![c] = "unconnected"]
    /\ retry' = [retry EXCEPT ![c] = @ \/ ~expectLoss[c]]
    /\ UNCHANGED <<stalled, expectLoss, waitingForPong, recent, pinged>>

\* The peer disappears.
Stall(c) ==
    /\ socket[c] = "connected" /\ ~stalled[c]
    /\ stalled' = [stalled EXCEPT ![c] = TRUE]
    /\ UNCHANGED <<socket, expectLoss, waitingForPong, recent, retry, pinged>>

\* Any message but the answer to a PING.
MessageReceived(c) ==
    /\ socket[c] = "connected" /\ ~stalled[c]
    /\ recent' = [recent EXCEPT ![c] = TRUE]
    /\ pinged' = [pinged EXCEPT ![c] = FALSE]
    /\ UNCHANGED <<socket, stalled, expectLoss, waitingForPong, retry>>

\* The answer to a PING, which may come after other messages.
PongReceived(c) ==
    /\ socket[c] = "connected" /\ ~stalled[c]
    /\ waitingForPong' = [waitingForPong EXCEPT ![c] = FALSE]
    /\ recent' = [recent EXCEPT ![c] = TRUE]
    /\ pinged' = [pinged EXCEPT ![c] = FALSE]
    /\ UNCHANGED <<socket, stalled, expectLoss, retry>>

\* pingTimer_: messages came; or a PING is due.
PingQuiet(c) ==
    /\ socket[c] = "connected"
    /\ recent[c] \/ ~waitingForPong[c]
    /\ recent' = [recent EXCEPT ![c] = FALSE]
    /\ waitingForPong' = [waitingForPong EXCEPT ![c] = ~recent[c]]
    /\ pinged' = [pinged EXCEPT ![c] = @ \/ ~recent[c]]
    /\ UNCHANGED <<socket, stalled, expectLoss, retry>>

\* Mutant: close() alone, which does not signal the loss.
TimeoutWithoutRetry(c) ==
    /\ socket[c] = "connected"
    /\ ~recent[c] /\ waitingForPong[c]
    /\ socket' = [socket EXCEPT ![c] = "unconnected"]
    /\ expectLoss' = [expectLoss EXCEPT ![c] = TRUE]
    /\ UNCHANGED <<stalled, waitingForPong, recent, retry, pinged>>

\* pingTimer_: no PONG since the last tick.  close(), then connectionLost(true).
PingTimeout(c) ==
    /\ socket[c] = "connected"
    /\ ~recent[c] /\ waitingForPong[c]
    /\ socket' = [socket EXCEPT ![c] = "unconnected"]
    /\ expectLoss' = [expectLoss EXCEPT ![c] = TRUE]
    /\ retry' = [retry EXCEPT ![c] = TRUE]
    /\ UNCHANGED <<stalled, waitingForPong, recent, pinged>>

\* reconnectTimer_: open(), unless somebody has reconnected already.
ReconnectTimeout(c) ==
    /\ retry[c]
    /\ retry' = [retry EXCEPT ![c] = FALSE]
    /\ IF socket[c] = "connected"
       THEN UNCHANGED <<socket, stalled, expectLoss, waitingForPong, recent, pinged>>
       ELSE Open({c})
================================================================================
