--------------------------- MODULE WsConnectionProofs ---------------------------
(***************************************************************************)
(* Theorems about WsConnection for every value of its bounds: the type     *)
(* invariant, the two safety invariants, and that every behaviour is one   *)
(* that WsListener allows.                                                 *)
(***************************************************************************)
EXTENDS WsConnection, SequenceTheorems, TLAPS

--------------------------------------------------------------------------------
(* The functions the handlers are made of *)

LEMMA DetachType == ASSUME NEW c \in Connections PROVE Detach(c) \in Connections
BY DEF Detach, Connections

LEMMA CloseImplType == ASSUME NEW c \in Connections PROVE CloseImpl(c) \in Connections
BY DEF CloseImpl, Connections

LEMMA FailType == ASSUME NEW c \in Connections PROVE Fail(c) \in Connections
BY DetachType, CloseImplType DEF Fail

LEMMA ScheduleType ==
    ASSUME NEW c \in Connections PROVE ScheduleHealthCheck(c) \in Connections
BY DEF ScheduleHealthCheck, Connections

LEMMA TrySendType == ASSUME NEW c \in Connections PROVE TrySend(c) \in Connections
<1> DEFINE w == c.writing + 1
<1>1. w \in Nat
  BY DEF Connections
<1>2. [c EXCEPT !.sending = TRUE, !.writing = w] \in Connections
  BY <1>1 DEF Connections
<1> HIDE DEF w
<1>3. TrySend(c) \in {c, [c EXCEPT !.sending = TRUE, !.writing = w]}
  BY Zenon DEF TrySend, w
<1> QED
  BY <1>2, <1>3

LEMMA TryConnectType == ASSUME NEW c \in Connections PROVE TryConnect(c) \in Connections
<1>1. [c EXCEPT !.dial = "none"] \in Connections
  BY DEF Connections
<1>2. CASE c.endpoints = 0
  BY <1>1, <1>2, FailType DEF TryConnect
<1>3. CASE c.endpoints # 0
  <2> DEFINE n == c.endpoints - 1
  <2>1. n \in Nat
    BY <1>3 DEF Connections
  <2>2. [c EXCEPT !.dial = "connect", !.endpoints = n] \in Connections
    BY <2>1 DEF Connections
  <2> QED
    BY <1>3, <2>2 DEF TryConnect
<1> QED
  BY <1>2, <1>3

--------------------------------------------------------------------------------
(* The inductive invariant *)

\* The listener is kept until it is told of the close.
Told(c) == c.listener <=> c.phase # "closed"

\* AliveHasOperation is inductive with what it takes to say which operation it is:
\* a connection that closes has its async_close() pending, one that reads is open,
\* and one that is open is not connecting any more.
Promise(c, unstarted) ==
    /\ Told(c)
    /\ c.closing /\ c.listener => c.shutting
    /\ c.reading /\ c.listener => c.phase = "open"
    /\ c.phase = "open" => c.dial = "none"
    /\ c.listener => unstarted \/ c.dial # "none" \/ c.reading \/ c.shutting

\* isSending says whether the first message of the queue is being written.
Serial(c) ==
    /\ c.sending => c.writing = 1
    /\ ~c.sending => c.writing = 0
    /\ c.writing <= c.queue

Unstarted == posted # <<>> /\ posted[1] = "run"

\* run() is posted once, before anything else, and starts a connection that is new.
RunIsFirst ==
    /\ \A i \in 2 .. Len(posted) : posted[i] # "run"
    /\ Unstarted => conn.dial = "none" /\ conn.phase # "open"

IInv == TypeOK /\ Promise(conn, Unstarted) /\ Serial(conn) /\ RunIsFirst

LEMMA DetachKeeps ==
    ASSUME NEW c \in Connections, Told(c), NEW u \in BOOLEAN
    PROVE  /\ Promise(Detach(c), u)
           /\ Serial(c) => Serial(Detach(c))
           /\ Detach(c).dial = c.dial
           /\ Detach(c).phase = "closed"
<1>1. Detach(c).phase = "closed" /\ Detach(c).listener = FALSE
  BY DEF Detach, Told, Connections
<1>2. /\ Detach(c).dial = c.dial /\ Detach(c).sending = c.sending
      /\ Detach(c).writing = c.writing /\ Detach(c).queue = c.queue
  BY DEF Detach, Connections
<1> QED
  BY <1>1, <1>2 DEF Promise, Told, Serial

LEMMA CloseImplKeeps ==
    ASSUME NEW c \in Connections, Told(c)
    PROVE  /\ Told(CloseImpl(c))
           /\ Serial(c) => Serial(CloseImpl(c))
           /\ CloseImpl(c).dial = c.dial
           /\ CloseImpl(c).phase = c.phase
           /\ CloseImpl(c).listener = c.listener
           /\ CloseImpl(c).reading = c.reading
           /\ CloseImpl(c).shutting = c.shutting \/ CloseImpl(c).shutting = TRUE
           /\ ~c.closing => CloseImpl(c).shutting
<1>1. CASE c.closing
  BY <1>1 DEF CloseImpl
<1>2. CASE ~c.closing
  <2>1. /\ CloseImpl(c).dial = c.dial /\ CloseImpl(c).phase = c.phase
        /\ CloseImpl(c).listener = c.listener /\ CloseImpl(c).reading = c.reading
        /\ CloseImpl(c).shutting = TRUE
    BY <1>2 DEF CloseImpl, Connections
  <2>2. /\ CloseImpl(c).sending = c.sending
        /\ CloseImpl(c).writing = c.writing /\ CloseImpl(c).queue = c.queue
    BY <1>2 DEF CloseImpl, Connections
  <2> QED
    BY <2>1, <2>2 DEF Told, Serial
<1> QED
  BY <1>1, <1>2

LEMMA FailKeeps ==
    ASSUME NEW c \in Connections, Told(c), NEW u \in BOOLEAN
    PROVE  /\ Promise(Fail(c), u)
           /\ Serial(c) => Serial(Fail(c))
           /\ Fail(c).dial = c.dial
           /\ Fail(c).phase = "closed"
<1>1. CASE c.stream = "open"
  <2>1. Fail(c) = Detach(CloseImpl(c))
    BY <1>1 DEF Fail
  <2> QED
    BY <2>1, CloseImplType, CloseImplKeeps, DetachKeeps
<1>2. CASE c.stream # "open"
  <2>1. Fail(c) = Detach(c)
    BY <1>2 DEF Fail
  <2> QED
    BY <2>1, DetachKeeps
<1> QED
  BY <1>1, <1>2

LEMMA ScheduleKeeps ==
    ASSUME NEW c \in Connections, NEW u \in BOOLEAN
    PROVE  /\ Promise(c, u) => Promise(ScheduleHealthCheck(c), u)
           /\ Serial(c) => Serial(ScheduleHealthCheck(c))
           /\ ScheduleHealthCheck(c).dial = c.dial
           /\ ScheduleHealthCheck(c).phase = c.phase
<1> DEFINE t == c.timer \cup {"armed"}
<1> HIDE DEF t
<1>1. ScheduleHealthCheck(c) = [c EXCEPT !.timer = t]
  BY Zenon DEF ScheduleHealthCheck, t
<1> QED
  BY <1>1 DEF Promise, Told, Serial, Connections

LEMMA TrySendKeeps ==
    ASSUME NEW c \in Connections, NEW u \in BOOLEAN
    PROVE  /\ Promise(c, u) => Promise(TrySend(c), u)
           /\ Serial(c) => Serial(TrySend(c))
           /\ TrySend(c).dial = c.dial
           /\ TrySend(c).phase = c.phase
<1>1. CASE TrySend(c) = c
  BY <1>1
<1>2. CASE TrySend(c) # c
  <2> DEFINE w == c.writing + 1
  <2>1. w \in Nat
    BY DEF Connections
  <2>2. ~c.sending /\ c.queue # 0
    BY <1>2, Zenon DEF TrySend
  <2>3. TrySend(c) = [c EXCEPT !.sending = TRUE, !.writing = w]
    BY <1>2, Zenon DEF TrySend
  <2>4. Serial(c) => c.queue >= w /\ w = 1
    BY <2>2 DEF Serial, Connections
  <2> HIDE DEF w
  <2> QED
    BY <2>1, <2>3, <2>4 DEF Promise, Told, Serial, Connections
<1> QED
  BY <1>1, <1>2

LEMMA TryConnectKeeps ==
    ASSUME NEW c \in Connections, NEW u \in BOOLEAN, Promise(c, u), c.phase # "open"
    PROVE  /\ Promise(TryConnect(c), u)
           /\ Serial(c) => Serial(TryConnect(c))
           /\ TryConnect(c).phase # "open"
<1>1. CASE c.endpoints = 0
  <2> DEFINE d == [c EXCEPT !.dial = "none"]
  <2>1. TryConnect(c) = Fail(d)
    BY <1>1 DEF TryConnect
  <2>2. d \in Connections /\ Told(d) /\ (Serial(c) => Serial(d))
    BY DEF Connections, Promise, Told, Serial
  <2> HIDE DEF d
  <2> QED
    BY <2>1, <2>2, FailKeeps
<1>2. CASE c.endpoints # 0
  <2> DEFINE n == c.endpoints - 1
  <2> HIDE DEF n
  <2>1. TryConnect(c) = [c EXCEPT !.dial = "connect", !.endpoints = n]
    BY <1>2, Zenon DEF TryConnect, n
  <2> QED
    BY <2>1 DEF Promise, Told, Serial, Connections
<1> QED
  BY <1>1, <1>2

--------------------------------------------------------------------------------
(* The steps *)

Calls == {"run", "send", "close"}

\* What is posted behind run() does not change whether it has run.
LEMMA AppendKeepsOrder ==
    ASSUME NEW q \in Seq(Calls), NEW x \in {"send", "close"},
           \A i \in 2 .. Len(q) : q[i] # "run"
    PROVE  /\ Append(q, x) \in Seq(Calls)
           /\ \A i \in 2 .. Len(Append(q, x)) : Append(q, x)[i] # "run"
           /\ (Append(q, x) # <<>> /\ Append(q, x)[1] = "run")
                 <=> (q # <<>> /\ q[1] = "run")
<1>1. /\ Append(q, x) \in Seq(Calls)
      /\ Len(Append(q, x)) = Len(q) + 1
      /\ \A i \in 1 .. Len(q) : Append(q, x)[i] = q[i]
      /\ Append(q, x)[Len(q) + 1] = x
  BY AppendProperties DEF Calls
<1>2. Len(q) \in Nat /\ (q = <<>> <=> Len(q) = 0)
  BY EmptySeq, LenProperties
<1>3. Append(q, x) # <<>>
  BY <1>1, <1>2, EmptySeq
<1> QED
  BY <1>1, <1>2, <1>3

\* Once a posted call has run, no run() is left.
LEMMA TailHasNoRun ==
    ASSUME NEW q \in Seq(Calls), q # <<>>, \A i \in 2 .. Len(q) : q[i] # "run"
    PROVE  /\ Tail(q) \in Seq(Calls)
           /\ \A i \in 1 .. Len(Tail(q)) : Tail(q)[i] # "run"
           /\ ~(Tail(q) # <<>> /\ Tail(q)[1] = "run")
<1>1. /\ Tail(q) \in Seq(Calls)
      /\ Len(Tail(q)) = Len(q) - 1
      /\ \A i \in 1 .. Len(Tail(q)) : Tail(q)[i] = q[i + 1]
  BY HeadTailProperties
<1>2. Len(q) \in Nat /\ Len(Tail(q)) \in Nat /\ (Tail(q) = <<>> <=> Len(Tail(q)) = 0)
  BY <1>1, EmptySeq, LenProperties
<1>3. \A i \in 1 .. Len(Tail(q)) : i + 1 \in 2 .. Len(q)
  BY <1>1, <1>2
<1>4. \A i \in 1 .. Len(Tail(q)) : Tail(q)[i] # "run"
  BY <1>1, <1>3
<1> QED
  BY <1>1, <1>2, <1>4

LEMMA PostedStep ==
    ASSUME IInv, NEW call, PostedIs(call)
    PROVE  /\ posted' \in Seq(Calls)
           /\ Unstarted <=> call = "run"
           /\ ~Unstarted'
           /\ RunIsFirst'
<1>1. posted \in Seq(Calls) /\ posted # <<>> /\ posted' = Tail(posted) /\ Head(posted) = call
  BY DEF IInv, TypeOK, PostedIs, Calls
<1>2. /\ Tail(posted) \in Seq(Calls)
      /\ \A i \in 1 .. Len(Tail(posted)) : Tail(posted)[i] # "run"
      /\ ~(Tail(posted) # <<>> /\ Tail(posted)[1] = "run")
  BY <1>1, TailHasNoRun DEF IInv, RunIsFirst
<1>3. ~Unstarted'
  BY <1>1, <1>2 DEF Unstarted
<1>4. posted[1] = call
  BY <1>1
<1>5. Len(Tail(posted)) \in Nat
  BY <1>2, LenProperties
<1>6. \A i \in 2 .. Len(posted') : posted'[i] # "run"
  BY <1>1, <1>2, <1>5
<1> QED
  BY <1>1, <1>2, <1>3, <1>4, <1>6 DEF Unstarted, RunIsFirst

\* A step that changes the connection alone, and neither starts to connect nor opens
\* it before run(), keeps the invariant if the new connection has its parts.
LEMMA ConnectionStep ==
    ASSUME IInv, UNCHANGED outside,
           conn' \in Connections, Promise(conn', Unstarted), Serial(conn'),
           Unstarted => conn'.dial = "none" /\ conn'.phase # "open"
    PROVE  IInv'
<1>1. Unstarted' <=> Unstarted
  BY DEF outside, Unstarted
<1>2. RunIsFirst'
  BY <1>1 DEF IInv, RunIsFirst, outside
<1>3. TypeOK'
  BY DEF IInv, TypeOK, outside
<1>4. Promise(conn, Unstarted)' /\ Serial(conn)'
  BY <1>1 DEF Promise, Told, Serial
<1> QED
  BY <1>2, <1>3, <1>4 DEF IInv

LEMMA InitIInv == Init => IInv
<1> SUFFICES ASSUME Init PROVE IInv
  OBVIOUS
<1>1. posted = <<"run">> /\ Len(posted) = 1 /\ posted[1] = "run"
  BY DEF Init
<1>2. conn \in Connections
  BY DEF Init, Connections
<1>3. TypeOK
  <2>1. posted \in Seq({"run", "send", "close"})
    BY <1>1
  <2>2. secure \in BOOLEAN /\ silent \in BOOLEAN /\ sends \in Nat /\ closes \in Nat
    BY DEF Init
  <2> QED
    BY <1>2, <2>1, <2>2 DEF TypeOK
<1>4. Unstarted
  BY <1>1 DEF Unstarted
<1>5. Promise(conn, Unstarted) /\ Serial(conn)
  BY <1>4 DEF Init, Promise, Told, Serial
<1>6. RunIsFirst
  BY <1>1 DEF Init, RunIsFirst
<1> QED
  BY <1>3, <1>5, <1>6 DEF IInv

LEMMA NextIInv == IInv /\ [Next]_vars => IInv'
<1> SUFFICES ASSUME IInv, [Next]_vars PROVE IInv'
  OBVIOUS
<1> USE DEF Calls
<1>t. /\ conn \in Connections /\ Promise(conn, Unstarted) /\ Serial(conn)
      /\ Told(conn) /\ Unstarted \in BOOLEAN
      /\ Unstarted => conn.dial = "none" /\ conn.phase # "open"
      /\ posted \in Seq(Calls) /\ \A i \in 2 .. Len(posted) : posted[i] # "run"
  BY DEF IInv, TypeOK, RunIsFirst, Promise, Unstarted
<1>1. CASE Send
  <2>1. posted' = Append(posted, "send") /\ conn' = conn
    BY <1>1 DEF Send
  <2>2. RunIsFirst' /\ (Unstarted' <=> Unstarted) /\ posted' \in Seq(Calls)
    BY <1>t, <2>1, AppendKeepsOrder DEF RunIsFirst, Unstarted
  <2>3. TypeOK'
    BY <1>1, <2>1, <2>2 DEF Send, IInv, TypeOK
  <2> QED
    BY <1>t, <2>1, <2>2, <2>3 DEF IInv, Promise, Told, Serial
<1>2. CASE Close
  <2>1. posted' = Append(posted, "close") /\ conn' = conn
    BY <1>2 DEF Close
  <2>2. RunIsFirst' /\ (Unstarted' <=> Unstarted) /\ posted' \in Seq(Calls)
    BY <1>t, <2>1, AppendKeepsOrder DEF RunIsFirst, Unstarted
  <2>3. TypeOK'
    BY <1>2, <2>1, <2>2 DEF Close, IInv, TypeOK
  <2> QED
    BY <1>t, <2>1, <2>2, <2>3 DEF IInv, Promise, Told, Serial
<1>3. CASE RunSend
  <2> DEFINE n == conn.queue + 1
             c == [conn EXCEPT !.queue = n]
  <2>1. n \in Nat /\ n >= conn.queue
    BY <1>t DEF Connections
  <2>2. PostedIs("send") /\ conn' = TrySend(c) /\ UNCHANGED <<secure, silent, sends, closes>>
    BY <1>3 DEF RunSend
  <2> HIDE DEF n
  <2>3. c \in Connections /\ Promise(c, Unstarted) /\ Serial(c)
    <3>1. c \in Connections
      BY <1>t, <2>1 DEF Connections
    <3>2. c.queue = n /\ c.writing = conn.writing /\ c.sending = conn.sending
      BY <1>t DEF Connections
    <3>3. Promise(c, Unstarted)
      BY <1>t DEF Connections, Promise, Told
    <3>4. conn.writing \in Nat /\ conn.queue \in Nat
      BY <1>t DEF Connections
    <3> HIDE DEF c
    <3> QED
      BY <1>t, <2>1, <3>1, <3>2, <3>3, <3>4 DEF Serial
  <2> HIDE DEF c
  <2>4. conn' \in Connections /\ Promise(conn', Unstarted) /\ Serial(conn')
    BY <1>t, <2>2, <2>3, TrySendType, TrySendKeeps
  <2>5. posted' \in Seq(Calls) /\ ~Unstarted /\ ~Unstarted' /\ RunIsFirst'
    BY <2>2, PostedStep
  <2> QED
    BY <2>2, <2>4, <2>5 DEF IInv, TypeOK, Promise, Told, Serial
<1>4. CASE RunClose
  <2>1. PostedIs("close") /\ conn' = CloseImpl(conn) /\ UNCHANGED <<secure, silent, sends, closes>>
    BY <1>4 DEF RunClose
  <2>2. conn' \in Connections /\ Serial(conn')
    BY <1>t, <2>1, CloseImplType, CloseImplKeeps
  <2>3. Promise(conn', Unstarted)
    <3>1. CASE conn.closing
      BY <1>t, <2>1, <3>1 DEF CloseImpl
    <3>2. CASE ~conn.closing
      BY <1>t, <2>1, <3>2, CloseImplKeeps DEF Promise
    <3> QED
      BY <3>1, <3>2
  <2>4. posted' \in Seq(Calls) /\ ~Unstarted /\ ~Unstarted' /\ RunIsFirst'
    BY <2>1, PostedStep
  <2> QED
    BY <2>1, <2>2, <2>3, <2>4 DEF IInv, TypeOK, Promise, Told, Serial
<1>5. CASE Run
  <2>1. PostedIs("run") /\ UNCHANGED <<secure, silent, sends, closes>>
    BY <1>5 DEF Run
  <2>2. posted' \in Seq(Calls) /\ Unstarted /\ ~Unstarted' /\ RunIsFirst'
    BY <2>1, PostedStep
  <2>3. conn' \in Connections /\ Promise(conn', FALSE) /\ Serial(conn')
    <3>1. CASE conn' = [conn EXCEPT !.dial = "resolve"]
      BY <1>t, <2>2, <3>1 DEF Connections, Promise, Told, Serial
    <3>2. CASE conn' = Fail(conn)
      BY <1>t, <3>2, FailType, FailKeeps
    <3> QED
      BY <1>5, <3>1, <3>2 DEF Run
  <2> QED
    BY <2>1, <2>2, <2>3 DEF IInv, TypeOK, Promise, Told, Serial
<1>6. CASE OnResolve
  <2>1. conn.dial = "resolve" /\ UNCHANGED outside
    BY <1>6 DEF OnResolve
  <2>2. ~Unstarted /\ conn.phase # "open"
    BY <1>t, <2>1 DEF Promise
  <2>3. CASE \E n \in 0 .. MaxEndpoints : conn' = TryConnect([conn EXCEPT !.endpoints = n])
    <3>1. PICK n \in 0 .. MaxEndpoints : conn' = TryConnect([conn EXCEPT !.endpoints = n])
      BY <2>3
    <3> DEFINE c == [conn EXCEPT !.endpoints = n]
    <3>2. n \in Nat
      BY WsBounds
    <3>3. c \in Connections /\ Promise(c, Unstarted) /\ Serial(c) /\ c.phase # "open"
      BY <1>t, <2>2, <3>2 DEF Connections, Promise, Told, Serial
    <3> HIDE DEF c
    <3>4. conn' \in Connections /\ Promise(conn', Unstarted) /\ Serial(conn')
      BY <1>t, <3>1, <3>3, TryConnectType, TryConnectKeeps DEF c
    <3> QED
      BY <2>1, <2>2, <3>4, ConnectionStep
  <2>4. CASE conn' = Fail([conn EXCEPT !.dial = "none"])
    <3> DEFINE c == [conn EXCEPT !.dial = "none"]
    <3>1. c \in Connections /\ Told(c) /\ Serial(c)
      BY <1>t DEF Connections, Told, Serial
    <3> HIDE DEF c
    <3>2. conn' \in Connections /\ Promise(conn', Unstarted) /\ Serial(conn')
      BY <1>t, <2>4, <3>1, FailType, FailKeeps DEF c
    <3> QED
      BY <2>1, <2>2, <3>2, ConnectionStep
  <2> QED
    BY <1>6, <2>3, <2>4 DEF OnResolve
<1>7. CASE OnTcpHandshake
  <2>1. conn.dial = "connect" /\ UNCHANGED outside
    BY <1>7 DEF OnTcpHandshake
  <2>2. ~Unstarted /\ conn.phase # "open"
    BY <1>t, <2>1 DEF Promise
  <2>3. conn' \in Connections /\ Promise(conn', Unstarted) /\ Serial(conn')
    <3>1. CASE conn' = TryConnect(conn)
      BY <1>t, <2>2, <3>1, TryConnectType, TryConnectKeeps
    <3>2. ASSUME NEW d \in {"tls", "handshake"},
                 conn' = [conn EXCEPT !.endpoints = 0, !.dial = d]
          PROVE  conn' \in Connections /\ Promise(conn', Unstarted) /\ Serial(conn')
      BY <1>t, <2>2, <3>2 DEF Connections, Promise, Told, Serial
    <3> QED
      BY <1>7, <3>1, <3>2 DEF OnTcpHandshake
  <2> QED
    BY <2>1, <2>2, <2>3, ConnectionStep
<1>8. CASE OnTlsHandshake
  <2>1. conn.dial = "tls" /\ UNCHANGED outside
    BY <1>8 DEF OnTlsHandshake
  <2>2. ~Unstarted /\ conn.phase # "open"
    BY <1>t, <2>1 DEF Promise
  <2>3. conn' \in Connections /\ Promise(conn', Unstarted) /\ Serial(conn')
    <3>1. CASE conn' = [conn EXCEPT !.dial = "handshake"]
      BY <1>t, <2>2, <3>1 DEF Connections, Promise, Told, Serial
    <3>2. CASE conn' = Fail([conn EXCEPT !.dial = "none"])
      <4> DEFINE c == [conn EXCEPT !.dial = "none"]
      <4>1. c \in Connections /\ Told(c) /\ Serial(c)
        BY <1>t DEF Connections, Told, Serial
      <4> HIDE DEF c
      <4> QED
        BY <1>t, <3>2, <4>1, FailType, FailKeeps DEF c
    <3> QED
      BY <1>8, <3>1, <3>2 DEF OnTlsHandshake
  <2> QED
    BY <2>1, <2>2, <2>3, ConnectionStep
<1>9. CASE OnWsHandshake
  <2>1. conn.dial = "handshake" /\ UNCHANGED outside
    BY <1>9 DEF OnWsHandshake
  <2>2. ~Unstarted /\ conn.phase # "open"
    BY <1>t, <2>1 DEF Promise
  <2>3. PICK ok \in BOOLEAN :
            LET c == [conn EXCEPT !.dial = "none",
                                  !.stream = IF ok /\ ~conn.shutting THEN "open" ELSE @]
            IN conn' = IF ~c.listener \/ c.closing THEN c
                       ELSE IF ok THEN Opened(c) ELSE Fail(c)
    BY <1>9 DEF OnWsHandshake
  <2> DEFINE st == IF ok /\ ~conn.shutting THEN "open" ELSE conn.stream
             c == [conn EXCEPT !.dial = "none", !.stream = st]
  <2>4. conn' = IF ~c.listener \/ c.closing THEN c ELSE IF ok THEN Opened(c) ELSE Fail(c)
    BY <2>3, Zenon
  <2>5. st \in {"closed", "open", "closing"}
    BY <1>t DEF Connections
  <2> HIDE DEF st
  <2>6. /\ c \in Connections /\ Told(c) /\ Serial(c) /\ c.phase # "open"
        /\ c.dial = "none" /\ c.listener = conn.listener /\ c.closing = conn.closing
        /\ c.shutting = conn.shutting /\ c.reading = conn.reading
    BY <1>t, <2>2, <2>5 DEF Connections, Told, Serial
  <2> HIDE DEF c
  <2>7. CASE ~c.listener \/ c.closing
    <3>1. conn' = c
      BY <2>4, <2>7
    <3>2. Promise(c, Unstarted)
      <4>1. CASE ~c.listener
        BY <2>6, <4>1 DEF Promise, Told
      <4>2. CASE c.listener
        BY <1>t, <2>2, <2>6, <2>7, <4>2, Zenon DEF Promise
      <4> QED
        BY <4>1, <4>2
    <3> QED
      BY <2>1, <2>2, <2>6, <3>1, <3>2, ConnectionStep
  <2>8. CASE ~(~c.listener \/ c.closing) /\ ~ok
    <3>1. conn' = Fail(c)
      BY <2>4, <2>8
    <3>2. conn' \in Connections /\ Promise(conn', Unstarted) /\ Serial(conn')
      BY <1>t, <2>6, <3>1, FailType, FailKeeps
    <3> QED
      BY <2>1, <2>2, <3>2, ConnectionStep
  <2>9. CASE ~(~c.listener \/ c.closing) /\ ok
    <3> DEFINE d == [c EXCEPT !.phase = "open", !.reading = TRUE]
    <3>1. conn' = ScheduleHealthCheck(TrySend(d))
      BY <2>4, <2>9 DEF Opened
    <3>2. d \in Connections /\ Promise(d, Unstarted) /\ Serial(d)
      BY <2>6, <2>9 DEF Connections, Promise, Told, Serial
    <3> HIDE DEF d
    <3>3. TrySend(d) \in Connections /\ Promise(TrySend(d), Unstarted) /\ Serial(TrySend(d))
      BY <1>t, <3>2, TrySendType, TrySendKeeps
    <3>4. conn' \in Connections /\ Promise(conn', Unstarted) /\ Serial(conn')
      BY <1>t, <3>1, <3>3, ScheduleType, ScheduleKeeps
    <3> QED
      BY <2>1, <2>2, <3>4, ConnectionStep
  <2> QED
    BY <2>7, <2>8, <2>9
<1>10. CASE OnReadDone
  <2>1. conn.reading /\ conn' = Receives(conn) /\ UNCHANGED outside
    BY <1>10 DEF OnReadDone
  <2>2. CASE ~conn.listener \/ conn.closing
    <3>1. conn' = [conn EXCEPT !.reading = FALSE]
      BY <2>1, <2>2 DEF Receives
    <3>2. conn' \in Connections /\ Serial(conn')
          /\ conn'.dial = conn.dial /\ conn'.phase = conn.phase
      BY <1>t, <3>1 DEF Connections, Serial
    <3>3. Promise(conn', Unstarted)
      BY <1>t, <2>2, <3>1 DEF Connections, Promise, Told
    <3> QED
      BY <1>t, <2>1, <3>2, <3>3, ConnectionStep
  <2>3. CASE ~(~conn.listener \/ conn.closing)
    <3> DEFINE h == conn.heard + 1
               c == ScheduleHealthCheck(conn)
    <3>1. c.heard = conn.heard
      BY <1>t DEF ScheduleHealthCheck, Connections
    <3>2. conn' = [c EXCEPT !.heard = h, !.probes = 0]
      BY <2>1, <2>3, <3>1 DEF Receives
    <3>3. h \in Nat
      BY <1>t DEF Connections
    <3>4. c \in Connections /\ Promise(c, Unstarted) /\ Serial(c)
          /\ c.dial = conn.dial /\ c.phase = conn.phase
      BY <1>t, ScheduleType, ScheduleKeeps
    <3> HIDE DEF h, c
    <3>5. conn' \in Connections /\ Promise(conn', Unstarted) /\ Serial(conn')
          /\ conn'.dial = conn.dial /\ conn'.phase = conn.phase
      <4> DEFINE d == [c EXCEPT !.heard = h]
      <4>1. conn' \in Connections
        <5>1. d \in Connections
          BY <3>3, <3>4 DEF Connections
        <5>2. conn' = [d EXCEPT !.probes = 0]
          BY <3>2
        <5> HIDE DEF d
        <5> QED
          BY <5>1, <5>2 DEF Connections
      <4>2. Serial(conn') /\ conn'.dial = c.dial /\ conn'.phase = c.phase
        BY <3>2, <3>4 DEF Connections, Serial
      <4>3. Promise(conn', Unstarted)
        BY <3>2, <3>4 DEF Connections, Promise, Told
      <4> QED
        BY <3>4, <4>1, <4>2, <4>3
    <3> QED
      BY <1>t, <2>1, <3>5, ConnectionStep
  <2> QED
    BY <2>2, <2>3
<1>11. CASE OnReadError
  <2> DEFINE c == [conn EXCEPT !.reading = FALSE]
  <2>1. UNCHANGED outside /\ conn' = IF ~c.listener \/ c.closing THEN c ELSE Fail(c)
    BY <1>11 DEF OnReadError
  <2>2. c \in Connections /\ Told(c) /\ Serial(c) /\ c.dial = conn.dial /\ c.phase = conn.phase
    BY <1>t DEF Connections, Told, Serial
  <2>3. ~c.listener \/ c.closing => Promise(c, Unstarted)
    BY <1>t DEF Connections, Promise, Told
  <2> HIDE DEF c
  <2>4. conn' \in Connections /\ Promise(conn', Unstarted) /\ Serial(conn')
        /\ conn'.dial = conn.dial /\ conn'.phase \in {conn.phase, "closed"}
    BY <1>t, <2>1, <2>2, <2>3, FailType, FailKeeps
  <2> QED
    BY <1>t, <2>1, <2>4, ConnectionStep
<1>12. ASSUME OnWriteDone \/ OnWriteError PROVE IInv'
  <2>1. conn.writing > 0 /\ UNCHANGED outside
    BY <1>12 DEF OnWriteDone, OnWriteError
  <2>2. conn.sending /\ conn.writing = 1 /\ conn.queue >= 1
    BY <1>t, <2>1 DEF Serial, Connections
  <2> DEFINE w == conn.writing - 1
             q == conn.queue - 1
             c == [conn EXCEPT !.writing = w, !.queue = q, !.sending = FALSE]
  <2>3. w = 0 /\ q \in Nat
    BY <1>t, <2>2 DEF Connections
  <2>4. c = Written(conn)
    BY DEF Written
  <2> HIDE DEF w, q
  <2>5. c \in Connections /\ Promise(c, Unstarted) /\ Serial(c)
        /\ c.dial = conn.dial /\ c.phase = conn.phase
    <3>1. c \in Connections
      BY <1>t, <2>3 DEF Connections
    <3>2. c.sending = FALSE /\ c.writing = 0 /\ c.queue \in Nat
          /\ c.dial = conn.dial /\ c.phase = conn.phase
      BY <1>t, <2>3 DEF Connections
    <3>3. Promise(c, Unstarted)
      BY <1>t DEF Connections, Promise, Told
    <3>4. Serial(c)
      BY <3>2 DEF Serial
    <3> QED
      BY <3>1, <3>2, <3>3, <3>4
  <2>6. Told(c)
    BY <2>5 DEF Promise
  <2> HIDE DEF c
  <2>7. conn' = TrySend(c) \/ conn' = Fail(c)
    BY <1>12, <2>4 DEF OnWriteDone, OnWriteError
  <2>8. conn' \in Connections /\ Promise(conn', Unstarted) /\ Serial(conn')
        /\ conn'.dial = conn.dial /\ conn'.phase \in {conn.phase, "closed"}
    BY <1>t, <2>5, <2>6, <2>7, TrySendType, TrySendKeeps, FailType, FailKeeps
  <2> QED
    BY <1>t, <2>1, <2>8, ConnectionStep
<1>13. CASE OnClosed
  <2> DEFINE c == [conn EXCEPT !.shutting = FALSE, !.stream = "closed"]
  <2>1. conn' = Detach(c) /\ UNCHANGED outside
    BY <1>13 DEF OnClosed
  <2>2. c \in Connections /\ Told(c) /\ Serial(c) /\ c.dial = conn.dial
    BY <1>t DEF Connections, Told, Serial
  <2> HIDE DEF c
  <2>3. conn' \in Connections /\ Promise(conn', Unstarted) /\ Serial(conn')
        /\ conn'.dial = conn.dial /\ conn'.phase = "closed"
    BY <1>t, <2>1, <2>2, DetachType, DetachKeeps
  <2> QED
    BY <1>t, <2>1, <2>3, ConnectionStep
<1>14. CASE TimerExpires
  <2>1. conn' = [conn EXCEPT !.timer = {"expired"}] /\ UNCHANGED outside
    BY <1>14 DEF TimerExpires
  <2>2. conn' \in Connections /\ Promise(conn', Unstarted) /\ Serial(conn')
        /\ conn'.dial = conn.dial /\ conn'.phase = conn.phase
    BY <1>t, <2>1 DEF Connections, Promise, Told, Serial
  <2> QED
    BY <1>t, <2>1, <2>2, ConnectionStep
<1>15. CASE OnHealthCheck
  <2> DEFINE t == conn.timer \ {"expired"}
             c == [conn EXCEPT !.timer = t]
  <2>1. conn' = (IF c.closing THEN c ELSE Probe(c)) /\ UNCHANGED outside
    BY <1>15 DEF OnHealthCheck
  <2>2. t \in SUBSET {"armed", "expired"}
    BY <1>t DEF Connections
  <2> HIDE DEF t
  <2>3. c \in Connections /\ Promise(c, Unstarted) /\ Serial(c) /\ Told(c)
        /\ c.dial = conn.dial /\ c.phase = conn.phase
    BY <1>t, <2>2 DEF Connections, Promise, Told, Serial
  <2> HIDE DEF c
  <2>4. CASE conn' = c
    BY <1>t, <2>1, <2>3, <2>4, ConnectionStep
  <2>5. CASE conn' = Fail(c)
    BY <1>t, <2>1, <2>3, <2>5, FailType, FailKeeps, ConnectionStep
  <2>6. CASE c.probes # 3 /\ conn' = ScheduleHealthCheck([c EXCEPT !.probes = c.probes + 1])
    <3> DEFINE p == c.probes + 1
               d == [c EXCEPT !.probes = p]
    <3>1. p \in 0 .. 3
      BY <2>3, <2>6 DEF Connections
    <3> HIDE DEF p
    <3>2. d \in Connections /\ Promise(d, Unstarted) /\ Serial(d)
          /\ d.dial = conn.dial /\ d.phase = conn.phase
      BY <2>3, <3>1 DEF Connections, Promise, Told, Serial
    <3>3. conn' = ScheduleHealthCheck(d)
      BY <2>6 DEF p
    <3> HIDE DEF d
    <3>4. conn' \in Connections /\ Promise(conn', Unstarted) /\ Serial(conn')
          /\ conn'.dial = conn.dial /\ conn'.phase = conn.phase
      BY <1>t, <3>2, <3>3, ScheduleType, ScheduleKeeps
    <3> QED
      BY <1>t, <2>1, <3>4, ConnectionStep
  <2> QED
    BY <2>1, <2>4, <2>5, <2>6 DEF Probe
<1>16. CASE OnControlFrame
  <2> DEFINE c == [conn EXCEPT !.probes = 0]
  <2>1. conn' = ScheduleHealthCheck(c) /\ UNCHANGED outside
    BY <1>16 DEF OnControlFrame
  <2>2. c \in Connections /\ Promise(c, Unstarted) /\ Serial(c)
        /\ c.dial = conn.dial /\ c.phase = conn.phase
    BY <1>t DEF Connections, Promise, Told, Serial
  <2> HIDE DEF c
  <2>3. conn' \in Connections /\ Promise(conn', Unstarted) /\ Serial(conn')
        /\ conn'.dial = conn.dial /\ conn'.phase = conn.phase
    BY <1>t, <2>1, <2>2, ScheduleType, ScheduleKeeps
  <2> QED
    BY <1>t, <2>1, <2>3, ConnectionStep
<1>17. CASE PeerLeaves
  <2>1. conn' = [conn EXCEPT !.stream = "closed"] /\ UNCHANGED outside
    BY <1>17 DEF PeerLeaves
  <2>2. conn' \in Connections /\ Promise(conn', Unstarted) /\ Serial(conn')
        /\ conn'.dial = conn.dial /\ conn'.phase = conn.phase
    BY <1>t, <2>1 DEF Connections, Promise, Told, Serial
  <2> QED
    BY <1>t, <2>1, <2>2, ConnectionStep
<1>18. ASSUME PeerDisappears \/ UNCHANGED vars PROVE IInv'
  <2>1. UNCHANGED <<conn, posted, secure, sends, closes>> /\ silent' \in BOOLEAN
    BY <1>18 DEF PeerDisappears, vars, IInv, TypeOK
  <2> QED
    BY <2>1 DEF IInv, TypeOK, Promise, Told, Serial, RunIsFirst, Unstarted
<1> QED
  BY <1>1, <1>2, <1>3, <1>4, <1>5, <1>6, <1>7, <1>8, <1>9, <1>10, <1>11, <1>12, <1>13,
     <1>14, <1>15, <1>16, <1>17, <1>18 DEF Next, Dial

--------------------------------------------------------------------------------
(* The theorems *)

THEOREM Invariance == Spec => []IInv
BY InitIInv, NextIInv, PTL DEF Spec

\* Every field keeps its type, and no more than three probes go unanswered.
THEOREM TypeCorrect == Spec => []TypeOK
<1>1. IInv => TypeOK
  BY DEF IInv
<1> QED
  BY <1>1, Invariance, PTL

\* However close(), failures, timers and completions interleave, a connection that
\* has not told its listener of a close has an operation pending that ends in one.
THEOREM AliveHasOperationHolds == Spec => []AliveHasOperation
<1>1. IInv => AliveHasOperation
  BY DEF IInv, Promise, Unstarted, AliveHasOperation
<1> QED
  BY <1>1, Invariance, PTL

\* No second write is started while one is pending, and onWriteDone() finds its
\* message in the queue.
THEOREM WritesAreSerialHolds == Spec => []WritesAreSerial
<1>1. IInv => WritesAreSerial
  BY DEF IInv, TypeOK, Connections, Serial, WritesAreSerial
<1> QED
  BY <1>1, Invariance, PTL

--------------------------------------------------------------------------------
(* The refinement *)

\* From c to d the listener is told nothing, or of the close.
Hushed(c, d) == d.heard = c.heard /\ d.phase \in {c.phase, "closed"}

LEMMA FailHushes == ASSUME NEW c \in Connections PROVE Hushed(c, Fail(c))
<1>1. \A d \in Connections : Hushed(d, Detach(d))
  BY DEF Hushed, Detach, Connections
<1>2. CloseImpl(c).heard = c.heard /\ CloseImpl(c).phase = c.phase
  <2>1. CASE c.closing
    BY <2>1 DEF CloseImpl
  <2>2. CASE ~c.closing
    BY <2>2 DEF CloseImpl, Connections
  <2> QED
    BY <2>1, <2>2
<1>3. CASE c.stream = "open"
  BY <1>1, <1>2, <1>3, CloseImplType DEF Fail, Hushed
<1>4. CASE c.stream # "open"
  BY <1>1, <1>4 DEF Fail
<1> QED
  BY <1>3, <1>4

LEMMA TrySendHushes ==
    ASSUME NEW c \in Connections
    PROVE  TrySend(c).heard = c.heard /\ TrySend(c).phase = c.phase
<1> DEFINE w == c.writing + 1
<1> HIDE DEF w
<1>1. TrySend(c) \in {c, [c EXCEPT !.sending = TRUE, !.writing = w]}
  BY Zenon DEF TrySend, w
<1> QED
  BY <1>1 DEF Connections

LEMMA ScheduleHushes ==
    ASSUME NEW c \in Connections
    PROVE  /\ ScheduleHealthCheck(c).heard = c.heard
           /\ ScheduleHealthCheck(c).phase = c.phase
           /\ ScheduleHealthCheck(c).probes = c.probes
BY DEF ScheduleHealthCheck, Connections

LEMMA TryConnectHushes == ASSUME NEW c \in Connections PROVE Hushed(c, TryConnect(c))
<1>1. CASE c.endpoints = 0
  <2> DEFINE d == [c EXCEPT !.dial = "none"]
  <2>1. d \in Connections /\ d.heard = c.heard /\ d.phase = c.phase
    BY DEF Connections
  <2>2. TryConnect(c) = Fail(d)
    BY <1>1 DEF TryConnect
  <2> HIDE DEF d
  <2> QED
    BY <2>1, <2>2, FailHushes DEF Hushed
<1>2. CASE c.endpoints # 0
  <2> DEFINE n == c.endpoints - 1
  <2> HIDE DEF n
  <2>1. TryConnect(c) = [c EXCEPT !.dial = "connect", !.endpoints = n]
    BY <1>2, Zenon DEF TryConnect, n
  <2> QED
    BY <2>1 DEF Hushed, Connections
<1> QED
  BY <1>1, <1>2

\* A step of the connection is an open, a message, a close or nothing to the listener.
LEMMA StepRefines ==
    IInv /\ [Next]_vars => [Listener!Next]_<<conn.phase, conn.heard>>
<1> SUFFICES ASSUME IInv, [Next]_vars
             PROVE  [Listener!Next]_<<conn.phase, conn.heard>>
  OBVIOUS
<1>t. /\ conn \in Connections /\ Promise(conn, Unstarted) /\ Told(conn)
      /\ conn.phase \in {"idle", "open", "closed"}
  BY DEF IInv, TypeOK, Promise, Connections
<1>h. Hushed(conn, conn') => [Listener!Next]_<<conn.phase, conn.heard>>
  BY DEF Hushed, Listener!Next, Listener!Close
<1>1. CASE UNCHANGED conn
  BY <1>1
<1>2. CASE RunSend
  <2> DEFINE n == conn.queue + 1
             c == [conn EXCEPT !.queue = n]
  <2>1. n \in Nat
    BY <1>t DEF Connections
  <2>2. conn' = TrySend(c)
    BY <1>2 DEF RunSend
  <2> HIDE DEF n
  <2>3. c \in Connections /\ c.heard = conn.heard /\ c.phase = conn.phase
    BY <1>t, <2>1 DEF Connections
  <2> HIDE DEF c
  <2> QED
    BY <1>h, <2>2, <2>3, TrySendHushes DEF Hushed
<1>3. CASE RunClose
  <2>1. CASE conn.closing
    BY <1>3, <1>1, <2>1 DEF RunClose, CloseImpl
  <2>2. CASE ~conn.closing
    <3>1. conn'.heard = conn.heard /\ conn'.phase = conn.phase
      BY <1>t, <1>3, <2>2 DEF RunClose, CloseImpl, Connections
    <3> QED
      BY <3>1
  <2> QED
    BY <2>1, <2>2
<1>4. CASE Run
  <2>1. CASE conn' = [conn EXCEPT !.dial = "resolve"]
    BY <1>t, <1>h, <2>1 DEF Hushed, Connections
  <2>2. CASE conn' = Fail(conn)
    BY <1>t, <1>h, <2>2, FailHushes
  <2> QED
    BY <1>4, <2>1, <2>2 DEF Run
<1>5. CASE OnResolve
  <2>1. CASE \E n \in 0 .. MaxEndpoints : conn' = TryConnect([conn EXCEPT !.endpoints = n])
    <3>1. PICK n \in 0 .. MaxEndpoints : conn' = TryConnect([conn EXCEPT !.endpoints = n])
      BY <2>1
    <3> DEFINE c == [conn EXCEPT !.endpoints = n]
    <3>2. c \in Connections /\ c.heard = conn.heard /\ c.phase = conn.phase
      BY <1>t, WsBounds DEF Connections
    <3>3. conn' = TryConnect(c)
      BY <3>1
    <3> HIDE DEF c
    <3> QED
      BY <1>h, <3>2, <3>3, TryConnectHushes DEF Hushed
  <2>2. CASE conn' = Fail([conn EXCEPT !.dial = "none"])
    <3> DEFINE c == [conn EXCEPT !.dial = "none"]
    <3>1. c \in Connections /\ c.heard = conn.heard /\ c.phase = conn.phase /\ conn' = Fail(c)
      BY <1>t, <2>2 DEF Connections
    <3> HIDE DEF c
    <3> QED
      BY <1>h, <3>1, FailHushes DEF Hushed
  <2> QED
    BY <1>5, <2>1, <2>2 DEF OnResolve
<1>6. CASE OnTcpHandshake
  <2>1. CASE conn' = TryConnect(conn)
    BY <1>t, <1>h, <2>1, TryConnectHushes
  <2>2. ASSUME NEW d, conn' = [conn EXCEPT !.endpoints = 0, !.dial = d]
        PROVE  Hushed(conn, conn')
    BY <1>t, <2>2 DEF Hushed, Connections
  <2> QED
    BY <1>6, <1>h, <2>1, <2>2 DEF OnTcpHandshake
<1>7. CASE OnTlsHandshake
  <2>1. CASE conn' = [conn EXCEPT !.dial = "handshake"]
    BY <1>t, <1>h, <2>1 DEF Hushed, Connections
  <2>2. CASE conn' = Fail([conn EXCEPT !.dial = "none"])
    <3> DEFINE c == [conn EXCEPT !.dial = "none"]
    <3>1. c \in Connections /\ c.heard = conn.heard /\ c.phase = conn.phase /\ conn' = Fail(c)
      BY <1>t, <2>2 DEF Connections
    <3> HIDE DEF c
    <3> QED
      BY <1>h, <3>1, FailHushes DEF Hushed
  <2> QED
    BY <1>7, <2>1, <2>2 DEF OnTlsHandshake
<1>8. CASE OnWsHandshake
  <2>1. conn.dial = "handshake"
    BY <1>8 DEF OnWsHandshake
  <2>2. PICK ok \in BOOLEAN :
            LET c == [conn EXCEPT !.dial = "none",
                                  !.stream = IF ok /\ ~conn.shutting THEN "open" ELSE @]
            IN conn' = IF ~c.listener \/ c.closing THEN c
                       ELSE IF ok THEN Opened(c) ELSE Fail(c)
    BY <1>8 DEF OnWsHandshake
  <2> DEFINE st == IF ok /\ ~conn.shutting THEN "open" ELSE conn.stream
             c == [conn EXCEPT !.dial = "none", !.stream = st]
             d == [c EXCEPT !.phase = "open", !.reading = TRUE]
  <2>3. conn' = IF ~c.listener \/ c.closing THEN c ELSE IF ok THEN Opened(c) ELSE Fail(c)
    BY <2>2, Zenon
  <2>4. Opened(c) = ScheduleHealthCheck(TrySend(d))
    BY DEF Opened
  <2>5. st \in {"closed", "open", "closing"}
    BY <1>t DEF Connections
  <2> HIDE DEF st
  <2>6. /\ c \in Connections /\ c.heard = conn.heard /\ c.phase = conn.phase
        /\ c.listener = conn.listener
    BY <1>t, <2>5 DEF Connections
  <2>7. d \in Connections /\ d.heard = conn.heard /\ d.phase = "open"
    BY <2>6 DEF Connections
  <2> HIDE DEF c, d
  <2>8. CASE conn' = c \/ conn' = Fail(c)
    BY <1>h, <2>6, <2>8, FailHushes DEF Hushed
  <2>9. CASE c.listener /\ conn' = Opened(c)
    <3>1. conn.phase = "idle"
      BY <1>t, <2>1, <2>6, <2>9 DEF Promise, Told
    <3>2. TrySend(d) \in Connections /\ TrySend(d).heard = conn.heard /\ TrySend(d).phase = "open"
      BY <2>7, TrySendType, TrySendHushes
    <3>3. conn'.heard = conn.heard /\ conn'.phase = "open"
      BY <2>4, <2>9, <3>2, ScheduleHushes
    <3> QED
      BY <3>1, <3>3 DEF Listener!Next, Listener!Open
  <2> QED
    BY <2>3, <2>8, <2>9
<1>9. CASE OnReadDone
  <2>1. conn.reading /\ conn' = Receives(conn)
    BY <1>9 DEF OnReadDone
  <2>2. CASE ~conn.listener \/ conn.closing
    <3>1. conn' = [conn EXCEPT !.reading = FALSE]
      BY <2>1, <2>2 DEF Receives
    <3> QED
      BY <1>t, <1>h, <3>1 DEF Hushed, Connections
  <2>3. CASE ~(~conn.listener \/ conn.closing)
    <3> DEFINE h == conn.heard + 1
               c == ScheduleHealthCheck(conn)
    <3>1. c \in Connections /\ c.heard = conn.heard /\ c.phase = conn.phase
      BY <1>t, ScheduleType, ScheduleHushes
    <3>2. conn' = [c EXCEPT !.heard = h, !.probes = 0]
      BY <2>1, <2>3, <3>1 DEF Receives
    <3> HIDE DEF h, c
    <3>3. conn'.heard = h /\ conn'.phase = conn.phase
      BY <3>1, <3>2 DEF Connections
    <3>4. conn.phase = "open"
      BY <1>t, <2>1, <2>3 DEF Promise
    <3> QED
      BY <3>3, <3>4 DEF h, Listener!Next, Listener!Message
  <2> QED
    BY <2>2, <2>3
<1>10. CASE OnReadError
  <2> DEFINE c == [conn EXCEPT !.reading = FALSE]
  <2>1. conn' = c \/ conn' = Fail(c)
    BY <1>10 DEF OnReadError
  <2>2. c \in Connections /\ c.heard = conn.heard /\ c.phase = conn.phase
    BY <1>t DEF Connections
  <2> HIDE DEF c
  <2> QED
    BY <1>h, <2>1, <2>2, FailHushes DEF Hushed
<1>11. CASE OnWriteDone \/ OnWriteError
  <2> DEFINE c == Written(conn)
  <2>1. conn' = TrySend(c) \/ conn' = Fail(c)
    BY <1>11 DEF OnWriteDone, OnWriteError
  <2>2. conn.writing = 1 /\ conn.queue >= 1
    BY <1>t, <1>11 DEF OnWriteDone, OnWriteError, IInv, Serial, Connections
  <2> DEFINE w == conn.writing - 1
             q == conn.queue - 1
  <2>3. w \in Nat /\ q \in Nat /\ c = [conn EXCEPT !.writing = w, !.queue = q, !.sending = FALSE]
    BY <1>t, <2>2 DEF Written, Connections
  <2> HIDE DEF c, w, q
  <2>4. c \in Connections /\ c.heard = conn.heard /\ c.phase = conn.phase
    BY <1>t, <2>3 DEF Connections
  <2> QED
    BY <1>h, <2>1, <2>4, FailHushes, TrySendHushes DEF Hushed
<1>12. CASE OnClosed
  <2> DEFINE c == [conn EXCEPT !.shutting = FALSE, !.stream = "closed"]
  <2>1. conn' = Detach(c)
    BY <1>12 DEF OnClosed
  <2>2. c \in Connections /\ c.heard = conn.heard /\ c.phase = conn.phase
    BY <1>t DEF Connections
  <2> HIDE DEF c
  <2>3. conn'.heard = c.heard /\ conn'.phase \in {c.phase, "closed"}
    BY <2>1, <2>2 DEF Detach, Connections
  <2> QED
    BY <1>h, <2>2, <2>3 DEF Hushed
<1>13. CASE OnHealthCheck
  <2> DEFINE t == conn.timer \ {"expired"}
             c == [conn EXCEPT !.timer = t]
  <2>1. conn' = IF c.closing THEN c ELSE Probe(c)
    BY <1>13 DEF OnHealthCheck
  <2>2. t \in SUBSET {"armed", "expired"}
    BY <1>t DEF Connections
  <2> HIDE DEF t
  <2>3. c \in Connections /\ c.heard = conn.heard /\ c.phase = conn.phase
    BY <1>t, <2>2 DEF Connections
  <2> HIDE DEF c
  <2>4. CASE conn' = c \/ conn' = Fail(c)
    BY <1>h, <2>3, <2>4, FailHushes DEF Hushed
  <2>5. CASE c.probes # 3 /\ conn' = ScheduleHealthCheck([c EXCEPT !.probes = c.probes + 1])
    <3> DEFINE p == c.probes + 1
               d == [c EXCEPT !.probes = p]
    <3>1. p \in 0 .. 3
      BY <2>3, <2>5 DEF Connections
    <3> HIDE DEF p
    <3>2. d \in Connections /\ d.heard = conn.heard /\ d.phase = conn.phase
      BY <2>3, <3>1 DEF Connections
    <3>3. conn' = ScheduleHealthCheck(d)
      BY <2>5 DEF p
    <3> HIDE DEF d
    <3> QED
      BY <1>h, <3>2, <3>3, ScheduleHushes DEF Hushed
  <2> QED
    BY <2>1, <2>4, <2>5 DEF Probe
<1>14. CASE OnControlFrame
  <2> DEFINE c == [conn EXCEPT !.probes = 0]
  <2>1. c \in Connections /\ c.heard = conn.heard /\ c.phase = conn.phase
    BY <1>t DEF Connections
  <2>2. conn' = ScheduleHealthCheck(c)
    BY <1>14 DEF OnControlFrame
  <2> HIDE DEF c
  <2> QED
    BY <1>h, <2>1, <2>2, ScheduleHushes DEF Hushed
<1>15. CASE TimerExpires
  BY <1>t, <1>h, <1>15 DEF TimerExpires, Hushed, Connections
<1>16. CASE PeerLeaves
  BY <1>t, <1>h, <1>16 DEF PeerLeaves, Hushed, Connections
<1>17. CASE Send \/ Close \/ PeerDisappears \/ UNCHANGED vars
  BY <1>1, <1>17 DEF Send, Close, PeerDisappears, vars
<1> QED
  BY <1>2, <1>3, <1>4, <1>5, <1>6, <1>7, <1>8, <1>9, <1>10, <1>11, <1>12, <1>13, <1>14,
     <1>15, <1>16, <1>17 DEF Next, Dial

\* Every behaviour of a connection is one WsListener allows: the listener hears one
\* open at most, messages only between open and close, and one close at most.
THEOREM ContractHolds == Spec => ListenerContract
<1>1. Init => Listener!Init
  BY DEF Init, Listener!Init
<1>2. IInv /\ [Next]_vars => [Listener!Next]_<<conn.phase, conn.heard>>
  BY StepRefines
<1> QED
  BY <1>1, <1>2, Invariance, PTL DEF Spec, ListenerContract, Listener!Spec
================================================================================
