---------------------------- MODULE TwitchIrcProofs ----------------------------
(***************************************************************************)
(* Theorems about TwitchIrc for every set of channels and accounts, every  *)
(* budget and every value of the bounds.                                   *)
(***************************************************************************)
EXTENDS TwitchIrc, FiniteSetTheorems, SequenceTheorems, TLAPS

--------------------------------------------------------------------------------
(* Sequences and sets *)

LEMMA ToSetConcat ==
    ASSUME NEW S, NEW s \in Seq(S), NEW t \in Seq(S)
    PROVE  ToSet(s \o t) = ToSet(s) \cup ToSet(t)
<1> DEFINE u == s \o t
<1>1. /\ DOMAIN s = 1 .. Len(s) /\ Len(s) \in Nat
      /\ DOMAIN t = 1 .. Len(t) /\ Len(t) \in Nat
      /\ DOMAIN u = 1 .. Len(s) + Len(t)
  BY ConcatProperties, LenProperties
<1>2. \A i \in 1 .. Len(s) + Len(t) : u[i] = IF i <= Len(s) THEN s[i] ELSE t[i - Len(s)]
  BY ConcatProperties
<1>3. ASSUME NEW i \in DOMAIN s PROVE i \in DOMAIN u /\ u[i] = s[i]
  BY <1>1, <1>2
<1>4. ASSUME NEW i \in DOMAIN t PROVE i + Len(s) \in DOMAIN u /\ u[i + Len(s)] = t[i]
  BY <1>1, <1>2
<1>5. ASSUME NEW i \in DOMAIN u PROVE u[i] \in ToSet(s) \cup ToSet(t)
  <2>1. CASE i <= Len(s)
    BY <1>1, <1>2, <2>1 DEF ToSet
  <2>2. CASE ~(i <= Len(s))
    <3>1. i - Len(s) \in DOMAIN t
      BY <1>1, <2>2
    <3> QED
      BY <1>1, <1>2, <2>2, <3>1 DEF ToSet
  <2> QED
    BY <2>1, <2>2
<1> HIDE DEF u
<1>6. ToSet(u) = ToSet(s) \cup ToSet(t)
  BY <1>3, <1>4, <1>5 DEF ToSet
<1> QED
  BY <1>6 DEF u

LEMMA ToSetSplit ==
    ASSUME NEW S, NEW s \in Seq(S), NEW k \in 0 .. Len(s)
    PROVE  /\ SubSeq(s, 1, k) \in Seq(S) /\ Len(SubSeq(s, 1, k)) = k
           /\ SubSeq(s, k + 1, Len(s)) \in Seq(S)
           /\ Len(SubSeq(s, k + 1, Len(s))) = Len(s) - k
           /\ ToSet(s) = ToSet(SubSeq(s, 1, k)) \cup ToSet(SubSeq(s, k + 1, Len(s)))
<1> DEFINE p == SubSeq(s, 1, k)
           q == SubSeq(s, k + 1, Len(s))
<1>1. Len(s) \in Nat /\ DOMAIN s = 1 .. Len(s) /\ \A i \in 1 .. Len(s) : s[i] \in S
  BY LenProperties, ElementOfSeq
<1>2. p \in Seq(S) /\ Len(p) = k /\ \A i \in 1 .. k : p[i] = s[i]
  <2>1. \A i \in 1 .. k : s[i] \in S
    BY <1>1
  <2> QED
    BY <1>1, <2>1, SubSeqProperties
<1>3. q \in Seq(S) /\ Len(q) = Len(s) - k /\ \A i \in 1 .. Len(s) - k : q[i] = s[i + k]
  <2>1. \A i \in k + 1 .. Len(s) : s[i] \in S
    BY <1>1
  <2>2. /\ q \in Seq(S)
        /\ Len(q) = IF k + 1 <= Len(s) THEN Len(s) - (k + 1) + 1 ELSE 0
        /\ \A i \in 1 .. Len(s) - (k + 1) + 1 : q[i] = s[k + 1 + i - 1]
    BY <1>1, <2>1, SubSeqProperties
  <2>3. \A i \in 1 .. Len(s) - k : q[i] = s[i + k]
    <3>1. \A i \in 1 .. Len(s) - k : i \in 1 .. Len(s) - (k + 1) + 1 /\ k + 1 + i - 1 = i + k
      BY <1>1
    <3> QED
      BY <2>2, <3>1
  <2>4. Len(q) = Len(s) - k
    <3>1. CASE k + 1 <= Len(s)
      BY <1>1, <2>2, <3>1
    <3>2. CASE ~(k + 1 <= Len(s))
      <4> DEFINE l == Len(s)
      <4>1. l \in Nat /\ k \in 0 .. l /\ ~(k + 1 <= l)
        BY <1>1, <3>2
      <4> HIDE DEF l
      <4>2. l - k = 0
        BY <4>1
      <4>3. Len(s) - k = 0
        BY <4>2 DEF l
      <4>4. Len(q) = 0
        BY <2>2, <3>2
      <4> QED
        BY <4>3, <4>4
    <3> QED
      BY <3>1, <3>2
  <2> QED
    BY <2>2, <2>3, <2>4
<1>4. DOMAIN p = 1 .. k /\ DOMAIN q = 1 .. Len(s) - k
  BY <1>2, <1>3, LenProperties
<1>5. \A i \in 1 .. Len(s) : i \in 1 .. k \/ (i - k \in 1 .. Len(s) - k /\ (i - k) + k = i)
  BY <1>1
<1>6. \A i \in 1 .. Len(s) - k : i + k \in 1 .. Len(s)
  BY <1>1
<1>7. \A i \in 1 .. k : i \in 1 .. Len(s)
  BY <1>1
<1> HIDE DEF p, q
<1>8. ASSUME NEW x \in ToSet(s) PROVE x \in ToSet(p) \cup ToSet(q)
  <2>1. PICK i \in 1 .. Len(s) : x = s[i]
    BY <1>1 DEF ToSet
  <2>2. CASE i \in 1 .. k
    BY <1>2, <1>4, <2>1, <2>2 DEF ToSet
  <2>3. CASE i - k \in 1 .. Len(s) - k /\ (i - k) + k = i
    <3>1. q[i - k] = s[i] /\ i - k \in DOMAIN q
      BY <1>3, <1>4, <2>3
    <3> QED
      BY <2>1, <3>1 DEF ToSet
  <2> QED
    BY <1>5, <2>2, <2>3
<1>9. ASSUME NEW x \in ToSet(p) \cup ToSet(q) PROVE x \in ToSet(s)
  <2>1. CASE x \in ToSet(p)
    <3>1. PICK i \in 1 .. k : x = p[i]
      BY <1>4, <2>1 DEF ToSet
    <3>2. x = s[i] /\ i \in DOMAIN s
      BY <1>1, <1>2, <1>7, <3>1
    <3> QED
      BY <3>2 DEF ToSet
  <2>2. CASE x \in ToSet(q)
    <3>1. PICK i \in 1 .. Len(s) - k : x = q[i]
      BY <1>4, <2>2 DEF ToSet
    <3>2. x = s[i + k] /\ i + k \in DOMAIN s
      BY <1>1, <1>3, <1>6, <3>1
    <3> QED
      BY <3>2 DEF ToSet
  <2> QED
    BY <2>1, <2>2
<1>10. ToSet(s) = ToSet(p) \cup ToSet(q)
  BY <1>8, <1>9
<1> QED
  BY <1>2, <1>3, <1>10 DEF p, q

LEMMA ToSetTail ==
    ASSUME NEW S, NEW s \in Seq(S), s # <<>>
    PROVE  ToSet(s) = {Head(s)} \cup ToSet(Tail(s)) /\ Tail(s) \in Seq(S) /\ Head(s) \in S
<1> DEFINE t == Tail(s)
<1>1. /\ Head(s) \in S /\ t \in Seq(S) /\ Len(t) = Len(s) - 1
      /\ \A i \in 1 .. Len(t) : t[i] = s[i + 1]
  BY HeadTailProperties
<1>2. /\ Len(s) \in Nat /\ DOMAIN s = 1 .. Len(s) /\ DOMAIN t = 1 .. Len(t) /\ Len(s) # 0
      /\ Head(s) = s[1]
  BY <1>1, LenProperties, EmptySeq
<1>3. \A i \in 1 .. Len(s) : i = 1 \/ (i - 1 \in 1 .. Len(t) /\ t[i - 1] = s[i])
  <2>1. \A i \in 1 .. Len(s) : i = 1 \/ (i - 1 \in 1 .. Len(t) /\ (i - 1) + 1 = i)
    BY <1>1, <1>2
  <2> QED
    BY <1>1, <2>1
<1>4. 1 \in DOMAIN s /\ \A i \in 1 .. Len(t) : i + 1 \in 1 .. Len(s)
  BY <1>1, <1>2
<1> HIDE DEF t
<1>5. ToSet(s) = {s[1]} \cup ToSet(t)
  <2>1. ASSUME NEW x \in ToSet(s) PROVE x \in {s[1]} \cup ToSet(t)
    <3>1. PICK i \in 1 .. Len(s) : x = s[i]
      BY <1>2 DEF ToSet
    <3>2. CASE i = 1
      BY <3>1, <3>2
    <3>3. CASE i - 1 \in 1 .. Len(t) /\ t[i - 1] = s[i]
      BY <1>2, <3>1, <3>3 DEF ToSet
    <3> QED
      BY <1>3, <3>2, <3>3
  <2>2. ASSUME NEW x \in {s[1]} \cup ToSet(t) PROVE x \in ToSet(s)
    BY <1>1, <1>2, <1>4, <2>2 DEF ToSet
  <2> QED
    BY <2>1, <2>2
<1> QED
  BY <1>1, <1>2, <1>5 DEF t

LEMMA ToSetIn == ASSUME NEW S, NEW s \in Seq(S) PROVE ToSet(s) \in SUBSET S
BY LenProperties, ElementOfSeq DEF ToSet

LEMMA OneLess ==
    ASSUME NEW S, NEW f \in [S -> Nat], NEW x \in S, NEW g,
           g = f \/ (f[x] > 0 /\ g = [f EXCEPT ![x] = @ - 1])
    PROVE  g \in [S -> Nat]
<1>1. CASE g = f
  BY <1>1
<1>2. CASE f[x] > 0 /\ g = [f EXCEPT ![x] = @ - 1]
  <2>1. f[x] - 1 \in Nat
    BY <1>2
  <2> QED
    BY <1>2, <2>1
<1> QED
  BY <1>1, <1>2

\* A sequence of SetToSeqs(S) has the elements of S.
LEMMA ToSetOfSetToSeqs ==
    ASSUME NEW S, IsFiniteSet(S), NEW f \in SetToSeqs(S)
    PROVE  f \in Seq(S) /\ ToSet(f) = S
<1> DEFINE n == Cardinality(S)
           D == 1 .. n
<1>1. n \in Nat
  BY FS_CardinalityType
<1>2. f \in [D -> S] /\ \A i, j \in D : i # j => f[i] # f[j]
  BY DEF SetToSeqs
<1>3. f \in Injection(D, S)
  BY <1>2 DEF Injection, IsInjective
<1>4. IsFiniteSet(D) /\ Cardinality(D) = n
  BY <1>1, FS_Interval
<1>5. f \in Surjection(D, S)
  BY <1>3, <1>4, FS_Injection
<1>6. \A x \in S : \E i \in D : f[i] = x
  BY <1>5 DEF Surjection
<1>7. f \in Seq(S)
  BY <1>1, <1>2, SeqDef
<1> QED
  BY <1>2, <1>6, <1>7 DEF ToSet

--------------------------------------------------------------------------------
(* The rate limiter *)

Buckets == [queue : Seq(Channels), budget : Nat, timers : Nat]

\* The budget that is left and the one that is to come back make up the whole, and
\* no item waits while some is left.
Spaced(b) == b.timers + b.budget = Budget /\ (b.queue # <<>> => b.budget = 0)

\* What a bucket is sent is handled at once or waits.
LEMMA SendKeepsItems ==
    ASSUME NEW b \in Buckets, NEW items \in Seq(Channels)
    PROVE  /\ AfterSend(b, items) \in Buckets
           /\ Handled(b, items) \in Seq(Channels)
           /\ ToSet(b.queue) \cup ToSet(items)
                = ToSet(Handled(b, items)) \cup ToSet(AfterSend(b, items).queue)
           /\ Spaced(b) => Spaced(AfterSend(b, items))
<1> DEFINE all == b.queue \o items
           k == Least(b.budget, Len(all))
           rest == SubSeq(all, k + 1, Len(all))
           sent == SubSeq(all, 1, k)
<1>1. b.queue \in Seq(Channels) /\ b.budget \in Nat /\ b.timers \in Nat
  BY DEF Buckets
<1>2. all \in Seq(Channels) /\ Len(all) \in Nat
  BY <1>1, ConcatProperties, LenProperties
<1>3. ToSet(all) = ToSet(b.queue) \cup ToSet(items)
  BY <1>1, ToSetConcat
<1>4. k \in 0 .. Len(all) /\ k <= b.budget /\ (k = b.budget \/ k = Len(all))
  <2> DEFINE l == Len(all)
  <2>1. l \in Nat
    BY <1>2
  <2> HIDE DEF l
  <2>2. Least(b.budget, l) \in 0 .. l /\ Least(b.budget, l) <= b.budget
        /\ (Least(b.budget, l) = b.budget \/ Least(b.budget, l) = l)
    BY <1>1, <2>1 DEF Least
  <2> QED
    BY <2>2 DEF l
<1> HIDE DEF all, k
<1>5. /\ sent \in Seq(Channels) /\ Len(sent) = k
      /\ rest \in Seq(Channels) /\ Len(rest) = Len(all) - k
      /\ ToSet(all) = ToSet(sent) \cup ToSet(rest)
  BY <1>2, <1>4, ToSetSplit
<1>6. Handled(b, items) = sent
  BY DEF Handled, all, k
<1> HIDE DEF sent, rest
<1>7. AfterSend(b, items) = [queue |-> rest, budget |-> b.budget - k, timers |-> b.timers + k]
  BY <1>5, <1>6 DEF AfterSend, all, rest
<1>8. AfterSend(b, items) \in Buckets
  <2>1. b.budget - k \in Nat /\ b.timers + k \in Nat
    BY <1>1, <1>2, <1>4
  <2> QED
    BY <1>5, <1>7, <2>1 DEF Buckets
<1>9. ASSUME Spaced(b) PROVE Spaced(AfterSend(b, items))
  <2>1. (b.timers + k) + (b.budget - k) = Budget
    BY <1>1, <1>2, <1>4, <1>9 DEF Spaced
  <2>2. ASSUME rest # <<>> PROVE b.budget - k = 0
    <3>1. Len(rest) # 0
      BY <1>5, <2>2, EmptySeq
    <3> QED
      BY <1>1, <1>2, <1>4, <1>5, <3>1
  <2> QED
    BY <1>7, <2>1, <2>2 DEF Spaced
<1>10. AfterSend(b, items).queue = rest
  BY <1>7
<1> QED
  BY <1>3, <1>5, <1>6, <1>8, <1>9, <1>10

\* A cooldown hands on the item that has waited longest.
LEMMA CooldownKeepsItems ==
    ASSUME NEW b \in Buckets, b.timers > 0
    PROVE  /\ AfterCooldown(b) \in Buckets
           /\ HandledOnCooldown(b) \in Seq(Channels)
           /\ ToSet(b.queue) = ToSet(HandledOnCooldown(b)) \cup ToSet(AfterCooldown(b).queue)
           /\ Spaced(b) => Spaced(AfterCooldown(b))
<1>1. b.queue \in Seq(Channels) /\ b.budget \in Nat /\ b.timers \in Nat
  BY DEF Buckets
<1>2. CASE b.queue = <<>>
  <2> DEFINE m == b.budget + 1
             n == b.timers - 1
  <2>1. m \in Nat /\ n \in Nat /\ n + m = b.timers + b.budget
    BY <1>1
  <2>2. AfterCooldown(b) = [b EXCEPT !.budget = m, !.timers = n] /\ HandledOnCooldown(b) = <<>>
    BY <1>2 DEF AfterCooldown, Refunded, HandledOnCooldown
  <2> HIDE DEF m, n
  <2>3. /\ AfterCooldown(b) \in Buckets /\ AfterCooldown(b).queue = b.queue
        /\ AfterCooldown(b).budget = m /\ AfterCooldown(b).timers = n
    BY <2>1, <2>2 DEF Buckets
  <2>4. ToSet(<<>>) = {}
    BY DEF ToSet
  <2> QED
    BY <1>2, <2>1, <2>2, <2>3, <2>4 DEF Spaced
<1>3. CASE b.queue # <<>>
  <2> DEFINE t == Tail(b.queue)
             h == Head(b.queue)
  <2>1. AfterCooldown(b) = [b EXCEPT !.queue = t] /\ HandledOnCooldown(b) = <<h>>
    BY <1>3 DEF AfterCooldown, HandledOnCooldown
  <2>2. t \in Seq(Channels) /\ h \in Channels /\ ToSet(b.queue) = {h} \cup ToSet(t)
    BY <1>1, <1>3, ToSetTail
  <2> HIDE DEF t, h
  <2>3. /\ AfterCooldown(b) \in Buckets /\ AfterCooldown(b).queue = t
        /\ AfterCooldown(b).budget = b.budget /\ AfterCooldown(b).timers = b.timers
    BY <2>1, <2>2 DEF Buckets
  <2>4. ToSet(<<h>>) = {h} /\ <<h>> \in Seq(Channels)
    BY <2>2 DEF ToSet
  <2> QED
    BY <1>3, <2>1, <2>2, <2>3, <2>4 DEF Spaced
<1> QED
  BY <1>2, <1>3

--------------------------------------------------------------------------------
(* A connection *)

\* A socket that is there does not expect to be lost, so its loss is signalled; a
\* connection that is opening starts with clean flags.
ConnInv ==
    /\ ConnTypeOK
    /\ \A c \in Conns : socket[c] # "unconnected" => ~expectLoss[c]
    /\ \A c \in Conns : socket[c] = "connecting" => ~waitingForPong[c]
    /\ TimeoutIsEarned

Retried(c) == socket[c] # "unconnected" \/ retry[c]

\* The steps of connections.
Opens(S) == Open(S) /\ UNCHANGED retry
Changes(c) ==
    \/ Connected(c) \/ SocketLost(c) \/ Stall(c) \/ MessageReceived(c) \/ PongReceived(c)
    \/ PingQuiet(c) \/ PingTimeout(c) \/ ReconnectTimeout(c)

LEMMA ConnInitInv == ConnInit => ConnInv
BY DEF ConnInit, ConnInv, ConnTypeOK, TimeoutIsEarned

LEMMA OpenKeeps ==
    ASSUME ConnInv, NEW S \in SUBSET Conns, Open(S), retry' \in [Conns -> BOOLEAN]
    PROVE  ConnInv' /\ \A c \in S : socket'[c] = "connecting"
<1>1. ConnTypeOK'
  BY DEF ConnInv, ConnTypeOK, Open
<1>2. \A c \in Conns :
          /\ c \in S => /\ socket'[c] = "connecting" /\ ~expectLoss'[c]
                        /\ ~waitingForPong'[c]
          /\ c \notin S => /\ socket'[c] = socket[c] /\ (expectLoss'[c] <=> expectLoss[c])
                           /\ (waitingForPong'[c] <=> waitingForPong[c])
                           /\ (recent'[c] <=> recent[c]) /\ (pinged'[c] <=> pinged[c])
  BY DEF ConnInv, ConnTypeOK, Open
<1> QED
  BY <1>1, <1>2 DEF ConnInv, TimeoutIsEarned

LEMMA ChangesKeep ==
    ASSUME ConnInv, NEW c \in Conns, Changes(c)
    PROVE  ConnInv' /\ \A d \in Conns : Retried(d) => Retried(d)'
<1> USE DEF ConnInv, ConnTypeOK, TimeoutIsEarned, Retried
<1>1. CASE Connected(c)
  BY <1>1 DEF Connected
<1>2. CASE SocketLost(c)
  BY <1>2 DEF SocketLost
<1>3. CASE Stall(c)
  BY <1>3 DEF Stall
<1>4. CASE MessageReceived(c)
  BY <1>4 DEF MessageReceived
<1>5. CASE PongReceived(c)
  BY <1>5 DEF PongReceived
<1>6. CASE PingQuiet(c)
  BY <1>6 DEF PingQuiet
<1>7. CASE PingTimeout(c)
  BY <1>7 DEF PingTimeout
<1>8. CASE ReconnectTimeout(c)
  <2>1. retry' = [retry EXCEPT ![c] = FALSE]
    BY <1>8 DEF ReconnectTimeout
  <2>2. CASE socket[c] = "connected"
    BY <1>8, <2>1, <2>2 DEF ReconnectTimeout
  <2>3. CASE socket[c] # "connected"
    <3>1. Open({c})
      BY <1>8, <2>3 DEF ReconnectTimeout
    <3>2. ConnInv' /\ socket'[c] = "connecting"
      BY <2>1, <3>1, OpenKeeps
    <3>3. \A d \in Conns : d # c => socket'[d] = socket[d] /\ (retry'[d] <=> retry[d])
      BY <2>1, <3>1 DEF Open
    <3> QED
      BY <3>2, <3>3
  <2> QED
    BY <2>2, <2>3
<1> QED
  BY <1>1, <1>2, <1>3, <1>4, <1>5, <1>6, <1>7, <1>8 DEF Changes

--------------------------------------------------------------------------------
(* The inductive invariant *)

\* A name that did not race was not opened while a PART of it was due, nor removed
\* after a callback had found it.
RacesAreKnown ==
    \A n \in Channels, c \in Conns : n \notin raced[c] =>
        /\ PartDue(c, n) => entry[n] # "live"
        /\ n \in found[c] => entry[n] # "none"

\* What is wanted of name n on connection c.
Wanted(c, n) ==
    entry[n] = "live" /\ Hears(c) /\ n \notin raced[c] /\ (c = "write" => user # Anon /\ posted = 0)
Reached(c, n) == n \in joined[c] \cup called[c] \cup found[c] \cup ToSet(bucket[c].queue)
Gone(c, n) == entry[n] = "none" /\ Hears(c) /\ ~PartDue(c, n) /\ n \notin raced[c]

\* The three together, for one name and one connection.
JoinsIn(c, n) ==
    /\ Wanted(c, n) => Reached(c, n)
    /\ Gone(c, n) => n \notin joined[c]
    /\ n \notin raced[c] =>
          /\ PartDue(c, n) => entry[n] # "live"
          /\ n \in found[c] => entry[n] # "none"

JoinsInv == OpenIsJoined /\ ClosedIsParted /\ RacesAreKnown

LEMMA JoinsInvAre == JoinsInv <=> \A n \in Channels, c \in Conns : JoinsIn(c, n)
BY DEF JoinsInv, OpenIsJoined, ClosedIsParted, RacesAreKnown, JoinsIn, Wanted, Reached, Gone

LEMMA JoinsInvAreNext ==
    ASSUME \A n \in Channels, c \in Conns : JoinsIn(c, n)'
    PROVE  JoinsInv'
BY DEF JoinsInv, OpenIsJoined, ClosedIsParted, RacesAreKnown, JoinsIn, Wanted, Reached, Gone,
       Hears, PartDue

IInv == TypeOK /\ ConnInv /\ LossIsRetried /\ JoinsInv /\ JoinsAreSpaced

\* What neither opens a channel, nor touches a connection that is heard, nor makes
\* one count that did not, keeps the channels joined.
LEMMA JoinsKept ==
    ASSUME JoinsInv, UNCHANGED <<registry, limiter, raced>>,
           \A c \in Conns : Hears(c)' =>
               /\ Hears(c) /\ joined'[c] = joined[c]
               /\ c = "write" => (user' # Anon /\ posted' = 0 => user # Anon /\ posted = 0)
    PROVE  JoinsInv'
<1>1. /\ entry' = entry /\ handler' = handler /\ called' = called /\ found' = found
      /\ bucket' = bucket /\ raced' = raced
  BY DEF registry, limiter
<1>2. \A n \in Channels, c \in Conns : PartDue(c, n)' <=> PartDue(c, n)
  BY <1>1 DEF PartDue
<1> SUFFICES ASSUME NEW n \in Channels, NEW c \in Conns PROVE JoinsIn(c, n)'
  BY JoinsInvAreNext
<1>3. JoinsIn(c, n)
  BY JoinsInvAre
<1>4. Hears(c)' => /\ Hears(c) /\ joined'[c] = joined[c]
                   /\ c = "write" => (user' # Anon /\ posted' = 0 => user # Anon /\ posted = 0)
  OBVIOUS
<1> QED
  BY <1>1, <1>2, <1>3, <1>4 DEF JoinsIn, Wanted, Reached, Gone

\* close() and open() of some connections: they are heard no more.
LEMMA ReinitializeStep ==
    ASSUME IInv, NEW S \in SUBSET Conns, Reinitialize(S)
    PROVE  /\ ConnInv' /\ ConnTypeOK' /\ UNCHANGED <<registry, limiter, raced, user>>
           /\ joined' \in [Conns -> SUBSET Channels]
           /\ \A c \in S : socket'[c] = "connecting" /\ ~Hears(c)'
           /\ \A c \in Conns \ S :
                 /\ Retried(c) => Retried(c)'
                 /\ Hears(c)' => Hears(c) /\ joined'[c] = joined[c]
<1>1. Open(S) /\ retry' = retry /\ UNCHANGED <<registry, limiter, raced, user>>
  BY DEF Reinitialize
<1>2. ConnInv' /\ \A c \in S : socket'[c] = "connecting"
  BY <1>1, OpenKeeps DEF IInv, ConnInv, ConnTypeOK
<1>3. \A c \in Conns \ S : socket'[c] = socket[c] /\ (stalled'[c] <=> stalled[c])
  BY <1>1 DEF Open
<1>4. joined' \in [Conns -> SUBSET Channels]
      /\ \A c \in Conns \ S : joined'[c] = joined[c]
  BY DEF Reinitialize, IInv, TypeOK
<1>5. \A c \in S : ~Hears(c)'
  BY <1>2 DEF Hears
<1>6. \A c \in Conns \ S : Hears(c)' => Hears(c)
  BY <1>3 DEF Hears
<1>7. \A c \in Conns \ S : Retried(c) => Retried(c)'
  BY <1>1, <1>3 DEF Retried
<1> QED
  BY <1>1, <1>2, <1>4, <1>5, <1>6, <1>7 DEF ConnInv

LEMMA InitIInv == Init => IInv
<1> SUFFICES ASSUME Init PROVE IInv
  OBVIOUS
<1>1. ConnInv
  BY ConnInitInv DEF Init
<1>2. bucket \in [Conns -> Buckets] /\ JoinsAreSpaced
  BY TwitchBounds DEF Init, NewBucket, Buckets, JoinsAreSpaced
<1>3. TypeOK
  BY <1>1, <1>2 DEF Init, TypeOK, ConnInv, Buckets
<1>4. \A c \in Conns : ~Hears(c)
  BY DEF Init, ConnInit, Hears
<1>5. JoinsInv
  BY <1>4 DEF Init, JoinsInv, OpenIsJoined, ClosedIsParted, RacesAreKnown, PartDue
<1>6. LossIsRetried
  BY DEF Init, LossIsRetried
<1> QED
  BY <1>1, <1>2, <1>3, <1>5, <1>6 DEF IInv

--------------------------------------------------------------------------------
(* Steps of the connections *)

LEMMA BrokenIInv == ASSUME IInv, NEW c \in Conns, Broken(c) PROVE IInv'
<1>1. /\ UNCHANGED <<registry, limiter, raced, account, opens, switches>> /\ breaks' = breaks + 1
      /\ \/ SocketLost(c) /\ joined' = [joined EXCEPT ![c] = {}]
         \/ Stall(c) /\ UNCHANGED joined
  BY DEF Broken
<1>2. ConnInv' /\ \A d \in Conns : Retried(d) => Retried(d)'
  BY <1>1, ChangesKeep DEF IInv, Changes
<1>3. ASSUME NEW d \in Conns, Hears(d)' PROVE Hears(d) /\ joined'[d] = joined[d]
  <2>1. TypeOK /\ ConnTypeOK
    BY DEF IInv, TypeOK
  <2>2. CASE SocketLost(c) /\ joined' = [joined EXCEPT ![c] = {}]
    <3>1. socket'[c] = "unconnected" /\ socket'[d] = "connected"
      BY <1>3, <2>1, <2>2 DEF SocketLost, ConnTypeOK, Hears
    <3>2. d # c
      BY <3>1
    <3> QED
      BY <1>3, <2>1, <2>2, <3>2 DEF SocketLost, TypeOK, ConnTypeOK, Hears
  <2>3. CASE Stall(c) /\ joined' = joined
    <3>1. stalled'[c] /\ ~stalled'[d]
      BY <1>3, <2>1, <2>3, Zenon DEF Stall, ConnTypeOK, Hears
    <3>2. d # c
      BY <3>1
    <3>3. stalled'[d] = stalled[d] /\ socket' = socket
      BY <2>1, <2>3, <3>2, Zenon DEF Stall, ConnTypeOK
    <3> QED
      BY <1>3, <2>3, <3>3 DEF Hears
  <2> QED
    BY <1>1, <2>2, <2>3
<1>4. TypeOK'
  <2>1. joined \in [Conns -> SUBSET Channels] /\ breaks \in Nat
    BY DEF IInv, TypeOK
  <2>2. joined' = [joined EXCEPT ![c] = {}] \/ joined' = joined
    BY <1>1
  <2>3. joined' \in [Conns -> SUBSET Channels] /\ breaks' \in Nat
    BY <1>1, <2>1, <2>2
  <2> QED
    BY <1>1, <1>2, <2>3 DEF IInv, TypeOK, ConnInv, registry, limiter, account
<1>5. LossIsRetried'
  BY <1>1, <1>2 DEF IInv, LossIsRetried, Retried, account
<1>6. JoinsInv'
  BY <1>1, <1>3, JoinsKept DEF IInv, account
<1>7. JoinsAreSpaced'
  BY <1>1 DEF IInv, JoinsAreSpaced, limiter
<1> QED
  BY <1>2, <1>4, <1>5, <1>6, <1>7 DEF IInv

LEMMA ReceivedIInv == ASSUME IInv, NEW c \in Conns, Received(c) \/ Retry(c) PROVE IInv'
<1>1. /\ UNCHANGED <<registry, limiter, joined, raced, account, bounds>>
      /\ MessageReceived(c) \/ PongReceived(c) \/ ReconnectTimeout(c)
  BY DEF Received, Retry
<1>2. ConnInv' /\ \A d \in Conns : Retried(d) => Retried(d)'
  BY <1>1, ChangesKeep DEF IInv, Changes
<1>3. \A d \in Conns : Hears(d)' => Hears(d)
  <2>1. CASE MessageReceived(c) \/ PongReceived(c)
    BY <2>1 DEF MessageReceived, PongReceived, Hears
  <2>2. CASE ReconnectTimeout(c)
    <3>1. CASE socket[c] = "connected"
      BY <2>2, <3>1 DEF ReconnectTimeout, Hears
    <3>2. CASE socket[c] # "connected"
      <4>1. \A d \in Conns : /\ socket'[d] = IF d \in {c} THEN "connecting" ELSE socket[d]
                             /\ stalled'[d] = (d \notin {c} /\ stalled[d])
        BY <2>2, <3>2, Zenon DEF ReconnectTimeout, Open
      <4> QED
        BY <4>1 DEF Hears
    <3> QED
      BY <3>1, <3>2
  <2> QED
    BY <1>1, <2>1, <2>2
<1>4. TypeOK'
  BY <1>1, <1>2 DEF IInv, TypeOK, ConnInv, registry, limiter, account, bounds
<1>5. LossIsRetried'
  BY <1>1, <1>2 DEF IInv, LossIsRetried, Retried, account
<1>6. JoinsInv'
  BY <1>1, <1>3, JoinsKept DEF IInv, account
<1>7. JoinsAreSpaced'
  BY <1>1 DEF IInv, JoinsAreSpaced, limiter
<1> QED
  BY <1>2, <1>4, <1>5, <1>6, <1>7 DEF IInv

LEMMA PingTickIInv == ASSUME IInv, NEW c \in Conns, PingTick(c) PROVE IInv'
<1>1. /\ UNCHANGED <<registry, limiter, raced, account, opens, switches>> /\ breaks' \in Nat
      /\ \/ PingQuiet(c) /\ UNCHANGED joined
         \/ PingTimeout(c) /\ joined' = [joined EXCEPT ![c] = {}]
  BY DEF PingTick, IInv, TypeOK
<1>2. ConnInv' /\ \A d \in Conns : Retried(d) => Retried(d)'
  BY <1>1, ChangesKeep DEF IInv, Changes
<1>3. \A d \in Conns : Hears(d)' => Hears(d) /\ joined'[d] = joined[d]
  BY <1>1 DEF IInv, TypeOK, ConnTypeOK, PingQuiet, PingTimeout, Hears
<1>4. TypeOK'
  BY <1>1, <1>2 DEF IInv, TypeOK, ConnInv, registry, limiter, account
<1>5. LossIsRetried'
  BY <1>1, <1>2 DEF IInv, LossIsRetried, Retried, account
<1>6. JoinsInv'
  BY <1>1, <1>3, JoinsKept DEF IInv, account
<1>7. JoinsAreSpaced'
  BY <1>1 DEF IInv, JoinsAreSpaced, limiter
<1> QED
  BY <1>2, <1>4, <1>5, <1>6, <1>7 DEF IInv

LEMMA ConnectIInv == ASSUME IInv, Connect PROVE IInv'
<1>1. Reinitialize(Conns) /\ started' = TRUE /\ UNCHANGED <<posted, bounds>>
  BY DEF Connect
<1>2. /\ ConnInv' /\ joined' \in [Conns -> SUBSET Channels]
      /\ UNCHANGED <<registry, limiter, raced, user>>
      /\ \A c \in Conns : socket'[c] = "connecting" /\ ~Hears(c)'
  BY <1>1, ReinitializeStep
<1>3. TypeOK'
  BY <1>1, <1>2 DEF IInv, TypeOK, ConnInv, registry, limiter, bounds
<1>4. LossIsRetried'
  BY <1>2 DEF LossIsRetried
<1>5. JoinsInv'
  BY <1>1, <1>2, JoinsKept DEF IInv
<1>6. JoinsAreSpaced'
  BY <1>2 DEF IInv, JoinsAreSpaced, limiter
<1> QED
  BY <1>2, <1>3, <1>4, <1>5, <1>6 DEF IInv

\* A reconnect after connect(); one that is due for writing may be done by it.
LEMMA ReconnectIInv ==
    ASSUME IInv, NEW S \in SUBSET Conns, Reinitialize(S),
           started' = started, posted' \in Nat, posted' = posted \/ "write" \in S,
           opens' \in Nat, breaks' \in Nat, switches' \in Nat
    PROVE  IInv'
<1>1. /\ ConnInv' /\ joined' \in [Conns -> SUBSET Channels]
      /\ UNCHANGED <<registry, limiter, raced, user>>
      /\ \A c \in S : socket'[c] = "connecting" /\ ~Hears(c)'
      /\ \A c \in Conns \ S : /\ Retried(c) => Retried(c)'
                              /\ Hears(c)' => Hears(c) /\ joined'[c] = joined[c]
  BY ReinitializeStep
<1>2. TypeOK'
  BY <1>1 DEF IInv, TypeOK, ConnInv, registry, limiter
<1>3. LossIsRetried'
  <2> SUFFICES ASSUME started, NEW c \in Conns PROVE Retried(c)'
    BY DEF LossIsRetried, Retried
  <2>1. CASE c \in S
    BY <1>1, <2>1 DEF Retried
  <2>2. CASE c \notin S
    <3>1. Retried(c)
      BY DEF IInv, LossIsRetried, Retried
    <3>2. c \in Conns \ S
      BY <2>2
    <3>3. Retried(c) => Retried(c)'
      BY <1>1, <3>2 DEF Retried
    <3> QED
      BY <3>1, <3>3
  <2> QED
    BY <2>1, <2>2
<1>4. JoinsInv'
  <2>1. ASSUME NEW c \in Conns, Hears(c)'
        PROVE  /\ Hears(c) /\ joined'[c] = joined[c]
               /\ c = "write" => (user' # Anon /\ posted' = 0 => user # Anon /\ posted = 0)
    <3>1. c \notin S
      BY <1>1, <2>1 DEF Hears
    <3>2. c \in Conns \ S
      BY <3>1
    <3>3. Hears(c)' => Hears(c) /\ joined'[c] = joined[c]
      BY <1>1, <3>2 DEF Hears
    <3> QED
      BY <1>1, <2>1, <3>1, <3>3
  <2> QED
    BY <1>1, <2>1, JoinsKept DEF IInv
<1>5. JoinsAreSpaced'
  BY <1>1 DEF IInv, JoinsAreSpaced, limiter
<1> QED
  BY <1>1, <1>2, <1>3, <1>4, <1>5 DEF IInv

LEMMA ReconnectReceivedIInv ==
    ASSUME IInv, UserReconnects \/ \E c \in Conns : ReconnectReceived(c)
    PROVE  IInv'
<1>1. /\ \E S \in SUBSET Conns : Reinitialize(S)
      /\ breaks' = breaks + 1 /\ UNCHANGED <<posted, started, opens, switches>>
  <2>1. CASE UserReconnects
    BY <2>1 DEF UserReconnects
  <2>2. ASSUME NEW c \in Conns, ReconnectReceived(c)
        PROVE  Reinitialize({c}) /\ breaks' = breaks + 1
               /\ UNCHANGED <<posted, started, opens, switches>>
    BY <2>2 DEF ReconnectReceived
  <2> QED
    BY <2>1, <2>2
<1>2. opens \in Nat /\ breaks \in Nat /\ switches \in Nat /\ posted \in Nat
  BY DEF IInv, TypeOK
<1>3. breaks' \in Nat
  BY <1>1, <1>2
<1> QED
  BY <1>1, <1>2, <1>3, ReconnectIInv

LEMMA ReconnectWriteIInv == ASSUME IInv, ReconnectWrite PROVE IInv'
<1>1. /\ Reinitialize({"write"}) /\ posted > 0 /\ posted' = posted - 1
      /\ UNCHANGED <<started, bounds>>
  BY DEF ReconnectWrite
<1>2. opens \in Nat /\ breaks \in Nat /\ switches \in Nat /\ posted \in Nat
  BY DEF IInv, TypeOK
<1>3. posted' \in Nat /\ {"write"} \in SUBSET Conns
  BY <1>1, <1>2, ConnsAssumption
<1> QED
  BY <1>1, <1>2, <1>3, ReconnectIInv DEF bounds

LEMMA SwitchAccountIInv ==
    ASSUME IInv, NEW a \in Accounts \cup {Anon}, SwitchAccount(a) PROVE IInv'
<1>1. /\ UNCHANGED <<connVars, registry, limiter, joined, raced, started, opens, breaks>>
      /\ user' = a /\ posted' = posted + 1 /\ switches' = switches + 1
  BY DEF SwitchAccount
<1>2. ConnInv' /\ LossIsRetried'
  BY <1>1 DEF IInv, ConnInv, ConnTypeOK, TimeoutIsEarned, LossIsRetried, connVars
<1>3. TypeOK'
  BY <1>1, <1>2 DEF IInv, TypeOK, ConnInv, registry, limiter
<1>4. posted' # 0
  BY <1>1 DEF IInv, TypeOK
<1>5. JoinsInv'
  BY <1>1, <1>4, JoinsKept DEF IInv, connVars, Hears
<1>6. JoinsAreSpaced'
  BY <1>1 DEF IInv, JoinsAreSpaced, limiter
<1> QED
  BY <1>2, <1>3, <1>5, <1>6 DEF IInv

--------------------------------------------------------------------------------
(* Steps of the rate limiters and of the channels *)

\* What neither opens nor removes name n, nor parts it, keeps it joined on connection c.
LEMMA JoinsInKept ==
    ASSUME NEW c, NEW n, JoinsIn(c, n), entry'[n] = entry[n], user' = user, posted' = posted,
           Hears(c)' => Hears(c), PartDue(c, n)' <=> PartDue(c, n),
           n \in raced'[c] <=> n \in raced[c], n \in joined'[c] => n \in joined[c],
           n \in found'[c] => n \in found[c], Reached(c, n) => Reached(c, n)'
    PROVE  JoinsIn(c, n)'
BY DEF JoinsIn, Wanted, Gone

\* The handlers of other threads, as PartDue looks at them.
Parts(h, c, n) == h = <<"read", n>> \/ (c = "write" /\ h = <<"write", n>>)

LEMMA PartDueSame ==
    ASSUME TypeOK, NEW t \in Threads, NEW h, handler' = [handler EXCEPT ![t] = h], NEW c, NEW n,
           Parts(h, c, n) <=> Parts(handler[t], c, n)
    PROVE  PartDue(c, n)' <=> PartDue(c, n)
<1>1. /\ PartDue(c, n) <=> \E u \in Threads : Parts(handler[u], c, n)
      /\ PartDue(c, n)' <=> \E u \in Threads : Parts(handler'[u], c, n)
  BY DEF PartDue, Parts
<1>2. \A u \in Threads : handler'[u] = IF u = t THEN h ELSE handler[u]
  BY DEF TypeOK
<1>3. \A u \in Threads : Parts(handler'[u], c, n) <=> Parts(handler[u], c, n)
  BY <1>2
<1> QED
  BY <1>1, <1>3

\* A step that changes nothing of the connections and the account.
LEMMA QuietStep ==
    ASSUME IInv, UNCHANGED <<connVars, account>>
    PROVE  /\ ConnInv' /\ ConnTypeOK' /\ LossIsRetried' /\ user' = user /\ posted' = posted
           /\ \A c \in Conns : Hears(c)' <=> Hears(c)
BY DEF IInv, ConnInv, ConnTypeOK, TimeoutIsEarned, LossIsRetried, connVars, account, Hears

LEMMA ConnectedToIInv == ASSUME IInv, NEW c \in Conns, ConnectedTo(c) PROVE IInv'
<1>1. /\ GuiFree /\ Connected(c) /\ UNCHANGED <<registry, found, account, bounds>>
      /\ \E names \in JoinsOnConnect(c) :
            /\ bucket' = [bucket EXCEPT ![c] = AfterSend(@, names)]
            /\ called' = [called EXCEPT ![c] = ToSet(Handled(bucket[c], names))]
      /\ joined' = [joined EXCEPT ![c] = {}]
      /\ raced' = [raced EXCEPT ![c] = {n \in @ : PartDue(c, n)}]
  BY DEF ConnectedTo
<1>2. PICK names \in JoinsOnConnect(c) :
            /\ bucket' = [bucket EXCEPT ![c] = AfterSend(@, names)]
            /\ called' = [called EXCEPT ![c] = ToSet(Handled(bucket[c], names))]
  BY <1>1
<1> DEFINE Live == {n \in Channels : entry[n] = "live"}
<1>3. names \in Seq(Channels) /\ ((c = "write" => user # Anon) => ToSet(names) = Live)
  <2>1. CASE c = "write" /\ user = Anon
    <3>1. names = <<>>
      BY <1>2, <2>1 DEF JoinsOnConnect
    <3> QED
      BY <2>1, <3>1, EmptySeq
  <2>2. CASE ~(c = "write" /\ user = Anon)
    <3>1. names \in SetToSeqs(Live)
      BY <1>2, <2>2, Zenon DEF JoinsOnConnect
    <3>2. IsFiniteSet(Live)
      BY ChannelsAssumption, FS_Subset
    <3> HIDE DEF Live
    <3>3. names \in Seq(Live) /\ ToSet(names) = Live
      BY <3>1, <3>2, ToSetOfSetToSeqs
    <3>4. names \in Seq(Channels)
      <4>1. Len(names) \in Nat /\ DOMAIN names = 1 .. Len(names)
            /\ \A i \in 1 .. Len(names) : names[i] \in Live
        BY <3>3, LenProperties, ElementOfSeq
      <4>2. \A i \in 1 .. Len(names) : names[i] \in Channels
        BY <4>1 DEF Live
      <4> QED
        BY <3>3, <4>1, <4>2, IsASeq
    <3> QED
      BY <3>3, <3>4
  <2> QED
    BY <2>1, <2>2
<1> HIDE DEF Live
<1> DEFINE sent == Handled(bucket[c], names)
           after == AfterSend(bucket[c], names)
           due == {n \in raced[c] : PartDue(c, n)}
<1>4. bucket \in [Conns -> Buckets] /\ joined \in [Conns -> SUBSET Channels]
      /\ called \in [Conns -> SUBSET Channels] /\ raced \in [Conns -> SUBSET Channels]
  BY DEF IInv, TypeOK, Buckets
<1>5. /\ after \in Buckets /\ sent \in Seq(Channels)
      /\ ToSet(bucket[c].queue) \cup ToSet(names) = ToSet(sent) \cup ToSet(after.queue)
      /\ Spaced(bucket[c]) => Spaced(after)
  BY <1>3, <1>4, SendKeepsItems
<1>6. /\ bucket' = [bucket EXCEPT ![c] = after] /\ called' = [called EXCEPT ![c] = ToSet(sent)]
      /\ joined' = [joined EXCEPT ![c] = {}] /\ raced' = [raced EXCEPT ![c] = due]
  BY <1>1, <1>2
<1>7. \A n : n \in due <=> n \in raced[c] /\ PartDue(c, n)
  OBVIOUS
<1> HIDE DEF sent, after, due
<1>8. ConnInv' /\ \A d \in Conns : Retried(d) => Retried(d)'
  BY <1>1, ChangesKeep DEF IInv, Changes
<1>9. TypeOK'
  <2>1. due \in SUBSET Channels
    BY <1>4, <1>7
  <2>2. joined' \in [Conns -> SUBSET Channels] /\ bucket' \in [Conns -> Buckets]
        /\ raced' \in [Conns -> SUBSET Channels]
    BY <1>4, <1>5, <1>6, <2>1
  <2>3. called' \in [Conns -> SUBSET Channels]
    BY <1>4, <1>5, <1>6, ToSetIn
  <2> QED
    BY <1>1, <1>8, <2>2, <2>3 DEF IInv, TypeOK, ConnInv, registry, account, bounds, Buckets
<1>10. LossIsRetried'
  BY <1>1, <1>8 DEF IInv, LossIsRetried, Retried, account
<1>11. JoinsInv'
  <2> SUFFICES ASSUME NEW n \in Channels, NEW d \in Conns PROVE JoinsIn(d, n)'
    BY JoinsInvAreNext
  <2>1. /\ entry' = entry /\ handler' = handler /\ user' = user /\ posted' = posted
        /\ found' = found /\ found[d] = {}
    BY <1>1 DEF registry, account, GuiFree
  <2>2. PartDue(d, n)' <=> PartDue(d, n)
    BY <2>1 DEF PartDue
  <2>3. JoinsIn(d, n)
    BY JoinsInvAre DEF IInv
  <2>4. CASE d = c
    <3>1. joined'[c] = {} /\ bucket'[c] = after /\ called'[c] = ToSet(sent) /\ raced'[c] = due
      BY <1>4, <1>6
    <3>2. Wanted(c, n)' => n \in Live /\ (c = "write" => user # Anon)
      BY <2>1 DEF Wanted, Live
    <3>3. Wanted(c, n)' => Reached(c, n)'
      BY <1>3, <1>5, <3>1, <3>2 DEF Reached
    <3>4. n \notin raced'[c] /\ PartDue(c, n)' => entry'[n] # "live"
      BY <1>7, <2>1, <2>2, <2>3, <2>4, <3>1 DEF JoinsIn
    <3> QED
      BY <2>1, <2>4, <3>1, <3>3, <3>4 DEF JoinsIn, Gone
  <2>5. CASE d # c
    <3>1. /\ joined'[d] = joined[d] /\ bucket'[d] = bucket[d] /\ called'[d] = called[d]
          /\ raced'[d] = raced[d]
      BY <1>4, <1>6, <2>5
    <3>2. Hears(d)' <=> Hears(d)
      BY <1>1, <2>5 DEF Connected, Hears, IInv, TypeOK, ConnTypeOK
    <3>3. Reached(d, n) => Reached(d, n)'
      BY <2>1, <3>1 DEF Reached
    <3> QED
      BY <2>1, <2>2, <2>3, <3>1, <3>2, <3>3, JoinsInKept
  <2> QED
    BY <2>4, <2>5
<1>12. JoinsAreSpaced'
  BY <1>4, <1>5, <1>6 DEF IInv, JoinsAreSpaced, Spaced
<1> QED
  BY <1>8, <1>9, <1>10, <1>11, <1>12 DEF IInv

LEMMA CooldownIInv == ASSUME IInv, NEW c \in Conns, Cooldown(c) PROVE IInv'
<1> DEFINE sent == HandledOnCooldown(bucket[c])
           after == AfterCooldown(bucket[c])
<1>1. /\ GuiFree /\ bucket[c].timers > 0 /\ bucket' = [bucket EXCEPT ![c] = after]
      /\ called' = [called EXCEPT ![c] = ToSet(sent)]
      /\ UNCHANGED <<connVars, registry, found, joined, raced, account, bounds>>
  BY DEF Cooldown
<1>2. bucket \in [Conns -> Buckets] /\ called \in [Conns -> SUBSET Channels]
  BY DEF IInv, TypeOK, Buckets
<1>3. /\ after \in Buckets /\ sent \in Seq(Channels)
      /\ ToSet(bucket[c].queue) = ToSet(sent) \cup ToSet(after.queue)
      /\ Spaced(bucket[c]) => Spaced(after)
  BY <1>1, <1>2, CooldownKeepsItems
<1> HIDE DEF sent, after
<1>4. /\ ConnInv' /\ ConnTypeOK' /\ LossIsRetried' /\ user' = user /\ posted' = posted
      /\ \A d \in Conns : Hears(d)' <=> Hears(d)
  BY <1>1, QuietStep
<1>5. TypeOK'
  <2>1. called' \in [Conns -> SUBSET Channels] /\ bucket' \in [Conns -> Buckets]
    BY <1>1, <1>2, <1>3, ToSetIn
  <2> QED
    BY <1>1, <1>4, <2>1 DEF IInv, TypeOK, registry, account, bounds, Buckets
<1>6. JoinsInv'
  <2> SUFFICES ASSUME NEW n \in Channels, NEW d \in Conns PROVE JoinsIn(d, n)'
    BY JoinsInvAreNext
  <2>1. /\ entry' = entry /\ handler' = handler /\ joined' = joined /\ raced' = raced
        /\ found' = found /\ called[d] = {}
    BY <1>1 DEF registry, GuiFree
  <2>2. (PartDue(d, n)' <=> PartDue(d, n)) /\ JoinsIn(d, n)
    BY <2>1, JoinsInvAre DEF PartDue, IInv
  <2>3. Reached(d, n) => Reached(d, n)'
    <3>1. CASE d = c
      <4>1. bucket'[d] = after /\ called'[d] = ToSet(sent)
        BY <1>1, <1>2, <3>1
      <4> QED
        BY <1>3, <2>1, <3>1, <4>1 DEF Reached
    <3>2. CASE d # c
      <4>1. bucket'[d] = bucket[d] /\ called'[d] = called[d]
        BY <1>1, <1>2, <3>2
      <4> QED
        BY <2>1, <4>1 DEF Reached
    <3> QED
      BY <3>1, <3>2
  <2> QED
    BY <1>4, <2>1, <2>2, <2>3, JoinsInKept
<1>7. JoinsAreSpaced'
  BY <1>1, <1>2, <1>3 DEF IInv, JoinsAreSpaced, Spaced
<1> QED
  BY <1>4, <1>5, <1>6, <1>7 DEF IInv

LEMMA LookupIInv == ASSUME IInv, NEW c \in Conns, Lookup(c) PROVE IInv'
<1>1. PICK n \in called[c] :
          /\ called' = [called EXCEPT ![c] = @ \ {n}]
          /\ found' = [found EXCEPT ![c] = IF MayJoin(c, n) THEN {n} ELSE {}]
  BY DEF Lookup
<1>2. /\ UNCHANGED <<connVars, registry, bucket, joined, raced, account, bounds>>
      /\ found[c] = {}
  BY DEF Lookup
<1>3. called \in [Conns -> SUBSET Channels] /\ found \in [Conns -> SUBSET Channels]
  BY DEF IInv, TypeOK
<1>4. n \in Channels
  BY <1>3
<1>5. /\ ConnInv' /\ ConnTypeOK' /\ LossIsRetried' /\ user' = user /\ posted' = posted
      /\ \A d \in Conns : Hears(d)' <=> Hears(d)
  BY <1>2, QuietStep
<1>6. TypeOK'
  <2>1. called' \in [Conns -> SUBSET Channels] /\ found' \in [Conns -> SUBSET Channels]
    BY <1>1, <1>3, <1>4
  <2> QED
    BY <1>2, <1>5, <2>1 DEF IInv, TypeOK, registry, account, bounds
<1>7. JoinsInv'
  <2> SUFFICES ASSUME NEW m \in Channels, NEW d \in Conns PROVE JoinsIn(d, m)'
    BY JoinsInvAreNext
  <2>1. /\ entry' = entry /\ handler' = handler /\ joined' = joined /\ raced' = raced
        /\ bucket' = bucket
    BY <1>2 DEF registry
  <2>2. (PartDue(d, m)' <=> PartDue(d, m)) /\ JoinsIn(d, m)
    BY <2>1, JoinsInvAre DEF PartDue, IInv
  <2>3. CASE d = c /\ m = n
    <3>1. /\ found'[c] = IF MayJoin(c, n) THEN {n} ELSE {}
          /\ MayJoin(c, n) <=> entry[n] # "none" /\ (c = "write" => user # Anon)
      BY <1>1, <1>3, <1>4 DEF MayJoin, InRegistry
    <3>2. Wanted(c, n)' => n \in found'[c]
      BY <1>5, <2>1, <3>1 DEF Wanted
    <3>3. n \in found'[c] => entry'[n] # "none"
      BY <2>1, <3>1
    <3> QED
      BY <1>5, <2>1, <2>2, <2>3, <3>2, <3>3 DEF JoinsIn, Wanted, Gone, Reached
  <2>4. CASE d # c \/ m # n
    <3>1. (m \in called[d] => m \in called'[d]) /\ (m \in found'[d] <=> m \in found[d])
      BY <1>1, <1>2, <1>3, <2>4
    <3>2. Reached(d, m) => Reached(d, m)'
      BY <2>1, <3>1 DEF Reached
    <3> QED
      BY <1>5, <2>1, <2>2, <3>1, <3>2, JoinsInKept
  <2> QED
    BY <2>3, <2>4
<1>8. JoinsAreSpaced'
  BY <1>2 DEF IInv, JoinsAreSpaced
<1> QED
  BY <1>5, <1>6, <1>7, <1>8 DEF IInv

LEMMA SendJoinIInv == ASSUME IInv, NEW c \in Conns, SendJoin(c) PROVE IInv'
<1>1. /\ found' = [found EXCEPT ![c] = {}]
      /\ joined' = [joined EXCEPT ![c] = IF Hears(c) THEN @ \cup found[c] ELSE @]
      /\ UNCHANGED <<connVars, registry, bucket, called, raced, account, bounds>>
  BY DEF SendJoin
<1>2. joined \in [Conns -> SUBSET Channels] /\ found \in [Conns -> SUBSET Channels]
  BY DEF IInv, TypeOK
<1>3. /\ ConnInv' /\ ConnTypeOK' /\ LossIsRetried' /\ user' = user /\ posted' = posted
      /\ \A d \in Conns : Hears(d)' <=> Hears(d)
  BY <1>1, QuietStep
<1>4. TypeOK'
  <2>1. joined' \in [Conns -> SUBSET Channels] /\ found' \in [Conns -> SUBSET Channels]
    BY <1>1, <1>2
  <2> QED
    BY <1>1, <1>3, <2>1 DEF IInv, TypeOK, registry, account, bounds
<1>5. JoinsInv'
  <2> SUFFICES ASSUME NEW n \in Channels, NEW d \in Conns PROVE JoinsIn(d, n)'
    BY JoinsInvAreNext
  <2>1. /\ entry' = entry /\ handler' = handler /\ called' = called /\ raced' = raced
        /\ bucket' = bucket
    BY <1>1 DEF registry
  <2>2. (PartDue(d, n)' <=> PartDue(d, n)) /\ JoinsIn(d, n)
    BY <2>1, JoinsInvAre DEF PartDue, IInv
  <2>3. CASE d = c
    <3>1. found'[d] = {} /\ joined'[d] = IF Hears(d) THEN joined[d] \cup found[d] ELSE joined[d]
      BY <1>1, <1>2, <2>3
    <3>2. Wanted(d, n)' => Reached(d, n)'
      BY <1>3, <2>1, <2>2, <3>1 DEF JoinsIn, Wanted, Reached
    <3>3. Gone(d, n)' => n \notin joined'[d]
      BY <1>3, <2>1, <2>2, <3>1 DEF JoinsIn, Gone
    <3> QED
      BY <2>1, <2>2, <3>1, <3>2, <3>3 DEF JoinsIn
  <2>4. CASE d # c
    <3>1. found'[d] = found[d] /\ joined'[d] = joined[d]
      BY <1>1, <1>2, <2>4
    <3>2. Reached(d, n) => Reached(d, n)'
      BY <2>1, <3>1 DEF Reached
    <3> QED
      BY <1>3, <2>1, <2>2, <3>1, <3>2, JoinsInKept
  <2> QED
    BY <2>3, <2>4
<1>6. JoinsAreSpaced'
  BY <1>1 DEF IInv, JoinsAreSpaced
<1> QED
  BY <1>3, <1>4, <1>5, <1>6 DEF IInv

LEMMA OpenChannelIInv == ASSUME IInv, NEW n \in Channels, OpenChannel(n) PROVE IInv'
<1> DEFINE Sent(c) == Handled(bucket[c], <<n>>)
           After(c) == AfterSend(bucket[c], <<n>>)
           Raced(c) == IF PartDue(c, n) THEN raced[c] \cup {n} ELSE raced[c]
<1>1. /\ GuiFree /\ opens' = opens + 1 /\ entry' = [entry EXCEPT ![n] = "live"]
      /\ bucket' = [c \in Conns |->
             IF socket[c] = "connected" THEN After(c) ELSE bucket[c]]
      /\ called' = [c \in Conns |-> IF socket[c] = "connected" THEN ToSet(Sent(c)) ELSE {}]
      /\ raced' = [c \in Conns |-> Raced(c)]
      /\ UNCHANGED <<connVars, orphans, handler, found, joined, account, breaks, switches>>
  BY DEF OpenChannel
<1>2. /\ bucket \in [Conns -> Buckets] /\ raced \in [Conns -> SUBSET Channels]
  BY DEF IInv, TypeOK, Buckets
<1>3. <<n>> \in Seq(Channels) /\ ToSet(<<n>>) = {n}
  BY DEF ToSet
<1>4. ASSUME NEW c \in Conns
      PROVE  /\ After(c) \in Buckets /\ Sent(c) \in Seq(Channels)
             /\ ToSet(bucket[c].queue) \cup {n} = ToSet(Sent(c)) \cup ToSet(After(c).queue)
             /\ Spaced(bucket[c]) => Spaced(After(c))
  BY <1>2, <1>3, SendKeepsItems
<1>5. ASSUME NEW c \in Conns
      PROVE  /\ Raced(c) \in SUBSET Channels
             /\ \A m : m \in Raced(c) <=> m \in raced[c] \/ (m = n /\ PartDue(c, n))
  BY <1>2
<1> HIDE DEF Sent, After, Raced
<1>6. /\ ConnInv' /\ ConnTypeOK' /\ LossIsRetried' /\ user' = user /\ posted' = posted
      /\ \A d \in Conns : Hears(d)' <=> Hears(d)
  BY <1>1, QuietStep
<1>7. TypeOK'
  <2>1. bucket' \in [Conns -> Buckets] /\ raced' \in [Conns -> SUBSET Channels]
    BY <1>1, <1>2, <1>4, <1>5
  <2>2. called' \in [Conns -> SUBSET Channels]
    BY <1>1, <1>4, ToSetIn
  <2>3. entry' \in [Channels -> {"none", "live", "expired"}] /\ opens' \in Nat
    BY <1>1 DEF IInv, TypeOK
  <2> QED
    BY <1>1, <1>6, <2>1, <2>2, <2>3 DEF IInv, TypeOK, account, Buckets
<1>8. JoinsInv'
  <2> SUFFICES ASSUME NEW m \in Channels, NEW c \in Conns PROVE JoinsIn(c, m)'
    BY JoinsInvAreNext
  <2>1. /\ handler' = handler /\ joined' = joined /\ found' = found
        /\ called[c] = {} /\ found[c] = {}
    BY <1>1 DEF GuiFree
  <2>2. (PartDue(c, m)' <=> PartDue(c, m)) /\ JoinsIn(c, m)
    BY <2>1, JoinsInvAre DEF PartDue, IInv
  <2>3. /\ socket[c] = "connected" => bucket'[c] = After(c) /\ called'[c] = ToSet(Sent(c))
        /\ socket[c] # "connected" => bucket'[c] = bucket[c]
        /\ raced'[c] = Raced(c)
    BY <1>1
  <2>4. CASE m = n
    <3>1. entry'[m] = "live"
      BY <1>1, <2>4 DEF IInv, TypeOK
    <3>2. Wanted(c, m)' => Reached(c, m)'
      <4>1. Wanted(c, m)' => socket[c] = "connected"
        BY <1>6 DEF Wanted, Hears
      <4>2. n \in ToSet(Sent(c)) \cup ToSet(After(c).queue)
        BY <1>4
      <4> QED
        BY <2>3, <2>4, <4>1, <4>2 DEF Reached
    <3>3. m \notin raced'[c] => ~PartDue(c, m)'
      BY <1>5, <2>2, <2>3, <2>4
    <3> QED
      BY <2>1, <3>1, <3>2, <3>3 DEF JoinsIn, Gone
  <2>5. CASE m # n
    <3>1. entry'[m] = entry[m]
      BY <1>1, <2>5 DEF IInv, TypeOK
    <3>2. m \in raced'[c] <=> m \in raced[c]
      BY <1>5, <2>3, <2>5
    <3>3. m \in ToSet(bucket[c].queue) => m \in called'[c] \/ m \in ToSet(bucket'[c].queue)
      BY <1>4, <2>3
    <3>4. Reached(c, m) => Reached(c, m)'
      BY <2>1, <3>3 DEF Reached
    <3> QED
      BY <1>6, <2>1, <2>2, <3>1, <3>2, <3>4, JoinsInKept
  <2> QED
    BY <2>4, <2>5
<1>9. JoinsAreSpaced'
  <2> SUFFICES ASSUME NEW c \in Conns PROVE Spaced(bucket'[c])
    BY DEF JoinsAreSpaced, Spaced
  <2>1. Spaced(bucket[c])
    BY DEF IInv, JoinsAreSpaced, Spaced
  <2>2. bucket'[c] = IF socket[c] = "connected" THEN After(c) ELSE bucket[c]
    BY <1>1
  <2> QED
    BY <1>4, <2>1, <2>2
<1> QED
  BY <1>6, <1>7, <1>8, <1>9 DEF IInv

LEMMA ReleaseHereIInv == ASSUME IInv, NEW n \in Channels, ReleaseHere(n) PROVE IInv'
<1>1. /\ GuiFree
      /\ \/ UNCHANGED orphans
         \/ orphans[n] > 0 /\ orphans' = [orphans EXCEPT ![n] = @ - 1]
      /\ entry' = [entry EXCEPT ![n] = "none"]
      /\ joined' = [c \in Conns |-> IF Hears(c) THEN joined[c] \ {n} ELSE joined[c]]
      /\ UNCHANGED <<connVars, handler, limiter, raced, account, bounds>>
  BY DEF ReleaseHere
<1>2. /\ entry \in [Channels -> {"none", "live", "expired"}]
      /\ orphans \in [Channels -> Nat] /\ joined \in [Conns -> SUBSET Channels]
  BY DEF IInv, TypeOK
<1>3. /\ ConnInv' /\ ConnTypeOK' /\ LossIsRetried' /\ user' = user /\ posted' = posted
      /\ \A d \in Conns : Hears(d)' <=> Hears(d)
  BY <1>1, QuietStep
<1>4. TypeOK'
  <2>1. orphans' \in [Channels -> Nat]
    BY <1>1, <1>2, OneLess
  <2>2. entry' \in [Channels -> {"none", "live", "expired"}] /\ joined' \in [Conns -> SUBSET Channels]
    BY <1>1, <1>2
  <2> QED
    BY <1>1, <1>3, <2>1, <2>2 DEF IInv, TypeOK, limiter, account, bounds
<1>5. JoinsInv'
  <2> SUFFICES ASSUME NEW m \in Channels, NEW c \in Conns PROVE JoinsIn(c, m)'
    BY JoinsInvAreNext
  <2>1. /\ handler' = handler /\ raced' = raced /\ found' = found /\ called' = called
        /\ bucket' = bucket /\ found[c] = {}
    BY <1>1 DEF limiter, GuiFree
  <2>2. (PartDue(c, m)' <=> PartDue(c, m)) /\ JoinsIn(c, m)
    BY <2>1, JoinsInvAre DEF PartDue, IInv
  <2>3. joined'[c] = IF Hears(c) THEN joined[c] \ {n} ELSE joined[c]
    BY <1>1
  <2>4. CASE m = n
    <3>1. entry'[m] = "none"
      BY <1>1, <1>2, <2>4
    <3>2. Gone(c, m)' => m \notin joined'[c]
      BY <1>3, <2>3, <2>4 DEF Gone
    <3> QED
      BY <2>1, <3>1, <3>2 DEF JoinsIn, Wanted
  <2>5. CASE m # n
    <3>1. entry'[m] = entry[m] /\ (m \in joined'[c] <=> m \in joined[c])
      BY <1>1, <1>2, <2>3, <2>5
    <3>2. Reached(c, m) => Reached(c, m)'
      BY <2>1, <3>1 DEF Reached
    <3> QED
      BY <1>3, <2>1, <2>2, <3>1, <3>2, JoinsInKept
  <2> QED
    BY <2>4, <2>5
<1>6. JoinsAreSpaced'
  BY <1>1 DEF IInv, JoinsAreSpaced, limiter
<1> QED
  BY <1>3, <1>4, <1>5, <1>6 DEF IInv

--------------------------------------------------------------------------------
(* Steps of the handlers on other threads *)

LEMMA ReleaseThereIInv ==
    ASSUME IInv, NEW t \in Threads, NEW n \in Channels, ReleaseThere(t, n) PROVE IInv'
<1>1. /\ handler[t] = <<>> /\ handler' = [handler EXCEPT ![t] = <<"remove", n>>]
      /\ \/ /\ entry[n] = "live"
            /\ entry' = [entry EXCEPT ![n] = "expired"]
            /\ UNCHANGED orphans
         \/ /\ orphans[n] > 0
            /\ orphans' = [orphans EXCEPT ![n] = @ - 1]
            /\ UNCHANGED entry
      /\ UNCHANGED <<connVars, limiter, joined, raced, account, bounds>>
  BY DEF ReleaseThere
<1>2. /\ entry \in [Channels -> {"none", "live", "expired"}] /\ orphans \in [Channels -> Nat]
      /\ handler \in [Threads -> {<<>>} \cup ({"remove", "read", "write"} \X Channels)]
      /\ TypeOK
  BY DEF IInv, TypeOK
<1>3. /\ ConnInv' /\ ConnTypeOK' /\ LossIsRetried' /\ user' = user /\ posted' = posted
      /\ \A d \in Conns : Hears(d)' <=> Hears(d)
  BY <1>1, QuietStep
<1>4. /\ entry' \in [Channels -> {"none", "live", "expired"}]
      /\ \A m \in Channels : entry'[m] = entry[m] \/ entry'[m] = "expired"
  BY <1>1, <1>2
<1>5. TypeOK'
  <2>1. orphans' \in [Channels -> Nat]
    BY <1>1, <1>2, OneLess
  <2>2. handler' \in [Threads -> {<<>>} \cup ({"remove", "read", "write"} \X Channels)]
    BY <1>1, <1>2
  <2> QED
    BY <1>1, <1>3, <1>4, <2>1, <2>2 DEF IInv, TypeOK, limiter, account, bounds
<1>6. JoinsInv'
  <2> SUFFICES ASSUME NEW m \in Channels, NEW c \in Conns PROVE JoinsIn(c, m)'
    BY JoinsInvAreNext
  <2>1. /\ raced' = raced /\ found' = found /\ called' = called /\ bucket' = bucket
        /\ joined' = joined
    BY <1>1 DEF limiter
  <2>2. Parts(<<"remove", n>>, c, m) <=> Parts(handler[t], c, m)
    BY <1>1 DEF Parts
  <2>3. (PartDue(c, m)' <=> PartDue(c, m)) /\ JoinsIn(c, m)
    BY <1>1, <1>2, <2>2, PartDueSame, JoinsInvAre DEF IInv
  <2>4. CASE entry'[m] = entry[m]
    <3>1. Reached(c, m) => Reached(c, m)'
      BY <2>1 DEF Reached
    <3> QED
      BY <1>3, <2>1, <2>3, <2>4, <3>1, JoinsInKept
  <2>5. CASE entry'[m] = "expired"
    BY <2>5 DEF JoinsIn, Wanted, Gone
  <2> QED
    BY <1>4, <2>4, <2>5
<1>7. JoinsAreSpaced'
  BY <1>1 DEF IInv, JoinsAreSpaced, limiter
<1> QED
  BY <1>3, <1>5, <1>6, <1>7 DEF IInv

LEMMA UnregisterIInv ==
    ASSUME IInv, NEW t \in Threads, NEW n \in Channels, Unregister(t, n) PROVE IInv'
<1> DEFINE Raced(c) == IF n \in found[c] THEN raced[c] \cup {n} ELSE raced[c]
<1>1. /\ handler[t] = <<"remove", n>> /\ handler' = [handler EXCEPT ![t] = <<"read", n>>]
      /\ entry' = [entry EXCEPT ![n] = "none"]
      /\ orphans' = [orphans EXCEPT ![n] = IF entry[n] = "live" THEN @ + 1 ELSE @]
      /\ raced' = [c \in Conns |-> Raced(c)]
      /\ UNCHANGED <<connVars, limiter, joined, account, bounds>>
  BY DEF Unregister
<1>2. /\ entry \in [Channels -> {"none", "live", "expired"}] /\ orphans \in [Channels -> Nat]
      /\ handler \in [Threads -> {<<>>} \cup ({"remove", "read", "write"} \X Channels)]
      /\ raced \in [Conns -> SUBSET Channels] /\ TypeOK
  BY DEF IInv, TypeOK
<1>3. ASSUME NEW c \in Conns
      PROVE  /\ Raced(c) \in SUBSET Channels
             /\ \A m : m \in Raced(c) <=> m \in raced[c] \/ (m = n /\ n \in found[c])
  BY <1>2
<1> HIDE DEF Raced
<1>4. /\ ConnInv' /\ ConnTypeOK' /\ LossIsRetried' /\ user' = user /\ posted' = posted
      /\ \A d \in Conns : Hears(d)' <=> Hears(d)
  BY <1>1, QuietStep
<1>5. TypeOK'
  <2>1. /\ entry' \in [Channels -> {"none", "live", "expired"}] /\ orphans' \in [Channels -> Nat]
        /\ handler' \in [Threads -> {<<>>} \cup ({"remove", "read", "write"} \X Channels)]
    BY <1>1, <1>2
  <2>2. raced' \in [Conns -> SUBSET Channels]
    BY <1>1, <1>3
  <2> QED
    BY <1>1, <1>4, <2>1, <2>2 DEF IInv, TypeOK, limiter, account, bounds
<1>6. JoinsInv'
  <2> SUFFICES ASSUME NEW m \in Channels, NEW c \in Conns PROVE JoinsIn(c, m)'
    BY JoinsInvAreNext
  <2>1. /\ found' = found /\ called' = called /\ bucket' = bucket /\ joined' = joined
        /\ raced'[c] = Raced(c)
    BY <1>1 DEF limiter
  <2>2. CASE m = n
    <3>1. entry'[m] = "none"
      BY <1>1, <1>2, <2>2
    <3>2. PartDue(c, m)'
      <4>1. handler'[t] = <<"read", n>>
        BY <1>1, <1>2
      <4> QED
        BY <2>2, <4>1 DEF PartDue
    <3>3. m \notin raced'[c] => m \notin found'[c]
      BY <1>3, <2>1, <2>2
    <3> QED
      BY <3>1, <3>2, <3>3 DEF JoinsIn, Wanted, Gone
  <2>3. CASE m # n
    <3>1. entry'[m] = entry[m] /\ (m \in raced'[c] <=> m \in raced[c])
      BY <1>1, <1>2, <1>3, <2>1, <2>3
    <3>2. Parts(<<"read", n>>, c, m) <=> Parts(handler[t], c, m)
      BY <1>1, <2>3 DEF Parts
    <3>3. (PartDue(c, m)' <=> PartDue(c, m)) /\ JoinsIn(c, m)
      BY <1>1, <1>2, <3>2, PartDueSame, JoinsInvAre DEF IInv
    <3>4. Reached(c, m) => Reached(c, m)'
      BY <2>1 DEF Reached
    <3> QED
      BY <1>4, <2>1, <3>1, <3>3, <3>4, JoinsInKept
  <2> QED
    BY <2>2, <2>3
<1>7. JoinsAreSpaced'
  BY <1>1 DEF IInv, JoinsAreSpaced, limiter
<1> QED
  BY <1>4, <1>5, <1>6, <1>7 DEF IInv

LEMMA SendPartIInv ==
    ASSUME IInv, NEW t \in Threads, NEW c \in Conns, NEW n \in Channels, SendPart(t, c, n)
    PROVE  IInv'
<1> DEFINE next == IF c = "read" THEN <<"write", n>> ELSE <<>>
<1>1. /\ handler[t] = <<c, n>> /\ handler' = [handler EXCEPT ![t] = next]
      /\ joined' = [joined EXCEPT ![c] = IF Hears(c) THEN @ \ {n} ELSE @]
      /\ UNCHANGED <<connVars, entry, orphans, limiter, raced, account, bounds>>
  BY DEF SendPart
<1>2. /\ joined \in [Conns -> SUBSET Channels]
      /\ handler \in [Threads -> {<<>>} \cup ({"remove", "read", "write"} \X Channels)]
      /\ TypeOK
  BY DEF IInv, TypeOK
<1>3. c \in {"read", "write"}
  BY ConnsAssumption
<1>4. /\ ConnInv' /\ ConnTypeOK' /\ LossIsRetried' /\ user' = user /\ posted' = posted
      /\ \A d \in Conns : Hears(d)' <=> Hears(d)
  BY <1>1, QuietStep
<1>5. TypeOK'
  <2>1. joined' \in [Conns -> SUBSET Channels]
    BY <1>1, <1>2
  <2>2. next \in {<<>>} \cup ({"remove", "read", "write"} \X Channels)
    OBVIOUS
  <2> HIDE DEF next
  <2>3. handler' \in [Threads -> {<<>>} \cup ({"remove", "read", "write"} \X Channels)]
    BY <1>1, <1>2, <2>2
  <2> QED
    BY <1>1, <1>4, <2>1, <2>3 DEF IInv, TypeOK, limiter, account, bounds
<1>6. JoinsInv'
  <2> SUFFICES ASSUME NEW m \in Channels, NEW d \in Conns PROVE JoinsIn(d, m)'
    BY JoinsInvAreNext
  <2>1. /\ entry' = entry /\ found' = found /\ called' = called /\ bucket' = bucket
        /\ raced' = raced
    BY <1>1 DEF limiter
  <2>2. JoinsIn(d, m)
    BY JoinsInvAre DEF IInv
  <2>3. CASE d = c /\ m = n
    <3>1. PartDue(d, m)
      BY <1>1, <1>3, <2>3 DEF PartDue
    <3>2. joined'[d] = IF Hears(d) THEN joined[d] \ {m} ELSE joined[d]
      BY <1>1, <1>2, <2>3
    <3>3. m \notin raced'[d] => entry'[m] # "live"
      BY <2>1, <2>2, <3>1 DEF JoinsIn
    <3>4. Gone(d, m)' => m \notin joined'[d]
      BY <1>4, <3>2 DEF Gone
    <3>5. m \notin raced'[d] /\ m \in found'[d] => entry'[m] # "none"
      BY <2>1, <2>2 DEF JoinsIn
    <3> QED
      BY <3>3, <3>4, <3>5 DEF JoinsIn, Wanted
  <2>4. CASE d # c \/ m # n
    <3>1. Parts(next, d, m) <=> Parts(handler[t], d, m)
      BY <1>1, <1>3, <2>4, ConnsAssumption DEF Parts
    <3> HIDE DEF next
    <3>2. PartDue(d, m)' <=> PartDue(d, m)
      BY <1>1, <1>2, <3>1, PartDueSame
    <3>3. m \in joined'[d] <=> m \in joined[d]
      BY <1>1, <1>2, <2>4
    <3>4. Reached(d, m) => Reached(d, m)'
      BY <2>1, <3>3 DEF Reached
    <3> QED
      BY <1>4, <2>1, <2>2, <3>2, <3>3, <3>4, JoinsInKept
  <2> QED
    BY <2>3, <2>4
<1>7. JoinsAreSpaced'
  BY <1>1 DEF IInv, JoinsAreSpaced, limiter
<1> QED
  BY <1>4, <1>5, <1>6, <1>7 DEF IInv

--------------------------------------------------------------------------------
(* The theorems *)

LEMMA NextIInv == IInv /\ [Next]_vars => IInv'
<1> SUFFICES ASSUME IInv, [Next]_vars PROVE IInv'
  OBVIOUS
<1>1. CASE Connect
  BY <1>1, ConnectIInv
<1>2. CASE ReconnectWrite
  BY <1>2, ReconnectWriteIInv
<1>3. ASSUME NEW c \in Conns, ConnectedTo(c) PROVE IInv'
  BY <1>3, ConnectedToIInv
<1>4. ASSUME NEW c \in Conns, Broken(c) PROVE IInv'
  BY <1>4, BrokenIInv
<1>5. ASSUME NEW c \in Conns, Received(c) \/ Retry(c) PROVE IInv'
  BY <1>5, ReceivedIInv
<1>6. ASSUME NEW c \in Conns, PingTick(c) PROVE IInv'
  BY <1>6, PingTickIInv
<1>7. CASE UserReconnects \/ \E c \in Conns : ReconnectReceived(c)
  BY <1>7, ReconnectReceivedIInv
<1>8. ASSUME NEW c \in Conns, Cooldown(c) PROVE IInv'
  BY <1>8, CooldownIInv
<1>9. ASSUME NEW a \in Accounts \cup {Anon}, SwitchAccount(a) PROVE IInv'
  BY <1>9, SwitchAccountIInv
<1>10. ASSUME NEW n \in Channels, OpenChannel(n) PROVE IInv'
  BY <1>10, OpenChannelIInv
<1>11. ASSUME NEW n \in Channels, ReleaseHere(n) PROVE IInv'
  BY <1>11, ReleaseHereIInv
<1>12. ASSUME NEW t \in Threads, NEW n \in Channels, ReleaseThere(t, n) PROVE IInv'
  BY <1>12, ReleaseThereIInv
<1>13. ASSUME NEW t \in Threads, NEW n \in Channels, Unregister(t, n) PROVE IInv'
  BY <1>13, UnregisterIInv
<1>14. ASSUME NEW t \in Threads, NEW n \in Channels, NEW c \in Conns, SendPart(t, c, n)
       PROVE  IInv'
  BY <1>14, SendPartIInv
<1>15. ASSUME NEW c \in Conns, Lookup(c) PROVE IInv'
  BY <1>15, LookupIInv
<1>16. ASSUME NEW c \in Conns, SendJoin(c) PROVE IInv'
  BY <1>16, SendJoinIInv
<1>17. CASE UNCHANGED vars
  BY <1>17 DEF vars, connVars, registry, limiter, account, bounds, IInv, TypeOK, ConnInv,
       ConnTypeOK, TimeoutIsEarned, LossIsRetried, JoinsInv, OpenIsJoined, ClosedIsParted,
       RacesAreKnown, PartDue, JoinsAreSpaced, Hears
<1> QED
  BY <1>1, <1>2, <1>3, <1>4, <1>5, <1>6, <1>7, <1>8, <1>9, <1>10, <1>11, <1>12, <1>13, <1>14,
     <1>15, <1>16, <1>17 DEF Next

\* The inductive invariant holds in every reachable state.
THEOREM Invariance == Spec => []IInv
BY InitIInv, NextIInv, PTL DEF Spec

\* Every variable keeps its type: the budget of a rate limiter, the number of its
\* cooldowns and the number of posted reconnects never become negative.
THEOREM TypeCorrect == Spec => []TypeOK
<1>1. IInv => TypeOK
  BY DEF IInv
<1> QED
  BY <1>1, Invariance, PTL

\* However losses, timeouts, RECONNECTs and account switches follow each other, a
\* connection that is down has its reconnect timer running.
THEOREM LossIsRetriedHolds == Spec => []LossIsRetried
<1>1. IInv => LossIsRetried
  BY DEF IInv
<1> QED
  BY <1>1, Invariance, PTL

\* A connection is given up by its ping timer only when it left a PING of this very
\* socket unanswered.
THEOREM TimeoutIsEarnedHolds == Spec => []TimeoutIsEarned
<1>1. IInv => TimeoutIsEarned
  BY DEF IInv, ConnInv
<1> QED
  BY <1>1, Invariance, PTL

\* A channel in the registry is joined or has its JOIN under way on every connection
\* that is up, whichever JOINs are queued and whatever reconnects; but for one opened
\* while another thread's `destroyed` handler still had to send a PART of the name.
THEOREM OpenIsJoinedHolds == Spec => []OpenIsJoined
<1>1. IInv => OpenIsJoined
  BY DEF IInv, JoinsInv
<1> QED
  BY <1>1, Invariance, PTL

\* No connection is in a channel that has left the registry and whose PARTs are sent,
\* even if its JOIN was still queued when it left; but for one that another thread
\* removed after the limiter's callback had found it and before that sent its JOIN.
THEOREM ClosedIsPartedHolds == Spec => []ClosedIsParted
<1>1. IInv => ClosedIsParted
  BY DEF IInv, JoinsInv
<1> QED
  BY <1>1, Invariance, PTL

\* At most Budget JOINs are sent per cooldown, and none waits while there is budget.
THEOREM JoinsAreSpacedHolds == Spec => []JoinsAreSpaced
<1>1. IInv => JoinsAreSpaced
  BY DEF IInv
<1> QED
  BY <1>1, Invariance, PTL
================================================================================
