-------------------------- MODULE LiveUpdatesProofs --------------------------
(***************************************************************************)
(* Theorems about LiveUpdates for every set of topics and keys and every   *)
(* value of the bounds.                                                    *)
(***************************************************************************)
EXTENDS LiveUpdates, FiniteSetTheorems, SequenceTheorems, TLAPS

--------------------------------------------------------------------------------
(* Lemmas about the data *)

\* An entry appended to the backlog joins its entries; a popped one leaves it.
LEMMA EntriesAppend ==
    ASSUME NEW S, NEW seq \in Seq(S), NEW x \in S
    PROVE  Entries(Append(seq, x)) = Entries(seq) \cup {x}
<1> DEFINE longer == Append(seq, x)
<1>1. /\ DOMAIN longer = 1 .. Len(seq) + 1
      /\ DOMAIN seq = 1 .. Len(seq)
      /\ Len(seq) \in Nat
  BY AppendProperties, LenProperties
<1>2. /\ \A i \in 1 .. Len(seq) : longer[i] = seq[i]
      /\ longer[Len(seq) + 1] = x
  BY AppendProperties
<1>3. \A i \in DOMAIN longer : i = Len(seq) + 1 \/ i \in DOMAIN seq
  BY <1>1
<1>4. ASSUME NEW y \in Entries(longer) PROVE y \in Entries(seq) \cup {x}
  BY <1>1, <1>2, <1>3 DEF Entries
<1>5. ASSUME NEW y \in Entries(seq) \cup {x} PROVE y \in Entries(longer)
  BY <1>1, <1>2 DEF Entries
<1> QED
  BY <1>4, <1>5

LEMMA EntriesConcat ==
    ASSUME NEW S, NEW s1 \in Seq(S), NEW s2 \in Seq(S)
    PROVE  Entries(s1 \o s2) = Entries(s1) \cup Entries(s2)
<1> DEFINE both == s1 \o s2
<1>1. /\ both \in Seq(S)
      /\ DOMAIN both = 1 .. Len(s1) + Len(s2)
      /\ DOMAIN s1 = 1 .. Len(s1) /\ Len(s1) \in Nat
      /\ DOMAIN s2 = 1 .. Len(s2) /\ Len(s2) \in Nat
  BY ConcatProperties, LenProperties
<1>2. \A i \in 1 .. Len(s1) + Len(s2) :
          both[i] = IF i <= Len(s1) THEN s1[i] ELSE s2[i - Len(s1)]
  BY ConcatProperties
<1>3. ASSUME NEW i \in DOMAIN both PROVE both[i] \in Entries(s1) \cup Entries(s2)
  <2>1. CASE i <= Len(s1)
    BY <1>1, <1>2, <2>1 DEF Entries
  <2>2. CASE ~(i <= Len(s1))
    <3>1. i - Len(s1) \in DOMAIN s2
      BY <1>1, <2>2
    <3> QED
      BY <1>1, <1>2, <2>2, <3>1 DEF Entries
  <2> QED
    BY <2>1, <2>2
<1>4. ASSUME NEW i \in DOMAIN s1 PROVE s1[i] \in Entries(both)
  <2>1. i \in DOMAIN both /\ both[i] = s1[i]
    BY <1>1, <1>2
  <2> QED
    BY <2>1 DEF Entries
<1>5. ASSUME NEW i \in DOMAIN s2 PROVE s2[i] \in Entries(both)
  <2>1. /\ i + Len(s1) \in DOMAIN both
        /\ both[i + Len(s1)] = s2[i]
    BY <1>1, <1>2
  <2> QED
    BY <2>1 DEF Entries
<1> QED
  BY <1>3, <1>4, <1>5 DEF Entries

\* What the drain loop leaves and what it takes make up the backlog it found.
LEMMA DrainSplits ==
    ASSUME pending \in Seq(Topics), NEW k \in 0 .. Len(pending)
    PROVE  LET left == SubSeq(pending, 1, Len(pending) - k)
           IN /\ left \in Seq(Topics)
              /\ Len(left) = Len(pending) - k
              /\ DOMAIN left = 1 .. Len(pending) - k
              /\ \A i \in DOMAIN left : left[i] = pending[i]
              /\ Popped(k) \subseteq Topics
              /\ Entries(pending) = Entries(left) \cup Popped(k)
<1> DEFINE n == Len(pending) - k
           left == SubSeq(pending, 1, n)
<1>1. /\ Len(pending) \in Nat /\ DOMAIN pending = 1 .. Len(pending)
      /\ n \in Nat /\ n <= Len(pending)
  BY LenProperties
<1>2. \A i \in 1 .. Len(pending) : pending[i] \in Topics
  BY ElementOfSeq
<1>3. \A i \in 1 .. n : pending[i] \in Topics
  BY <1>1, <1>2
<1>4. /\ left \in Seq(Topics)
      /\ Len(left) = IF 1 <= n THEN n - 1 + 1 ELSE 0
      /\ \A i \in 1 .. n - 1 + 1 : left[i] = pending[1 + i - 1]
  <2> HIDE DEF n
  <2>1. 1 \in Int /\ n \in Int
    BY <1>1
  <2> QED
    BY <1>3, <2>1, SubSeqProperties
<1>5. /\ Len(left) = n
      /\ DOMAIN left = 1 .. n
      /\ \A i \in DOMAIN left : left[i] = pending[i]
  <2>1. Len(left) = n
    <3>1. n \in Nat /\ Len(left) = IF 1 <= n THEN n - 1 + 1 ELSE 0
      BY <1>1, <1>4
    <3> HIDE DEF n, left
    <3> QED
      BY <3>1
  <2> HIDE DEF left
  <2>2. DOMAIN left = 1 .. n
    BY <1>4, <2>1, LenProperties
  <2>3. ASSUME NEW i \in DOMAIN left PROVE left[i] = pending[i]
    <3>1. i \in 1 .. n - 1 + 1 /\ 1 + i - 1 = i
      BY <1>1, <2>2
    <3>2. left[i] = pending[1 + i - 1]
      BY <1>4, <3>1
    <3> QED
      BY <3>1, <3>2
  <2> QED
    BY <2>1, <2>2, <2>3
<1>6. Popped(k) \subseteq Topics
  BY <1>1, <1>2 DEF Popped
<1>7. Entries(pending) = Entries(left) \cup Popped(k)
  <2>1. \A i \in DOMAIN pending : i \in 1 .. n \/ i \in n + 1 .. Len(pending)
    BY <1>1
  <2>2. /\ 1 .. n \subseteq DOMAIN pending
        /\ n + 1 .. Len(pending) \subseteq DOMAIN pending
    BY <1>1
  <2>3. Popped(k) = {pending[i] : i \in n + 1 .. Len(pending)}
    BY DEF Popped
  <2> HIDE DEF n, left
  <2> QED
    BY <1>5, <2>1, <2>2, <2>3 DEF Entries
<1> QED
  BY <1>4, <1>5, <1>6, <1>7

\* Any order of a client's topics is a sequence of exactly these topics.
LEMMA OrderOfSubs ==
    ASSUME NEW S \in SUBSET Topics, NEW f \in Orders(S)
    PROVE  /\ f \in Seq(Topics)
           /\ Entries(f) = S
           /\ \A i, j \in DOMAIN f : i # j => f[i] # f[j]
<1>1. IsFiniteSet(S) /\ Cardinality(S) \in Nat
  BY TopicsAssumption, FS_Subset, FS_CardinalityType
<1>2. /\ f \in [1 .. Cardinality(S) -> S]
      /\ \A t \in S : \E i \in DOMAIN f : f[i] = t
  BY DEF Orders
<1>3. f \in Seq(Topics)
  <2>1. f \in [1 .. Cardinality(S) -> Topics]
    BY <1>2
  <2> QED
    BY <1>1, <2>1, IsASeq
<1>4. Entries(f) = S
  BY <1>2 DEF Entries
<1>5. \A i, j \in DOMAIN f : i # j => f[i] # f[j]
  <2> DEFINE I == 1 .. Cardinality(S)
  <2>1. IsFiniteSet(I) /\ Cardinality(I) = Cardinality(S)
    BY <1>1, FS_Interval
  <2>2. f \in Surjection(I, S)
    BY <1>2 DEF Surjection
  <2>3. f \in Injection(I, S)
    <3> HIDE DEF I
    <3> QED
      BY <1>1, <2>1, <2>2, FS_SurjSameCardinalityImpliesInj
  <2> QED
    BY <1>2, <2>3 DEF Injection, IsInjective
<1> QED
  BY <1>3, <1>4, <1>5

--------------------------------------------------------------------------------
(* Type correctness *)

\* Whatever addClient() does, it only touches the clients' table, the id counter,
\* the flag and the sockets, and keeps what every client holds.
LEMMA AddClientStep ==
    ASSUME TypeOK, NEW s, DOMAIN s = clients, s \in [clients -> SUBSET Topics],
           NEW b \in BOOLEAN, AddClient(s, b)
    PROVE  /\ clients' \in SUBSET Nat
           /\ subs' \in [clients' -> SUBSET Topics]
           /\ clients \subseteq clients'
           /\ clients' \subseteq clients \cup {nextId}
           /\ \A c \in clients : subs'[c] = s[c]
           /\ \A c \in clients' \ clients : subs'[c] = {}
           /\ nextId' \in Nat
           /\ adding' \in BOOLEAN
           /\ dialing' \in SUBSET Nat
<1>1. CASE b \/ stopping
  <2>1. subs' = s /\ adding' = b /\ nextId' = nextId /\ dialing' = dialing
    BY <1>1 DEF AddClient
  <2> QED
    BY <2>1 DEF TypeOK, clients
<1>2. CASE ~(b \/ stopping)
  <2>1. /\ subs' = [c \in DOMAIN s \cup {nextId} |->
                       IF c \in DOMAIN s THEN s[c] ELSE {}]
        /\ adding' = TRUE /\ nextId' = nextId + 1
        /\ dialing' = dialing \cup {nextId}
    BY <1>2 DEF AddClient
  <2>2. clients' = clients \cup {nextId}
    BY <2>1 DEF clients
  <2> QED
    BY <2>1, <2>2 DEF TypeOK
<1> QED
  BY <1>1, <1>2

LEMMA TypeOKInit == Init => TypeOK
<1> SUFFICES ASSUME Init PROVE TypeOK
  OBVIOUS
<1>1. pending \in Seq(Topics) /\ events \in Seq({"open", "close"} \X Nat)
  BY EmptySeq DEF Init
<1>2. clients = {} /\ subs \in [clients -> SUBSET Topics]
  BY DEF Init, clients
<1>3. joins \in 0 .. MaxJoins /\ closes \in 0 .. MaxCloses
  BY BoundsAssumption DEF Init
<1>4. /\ opened \subseteq clients /\ nextId \in Nat /\ timers \in Nat
      /\ adding \in BOOLEAN /\ stopping \in BOOLEAN
      /\ wanted \subseteq Keys
      /\ calls \subseteq {"subscribe", "unsubscribe"} \X Topics
      /\ dialing \in SUBSET Nat /\ up \in SUBSET Nat
  BY DEF Init
<1> QED
  BY <1>1, <1>2, <1>3, <1>4 DEF TypeOK

LEMMA TypeOKStep == TypeOK /\ [Next]_vars => TypeOK'
<1> SUFFICES ASSUME TypeOK, [Next]_vars PROVE TypeOK'
  OBVIOUS
<1> USE BoundsAssumption
<1>1. ASSUME NEW k \in Keys, Join(k) PROVE TypeOK'
  <2>1. calls' \subseteq {"subscribe", "unsubscribe"} \X Topics
    BY <1>1, TopicsAssumption DEF Join
  <2>2. joins' \in 0 .. MaxJoins
    BY <1>1 DEF Join, TypeOK
  <2> QED
    BY <1>1, <2>1, <2>2 DEF Join, TypeOK, clients, net
<1>2. ASSUME NEW k \in Keys, Part(k) PROVE TypeOK'
  <2>1. calls' \subseteq {"subscribe", "unsubscribe"} \X Topics
    BY <1>2, TopicsAssumption DEF Part
  <2> QED
    BY <1>2, <2>1 DEF Part, TypeOK, clients, net
<1>3. CASE Stop
  BY <1>3 DEF Stop, TypeOK, clients, net
<1>4. ASSUME NEW t \in Topics, Subscribe(t) PROVE TypeOK'
  <2>1. CASE UNCHANGED <<subs, pending, nextId, adding, dialing>>
    BY <1>4, <2>1 DEF Subscribe, TypeOK, clients
  <2>2. ASSUME NEW c \in clients, subs' = [subs EXCEPT ![c] = @ \cup {t}],
               UNCHANGED <<pending, nextId, adding, dialing>>
        PROVE  TypeOK'
    BY <1>4, <2>2 DEF Subscribe, TypeOK, clients
  <2>3. CASE AddClient(subs, adding) /\ pending' = Append(pending, t)
    <3>1. /\ clients' \in SUBSET Nat /\ subs' \in [clients' -> SUBSET Topics]
          /\ clients \subseteq clients'
          /\ nextId' \in Nat /\ adding' \in BOOLEAN /\ dialing' \in SUBSET Nat
      BY <2>3, AddClientStep DEF TypeOK, clients
    <3>2. pending' \in Seq(Topics)
      BY <2>3, AppendProperties DEF TypeOK
    <3> QED
      BY <1>4, <3>1, <3>2 DEF Subscribe, TypeOK
  <2> QED
    BY <1>4, <2>1, <2>2, <2>3 DEF Subscribe
<1>5. ASSUME NEW t \in Topics, Unsubscribe(t) PROVE TypeOK'
  <2>1. CASE UNCHANGED subs
    BY <1>5, <2>1 DEF Unsubscribe, TypeOK, clients, net
  <2>2. ASSUME NEW c \in clients, subs' = [subs EXCEPT ![c] = @ \ {t}]
        PROVE  TypeOK'
    BY <1>5, <2>2 DEF Unsubscribe, TypeOK, clients, net
  <2> QED
    BY <1>5, <2>1, <2>2 DEF Unsubscribe
<1>6. ASSUME NEW id \in clients, OnConnectionOpen(id) PROVE TypeOK'
  <2>1. PICK k \in 0 .. Len(pending) :
            /\ pending' = SubSeq(pending, 1, Len(pending) - k)
            /\ LET drained == [subs EXCEPT ![id] = @ \cup Popped(k)]
               IN IF k < Len(pending)
                  THEN AddClient(drained, FALSE)
                  ELSE /\ subs' = drained
                       /\ adding' = FALSE
                       /\ UNCHANGED <<nextId, dialing>>
    BY <1>6 DEF OnConnectionOpen
  <2> DEFINE drained == [subs EXCEPT ![id] = @ \cup Popped(k)]
  <2>2. pending \in Seq(Topics)
    BY DEF TypeOK
  <2>3. pending' \in Seq(Topics) /\ Popped(k) \subseteq Topics
    BY <2>1, <2>2, DrainSplits
  <2>4. DOMAIN drained = clients /\ drained \in [clients -> SUBSET Topics]
    BY <2>3 DEF TypeOK, clients
  <2>5. /\ clients' \in SUBSET Nat /\ subs' \in [clients' -> SUBSET Topics]
        /\ clients \subseteq clients'
        /\ nextId' \in Nat /\ adding' \in BOOLEAN /\ dialing' \in SUBSET Nat
    <3>1. CASE AddClient(drained, FALSE)
      <4> HIDE DEF drained
      <4> QED
        BY <2>4, <3>1, AddClientStep
    <3>2. CASE subs' = drained /\ adding' = FALSE /\ UNCHANGED <<nextId, dialing>>
      BY <2>4, <3>2 DEF TypeOK, clients
    <3> QED
      BY <2>1, <3>1, <3>2
  <2>6. events' \in Seq({"open", "close"} \X Nat)
    BY <1>6, HeadTailProperties DEF OnConnectionOpen, TypeOK
  <2> QED
    BY <1>6, <2>3, <2>5, <2>6 DEF OnConnectionOpen, TypeOK
<1>7. ASSUME NEW id \in clients, OnConnectionClose(id) PROVE TypeOK'
  <2>1. /\ clients' = clients \ {id}
        /\ clients' \in SUBSET Nat
        /\ subs' \in [clients' -> SUBSET Topics]
    BY <1>7 DEF OnConnectionClose, WithoutClient, TypeOK, clients
  <2>2. events' \in Seq({"open", "close"} \X Nat)
    BY <1>7, HeadTailProperties DEF OnConnectionClose, TypeOK
  <2>3. subs[id] \subseteq Topics /\ pending \in Seq(Topics)
    BY DEF TypeOK
  <2>4. /\ pending' \in Seq(Topics)
        /\ timers' \in Nat
        /\ calls' \subseteq {"subscribe", "unsubscribe"} \X Topics
    <3>1. CASE UNCHANGED <<pending, timers, calls>>
      BY <3>1 DEF TypeOK
    <3>2. ASSUME NEW order \in Orders(subs[id]), pending' = pending \o order,
                 timers' = timers + 1, UNCHANGED calls
          PROVE  /\ pending' \in Seq(Topics)
                 /\ timers' \in Nat
                 /\ calls' \subseteq {"subscribe", "unsubscribe"} \X Topics
      <4>1. order \in Seq(Topics)
        BY <2>3, OrderOfSubs
      <4>2. pending \o order \in Seq(Topics)
        BY <2>3, <4>1, ConcatProperties
      <4> QED
        BY <3>2, <4>2 DEF TypeOK
    <3>3. CASE calls' = {"subscribe"} \X subs[id] /\ UNCHANGED <<pending, timers>>
      BY <2>3, <3>3 DEF TypeOK
    <3> QED
      BY <1>7, <3>1, <3>2, <3>3 DEF OnConnectionClose
  <2> QED
    BY <1>7, <2>1, <2>2, <2>4 DEF OnConnectionClose, TypeOK
<1>8. CASE RetryTimer
  <2>1. /\ clients' \in SUBSET Nat /\ subs' \in [clients' -> SUBSET Topics]
        /\ clients \subseteq clients'
        /\ nextId' \in Nat /\ adding' \in BOOLEAN /\ dialing' \in SUBSET Nat
    BY <1>8, AddClientStep DEF RetryTimer, TypeOK, clients
  <2>2. timers' \in Nat
    BY <1>8 DEF RetryTimer, TypeOK
  <2> QED
    BY <1>8, <2>1, <2>2 DEF RetryTimer, TypeOK
<1>9. ASSUME NEW id \in dialing \cup up, WsOpen(id) PROVE TypeOK'
  <2>1. events' \in Seq({"open", "close"} \X Nat)
    BY <1>9, AppendProperties DEF WsOpen, TypeOK
  <2> QED
    BY <1>9, <2>1 DEF WsOpen, TypeOK, clients, gui
<1>10. ASSUME NEW id \in dialing \cup up, WsClose(id) PROVE TypeOK'
  <2>1. events' \in Seq({"open", "close"} \X Nat)
    BY <1>10, AppendProperties DEF WsClose, TypeOK
  <2>2. closes' \in 0 .. MaxCloses
    BY <1>10 DEF WsClose, TypeOK
  <2> QED
    BY <1>10, <2>1, <2>2 DEF WsClose, TypeOK, clients, gui
<1>11. CASE UNCHANGED vars
  BY <1>11 DEF TypeOK, vars, gui, net, clients
<1> QED
  BY <1>1, <1>2, <1>3, <1>4, <1>5, <1>6, <1>7, <1>8, <1>9, <1>10, <1>11
     DEF Next, GuiLoop, WsThread

\* Every variable of the manager and of the sockets keeps its type.
THEOREM TypeCorrect == Spec => []TypeOK
BY TypeOKInit, TypeOKStep, PTL DEF Spec

--------------------------------------------------------------------------------
(* A topic is held once *)

\* The backlog is a sequence without repetition when its entries are.
Distinct(seq) == \A i, j \in DOMAIN seq : i # j => seq[i] # seq[j]

LEMMA DistinctAppend ==
    ASSUME NEW seq \in Seq(Topics), NEW t \in Topics, Distinct(seq),
           t \notin Entries(seq)
    PROVE  Distinct(Append(seq, t))
<1> DEFINE longer == Append(seq, t)
<1>1. /\ DOMAIN longer = 1 .. Len(seq) + 1
      /\ DOMAIN seq = 1 .. Len(seq)
      /\ Len(seq) \in Nat
  BY AppendProperties, LenProperties
<1>2. /\ \A i \in 1 .. Len(seq) : longer[i] = seq[i]
      /\ longer[Len(seq) + 1] = t
  BY AppendProperties
<1>3. \A i \in DOMAIN seq : seq[i] # t
  BY DEF Entries
<1>4. \A i \in DOMAIN longer : i = Len(seq) + 1 \/ i \in DOMAIN seq
  BY <1>1
<1> HIDE DEF longer
<1>5. \A i, j \in DOMAIN longer : i # j => longer[i] # longer[j]
  BY <1>1, <1>2, <1>3, <1>4 DEF Distinct
<1> QED
  BY <1>5 DEF Distinct, longer

LEMMA DistinctConcat ==
    ASSUME NEW s1 \in Seq(Topics), NEW s2 \in Seq(Topics), Distinct(s1), Distinct(s2),
           Entries(s1) \cap Entries(s2) = {}
    PROVE  Distinct(s1 \o s2)
<1> DEFINE both == s1 \o s2
<1>1. /\ DOMAIN both = 1 .. Len(s1) + Len(s2)
      /\ DOMAIN s1 = 1 .. Len(s1) /\ Len(s1) \in Nat
      /\ DOMAIN s2 = 1 .. Len(s2) /\ Len(s2) \in Nat
  BY ConcatProperties, LenProperties
<1>2. \A i \in DOMAIN both :
          IF i <= Len(s1) THEN i \in DOMAIN s1 /\ both[i] = s1[i]
          ELSE i - Len(s1) \in DOMAIN s2 /\ both[i] = s2[i - Len(s1)]
  BY <1>1, ConcatProperties
<1>3. \A i \in DOMAIN s1, j \in DOMAIN s2 : s1[i] # s2[j]
  BY DEF Entries
<1> HIDE DEF both
<1>4. ASSUME NEW i \in DOMAIN both, NEW j \in DOMAIN both, i # j
      PROVE  both[i] # both[j]
  <2>1. CASE i <= Len(s1) /\ j <= Len(s1)
    BY <1>2, <1>4, <2>1 DEF Distinct
  <2>2. CASE ~(i <= Len(s1)) /\ ~(j <= Len(s1))
    <3>1. i - Len(s1) # j - Len(s1)
      BY <1>1, <1>4
    <3> QED
      BY <1>2, <2>2, <3>1 DEF Distinct
  <2>3. CASE (i <= Len(s1)) # (j <= Len(s1))
    BY <1>2, <1>3, <2>3
  <2> QED
    BY <2>1, <2>2, <2>3
<1> QED
  BY <1>4 DEF Distinct, both

\* What is popped from a backlog without repetition is not left in it.
LEMMA DrainDistinct ==
    ASSUME pending \in Seq(Topics), NEW k \in 0 .. Len(pending), Distinct(pending)
    PROVE  LET left == SubSeq(pending, 1, Len(pending) - k)
           IN /\ Distinct(left)
              /\ Entries(left) \cap Popped(k) = {}
<1> DEFINE left == SubSeq(pending, 1, Len(pending) - k)
<1>1. /\ DOMAIN left = 1 .. Len(pending) - k
      /\ \A i \in DOMAIN left : left[i] = pending[i]
  BY DrainSplits
<1>2. Len(pending) \in Nat /\ DOMAIN pending = 1 .. Len(pending)
  BY LenProperties
<1>3. DOMAIN left \subseteq DOMAIN pending
  BY <1>1, <1>2
<1> HIDE DEF left
<1>4. Distinct(left)
  BY <1>1, <1>3 DEF Distinct
<1>5. ASSUME NEW i \in DOMAIN left, NEW j \in Len(pending) - k + 1 .. Len(pending)
      PROVE  left[i] # pending[j]
  <2>1. i # j /\ j \in DOMAIN pending /\ i \in DOMAIN pending
    BY <1>1, <1>2, <1>3
  <2> QED
    BY <1>1, <2>1 DEF Distinct
<1>6. Entries(left) \cap Popped(k) = {}
  BY <1>5 DEF Entries, Popped
<1> QED
  BY <1>4, <1>6 DEF left

LEMMA NoDuplicateInit == Init => NoDuplicateSubscription
<1> SUFFICES ASSUME Init PROVE NoDuplicateSubscription
  OBVIOUS
<1>1. clients = {} /\ pending = <<>> /\ DOMAIN pending = {}
  BY DEF Init, clients
<1> QED
  BY <1>1 DEF NoDuplicateSubscription

\* addClient() brings in a client that holds nothing.
LEMMA NoDuplicateAddClient ==
    ASSUME TypeOK, NEW s, DOMAIN s = clients, s \in [clients -> SUBSET Topics],
           NEW b \in BOOLEAN, AddClient(s, b),
           \A c, d \in clients : c # d => s[c] \cap s[d] = {},
           NEW P, \A c \in clients : s[c] \cap P = {}
    PROVE  /\ \A c, d \in clients' : c # d => subs'[c] \cap subs'[d] = {}
           /\ \A c \in clients' : subs'[c] \cap P = {}
<1>1. /\ \A c \in clients : subs'[c] = s[c]
      /\ \A c \in clients' \ clients : subs'[c] = {}
  BY AddClientStep
<1>2. \A c, d \in clients' : c # d => subs'[c] \cap subs'[d] = {}
  BY <1>1
<1>3. \A c \in clients' : subs'[c] \cap P = {}
  BY <1>1
<1> QED
  BY <1>2, <1>3

LEMMA NoDuplicateStep ==
    TypeOK /\ NoDuplicateSubscription /\ [Next]_vars => NoDuplicateSubscription'
<1> SUFFICES ASSUME TypeOK, NoDuplicateSubscription, [Next]_vars
             PROVE  NoDuplicateSubscription'
  OBVIOUS
<1>a. /\ pending \in Seq(Topics) /\ Distinct(pending)
      /\ subs \in [clients -> SUBSET Topics] /\ adding \in BOOLEAN
      /\ \A c, d \in clients : c # d => subs[c] \cap subs[d] = {}
      /\ \A c \in clients : subs[c] \cap Entries(pending) = {}
      /\ DOMAIN subs = clients
  BY DEF TypeOK, NoDuplicateSubscription, Distinct, clients
<1>1. CASE UNCHANGED <<subs, pending>>
  BY <1>1 DEF NoDuplicateSubscription, clients, Entries
<1>2. ASSUME NEW t \in Topics, Subscribe(t) PROVE NoDuplicateSubscription'
  <2>1. CASE UNCHANGED <<subs, pending>>
    BY <1>1, <2>1
  <2>2. ASSUME ~IsSubscribed(t), NEW c \in clients,
               subs' = [subs EXCEPT ![c] = @ \cup {t}], UNCHANGED pending
        PROVE  NoDuplicateSubscription'
    <3>1. clients' = clients
      BY <1>a, <2>2 DEF clients
    <3>2. \A d \in clients : subs'[d] = IF d = c THEN subs[c] \cup {t} ELSE subs[d]
      BY <1>a, <2>2
    <3>3. (\A d \in clients : t \notin subs[d]) /\ t \notin Entries(pending)
      BY <2>2 DEF IsSubscribed
    <3>4. \A d, e \in clients : d # e => subs'[d] \cap subs'[e] = {}
      BY <1>a, <3>2, <3>3
    <3>5. \A d \in clients : subs'[d] \cap Entries(pending) = {}
      BY <1>a, <3>2, <3>3
    <3> QED
      BY <1>a, <2>2, <3>1, <3>4, <3>5 DEF NoDuplicateSubscription, Distinct, Entries
  <2>3. ASSUME ~IsSubscribed(t), AddClient(subs, adding),
               pending' = Append(pending, t)
        PROVE  NoDuplicateSubscription'
    <3>1. (\A d \in clients : t \notin subs[d]) /\ t \notin Entries(pending)
      BY <2>3 DEF IsSubscribed
    <3>2. Entries(pending') = Entries(pending) \cup {t} /\ Distinct(pending')
      BY <1>a, <2>3, <3>1, EntriesAppend, DistinctAppend
    <3>3. \A d \in clients : subs[d] \cap Entries(pending') = {}
      BY <1>a, <3>1, <3>2
    <3>4. /\ \A d \in clients : subs'[d] = subs[d]
          /\ \A d \in clients' \ clients : subs'[d] = {}
      BY <1>a, <2>3, AddClientStep
    <3>5. \A d, e \in clients' : d # e => subs'[d] \cap subs'[e] = {}
      BY <1>a, <3>4
    <3>6. \A d \in clients' : subs'[d] \cap Entries(pending') = {}
      BY <3>3, <3>4
    <3> QED
      BY <3>2, <3>5, <3>6 DEF NoDuplicateSubscription, Distinct, Entries
  <2> QED
    BY <1>2, <2>1, <2>2, <2>3 DEF Subscribe
<1>3. ASSUME NEW t \in Topics, Unsubscribe(t) PROVE NoDuplicateSubscription'
  <2>1. CASE UNCHANGED subs
    BY <1>1, <1>3, <2>1 DEF Unsubscribe
  <2>2. ASSUME NEW c \in clients, subs' = [subs EXCEPT ![c] = @ \ {t}]
        PROVE  NoDuplicateSubscription'
    <3>1. clients' = clients /\ \A d \in clients : subs'[d] \subseteq subs[d]
      BY <1>a, <2>2 DEF clients
    <3>2. pending' = pending
      BY <1>3 DEF Unsubscribe
    <3> QED
      BY <1>a, <3>1, <3>2 DEF NoDuplicateSubscription, Distinct, Entries
  <2> QED
    BY <1>3, <2>1, <2>2 DEF Unsubscribe
<1>4. ASSUME NEW id \in clients, OnConnectionOpen(id) PROVE NoDuplicateSubscription'
  <2>1. PICK k \in 0 .. Len(pending) :
            /\ pending' = SubSeq(pending, 1, Len(pending) - k)
            /\ LET drained == [subs EXCEPT ![id] = @ \cup Popped(k)]
               IN IF k < Len(pending)
                  THEN AddClient(drained, FALSE)
                  ELSE /\ subs' = drained
                       /\ adding' = FALSE
                       /\ UNCHANGED <<nextId, dialing>>
    BY <1>4 DEF OnConnectionOpen
  <2> DEFINE drained == [subs EXCEPT ![id] = @ \cup Popped(k)]
             P == Entries(pending')
  <2>2. /\ Entries(pending) = P \cup Popped(k)
        /\ Popped(k) \subseteq Topics
        /\ P \cap Popped(k) = {}
        /\ Distinct(pending')
    BY <1>a, <2>1, DrainSplits, DrainDistinct
  <2>3. /\ DOMAIN drained = clients /\ drained \in [clients -> SUBSET Topics]
        /\ \A c \in clients :
              drained[c] = IF c = id THEN subs[id] \cup Popped(k) ELSE subs[c]
    BY <1>a, <2>2
  <2> HIDE DEF drained, P
  <2>4. \A c, d \in clients : c # d => drained[c] \cap drained[d] = {}
    BY <1>a, <2>2, <2>3
  <2>5. \A c \in clients : drained[c] \cap P = {}
    BY <1>a, <2>2, <2>3
  <2>6. /\ \A c, d \in clients' : c # d => subs'[c] \cap subs'[d] = {}
        /\ \A c \in clients' : subs'[c] \cap P = {}
    <3>1. CASE AddClient(drained, FALSE)
      BY <2>3, <2>4, <2>5, <3>1, NoDuplicateAddClient
    <3>2. CASE subs' = drained
      BY <2>3, <2>4, <2>5, <3>2 DEF clients
    <3> QED
      BY <2>1, <3>1, <3>2 DEF drained
  <2> QED
    BY <2>2, <2>6 DEF NoDuplicateSubscription, Distinct, Entries, P
<1>5. ASSUME NEW id \in clients, OnConnectionClose(id) PROVE NoDuplicateSubscription'
  <2>1. clients' = clients \ {id} /\ \A c \in clients' : subs'[c] = subs[c]
    BY <1>5 DEF OnConnectionClose, WithoutClient, clients
  <2>2. CASE UNCHANGED pending
    BY <1>a, <2>1, <2>2 DEF NoDuplicateSubscription, Distinct, Entries
  <2>3. ASSUME NEW order \in Orders(subs[id]), pending' = pending \o order
        PROVE  NoDuplicateSubscription'
    <3>1. /\ order \in Seq(Topics) /\ Entries(order) = subs[id] /\ Distinct(order)
      BY <1>a, OrderOfSubs DEF Distinct
    <3>2. Entries(pending') = Entries(pending) \cup subs[id]
      BY <1>a, <2>3, <3>1, EntriesConcat
    <3>3. Distinct(pending')
      BY <1>a, <2>3, <3>1, DistinctConcat
    <3>4. \A c \in clients' : subs'[c] \cap Entries(pending') = {}
      BY <1>a, <2>1, <3>2
    <3>5. \A c, d \in clients' : c # d => subs'[c] \cap subs'[d] = {}
      BY <1>a, <2>1
    <3> QED
      BY <3>3, <3>4, <3>5 DEF NoDuplicateSubscription, Distinct, Entries
  <2> QED
    BY <1>5, <2>2, <2>3 DEF OnConnectionClose
<1>6. CASE RetryTimer
  <2>1. AddClient(subs, adding) /\ pending' = pending
    BY <1>6 DEF RetryTimer
  <2> DEFINE P == Entries(pending)
  <2>2. /\ \A c, d \in clients' : c # d => subs'[c] \cap subs'[d] = {}
        /\ \A c \in clients' : subs'[c] \cap P = {}
    <3> HIDE DEF P
    <3> QED
      BY <1>a, <2>1, NoDuplicateAddClient DEF P
  <2> QED
    BY <1>a, <2>1, <2>2 DEF NoDuplicateSubscription, Distinct, Entries
<1>7. ASSUME NEW k \in Keys, Join(k) \/ Part(k) PROVE UNCHANGED <<subs, pending>>
  BY <1>7 DEF Join, Part
<1>8. CASE Stop \/ UNCHANGED vars
  BY <1>1, <1>8 DEF Stop, vars, gui
<1>9. CASE WsThread
  BY <1>1, <1>9 DEF WsThread, WsOpen, WsClose, gui
<1> QED
  BY <1>1, <1>2, <1>3, <1>4, <1>5, <1>6, <1>7, <1>8, <1>9 DEF Next, GuiLoop

\* No topic is ever subscribed on two connections, or on one and in the backlog,
\* or twice in the backlog: TypeOK and the property together are inductive.
THEOREM NoDuplicateHolds == Spec => []NoDuplicateSubscription
BY TypeCorrect, NoDuplicateInit, NoDuplicateStep, PTL DEF Spec

--------------------------------------------------------------------------------
(* A backlog never waits for nothing *)

\* A new client's id is not in use, and addingClient_ is set only while some
\* client has not opened: what the property needs of the flag to be inductive.
AddingHasDial ==
    /\ \A c \in clients : c < nextId
    /\ adding => clients \ opened # {}

DriverInv == AddingHasDial /\ BacklogHasDriver

LEMMA DriverInit == Init => DriverInv
BY DEF Init, DriverInv, AddingHasDial, BacklogHasDriver, clients

\* After addClient() there is an unopened client, unless the pool is gone.
LEMMA DriverAddClient ==
    ASSUME TypeOK, NEW s, DOMAIN s = clients, s \in [clients -> SUBSET Topics],
           NEW b \in BOOLEAN, AddClient(s, b),
           \A c \in clients : c < nextId,
           NEW o \in SUBSET clients, b => clients \ o # {}
    PROVE  /\ \A c \in clients' : c < nextId'
           /\ adding' => clients' \ o # {}
           /\ ~stopping => clients' \ o # {}
<1>1. CASE b \/ stopping
  <2>1. subs' = s /\ adding' = b /\ nextId' = nextId /\ clients' = clients
    BY <1>1 DEF AddClient, clients
  <2> QED
    BY <1>1, <2>1
<1>2. CASE ~(b \/ stopping)
  <2>1. clients' = clients \cup {nextId} /\ nextId' = nextId + 1 /\ adding' = TRUE
    BY <1>2 DEF AddClient, clients
  <2>2. nextId \in Nat /\ clients \subseteq Nat
    BY DEF TypeOK
  <2>3. nextId \notin clients
    BY <2>2
  <2>4. nextId \in clients' \ o
    BY <2>1, <2>3
  <2>5. \A c \in clients' : c < nextId'
    BY <2>1, <2>2
  <2> QED
    BY <2>4, <2>5
<1> QED
  BY <1>1, <1>2

LEMMA DriverStep == TypeOK /\ DriverInv /\ [Next]_vars => DriverInv'
<1> SUFFICES ASSUME TypeOK, DriverInv, [Next]_vars PROVE DriverInv'
  OBVIOUS
<1>a. /\ \A c \in clients : c < nextId
      /\ adding => clients \ opened # {}
      /\ pending # <<>> /\ ~stopping => clients \ opened # {} \/ timers > 0
      /\ opened \subseteq clients /\ timers \in Nat /\ nextId \in Nat
      /\ DOMAIN subs = clients /\ subs \in [clients -> SUBSET Topics]
      /\ adding \in BOOLEAN /\ clients \subseteq Nat
  BY DEF TypeOK, DriverInv, AddingHasDial, BacklogHasDriver, clients
<1>1. CASE /\ UNCHANGED <<pending, timers, nextId, adding, opened>>
           /\ clients' = clients
           /\ stopping => stopping'
  BY <1>a, <1>1 DEF DriverInv, AddingHasDial, BacklogHasDriver
<1>2. ASSUME NEW t \in Topics, Subscribe(t) PROVE DriverInv'
  <2>1. opened' = opened /\ timers' = timers /\ stopping' = stopping
    BY <1>2 DEF Subscribe
  <2>2. CASE UNCHANGED <<subs, pending, nextId, adding, dialing>>
    BY <1>1, <2>1, <2>2 DEF clients
  <2>3. ASSUME NEW c \in clients, subs' = [subs EXCEPT ![c] = @ \cup {t}],
               UNCHANGED <<pending, nextId, adding, dialing>>
        PROVE  DriverInv'
    BY <1>1, <2>1, <2>3 DEF clients
  <2>4. CASE AddClient(subs, adding)
    <3>1. /\ \A c \in clients' : c < nextId'
          /\ adding' => clients' \ opened # {}
          /\ ~stopping => clients' \ opened # {}
      BY <1>a, <2>4, DriverAddClient
    <3> QED
      BY <2>1, <3>1 DEF DriverInv, AddingHasDial, BacklogHasDriver
  <2> QED
    BY <1>2, <2>2, <2>3, <2>4 DEF Subscribe
<1>3. ASSUME NEW t \in Topics, Unsubscribe(t) PROVE DriverInv'
  <2>1. UNCHANGED <<pending, timers, nextId, adding, opened, stopping>>
    BY <1>3 DEF Unsubscribe
  <2>2. clients' = clients
    BY <1>3 DEF Unsubscribe, clients
  <2> QED
    BY <1>1, <2>1, <2>2
<1>4. ASSUME NEW id \in clients, OnConnectionOpen(id) PROVE DriverInv'
  <2>1. PICK k \in 0 .. Len(pending) :
            /\ pending' = SubSeq(pending, 1, Len(pending) - k)
            /\ LET drained == [subs EXCEPT ![id] = @ \cup Popped(k)]
               IN IF k < Len(pending)
                  THEN AddClient(drained, FALSE)
                  ELSE /\ subs' = drained
                       /\ adding' = FALSE
                       /\ UNCHANGED <<nextId, dialing>>
    BY <1>4 DEF OnConnectionOpen
  <2>2. opened' = opened \cup {id} /\ timers' = timers /\ stopping' = stopping
    BY <1>4 DEF OnConnectionOpen
  <2> DEFINE drained == [subs EXCEPT ![id] = @ \cup Popped(k)]
             o == opened \cup {id}
  <2>3. /\ pending \in Seq(Topics) /\ Popped(k) \subseteq Topics
        /\ Len(pending') = Len(pending) - k /\ pending' \in Seq(Topics)
    BY <2>1, DrainSplits DEF TypeOK
  <2>4. DOMAIN drained = clients /\ drained \in [clients -> SUBSET Topics]
    BY <1>a, <2>3
  <2>5. o \in SUBSET clients
    BY <1>a
  <2> HIDE DEF drained, o
  <2>6. CASE AddClient(drained, FALSE)
    <3>1. /\ \A c \in clients' : c < nextId'
          /\ adding' => clients' \ o # {}
          /\ ~stopping => clients' \ o # {}
      BY <1>a, <2>4, <2>5, <2>6, DriverAddClient
    <3> QED
      BY <2>2, <3>1 DEF DriverInv, AddingHasDial, BacklogHasDriver, o
  <2>7. CASE /\ ~(k < Len(pending))
             /\ subs' = drained /\ adding' = FALSE /\ nextId' = nextId
    <3>1. Len(pending') = 0
      BY <2>3, <2>7, LenProperties
    <3>2. pending' = <<>>
      BY <2>3, <3>1, EmptySeq
    <3>3. clients' = clients
      BY <2>4, <2>7 DEF clients
    <3> QED
      BY <1>a, <2>2, <2>7, <3>2, <3>3 DEF DriverInv, AddingHasDial, BacklogHasDriver
  <2> QED
    BY <2>1, <2>6, <2>7 DEF drained
<1>5. ASSUME NEW id \in clients, OnConnectionClose(id) PROVE DriverInv'
  <2>1. /\ clients' = clients \ {id} /\ opened' = opened \ {id}
        /\ adding' = FALSE /\ nextId' = nextId /\ stopping' = stopping
    BY <1>5 DEF OnConnectionClose, WithoutClient, clients
  <2>2. AddingHasDial'
    BY <1>a, <2>1 DEF AddingHasDial
  <2>3. BacklogHasDriver'
    <3>1. CASE stopping
      BY <2>1, <3>1 DEF BacklogHasDriver
    <3>2. CASE timers' = timers + 1
      BY <1>a, <3>2 DEF BacklogHasDriver
    <3>3. CASE id \in opened /\ UNCHANGED <<pending, timers>>
      BY <1>a, <2>1, <3>3 DEF BacklogHasDriver
    <3> QED
      BY <1>5, <3>1, <3>2, <3>3 DEF OnConnectionClose
  <2> QED
    BY <2>2, <2>3 DEF DriverInv
<1>6. CASE RetryTimer
  <2>1. AddClient(subs, adding) /\ UNCHANGED <<opened, stopping>>
    BY <1>6 DEF RetryTimer
  <2>2. /\ \A c \in clients' : c < nextId'
        /\ adding' => clients' \ opened # {}
        /\ ~stopping => clients' \ opened # {}
    BY <1>a, <2>1, DriverAddClient
  <2> QED
    BY <2>1, <2>2 DEF DriverInv, AddingHasDial, BacklogHasDriver
<1>7. ASSUME NEW k \in Keys, Join(k) \/ Part(k) PROVE DriverInv'
  BY <1>1, <1>7 DEF Join, Part, clients
<1>8. CASE Stop \/ UNCHANGED vars
  BY <1>1, <1>8 DEF Stop, vars, gui, clients
<1>9. CASE WsThread
  BY <1>1, <1>9 DEF WsThread, WsOpen, WsClose, gui, clients
<1> QED
  BY <1>2, <1>3, <1>4, <1>5, <1>6, <1>7, <1>8, <1>9 DEF Next, GuiLoop

\* Until the manager stops, topics in the backlog always have an unopened client
\* or a retry timer that will take them up, although one flag guards all dials
\* and every open and close clears it.
THEOREM BacklogHasDriverHolds == Spec => []BacklogHasDriver
<1>1. Spec => []DriverInv
  BY TypeCorrect, DriverInit, DriverStep, PTL DEF Spec
<1>2. DriverInv => BacklogHasDriver
  BY DEF DriverInv
<1> QED
  BY <1>1, <1>2, PTL

--------------------------------------------------------------------------------
(* A joined key's topics are never lost *)

\* While a handler is unsubscribing, no joined key asks for what it drops: the key
\* has left the set before, keys share no topics, and no join runs in between.
UnsubscribesUnwanted ==
    \A t \in Topics : <<"unsubscribe", t>> \in calls =>
        \A k \in wanted : t \notin Joins[k]

WantedInv == UnsubscribesUnwanted /\ WantedIsTracked

\* A step that forgets no topic and adds no wanted key keeps the property.
LEMMA TrackedGrows ==
    ASSUME WantedIsTracked, Tracked \subseteq Tracked', wanted' \subseteq wanted,
           stopping => stopping'
    PROVE  WantedIsTracked'
BY DEF WantedIsTracked

LEMMA WantedInit == Init => WantedInv
BY DEF Init, WantedInv, UnsubscribesUnwanted, WantedIsTracked

LEMMA WantedStep == TypeOK /\ WantedInv /\ [Next]_vars => WantedInv'
<1> SUFFICES ASSUME TypeOK, WantedInv, [Next]_vars PROVE WantedInv'
  OBVIOUS
<1>a. /\ DOMAIN subs = clients /\ subs \in [clients -> SUBSET Topics]
      /\ pending \in Seq(Topics) /\ adding \in BOOLEAN
      /\ wanted \subseteq Keys
      /\ UnsubscribesUnwanted /\ WantedIsTracked
  BY DEF TypeOK, WantedInv, clients
<1>b. \A t : t \in Tracked <=>
               ( \/ \E c \in clients : t \in subs[c]
                 \/ t \in Entries(pending)
                 \/ (t \in Topics /\ <<"subscribe", t>> \in calls) )
  BY DEF Tracked
<1>c. \A t : t \in Tracked' <=>
               ( \/ \E c \in clients' : t \in subs'[c]
                 \/ t \in Entries(pending')
                 \/ (t \in Topics /\ <<"subscribe", t>> \in calls') )
  BY DEF Tracked
<1>1. ASSUME NEW k \in Keys, Join(k) PROVE WantedInv'
  <2>1. /\ wanted' = wanted \cup {k} /\ calls = {}
        /\ calls' = {"subscribe"} \X Joins[k] /\ stopping' = stopping
        /\ subs' = subs /\ pending' = pending
    BY <1>1 DEF Join, GuiIdle
  <2>2. UnsubscribesUnwanted'
    <3>1. \A t \in Topics : <<"unsubscribe", t>> \notin calls'
      BY <2>1
    <3> QED
      BY <3>1 DEF UnsubscribesUnwanted
  <2>3. Tracked \subseteq Tracked' /\ Joins[k] \subseteq Tracked'
    <3>1. clients' = clients /\ Entries(pending') = Entries(pending)
      BY <2>1 DEF clients, Entries
    <3>2. Joins[k] \subseteq Topics
      BY TopicsAssumption
    <3> QED
      BY <1>b, <1>c, <2>1, <3>1, <3>2
  <2>4. WantedIsTracked'
    BY <1>a, <2>1, <2>3 DEF WantedIsTracked
  <2> QED
    BY <2>2, <2>4 DEF WantedInv
<1>2. ASSUME NEW k \in Keys, Part(k) PROVE WantedInv'
  <2>1. /\ wanted' = wanted \ {k} /\ calls = {}
        /\ calls' = {"unsubscribe"} \X Parts[k] /\ stopping' = stopping
        /\ subs' = subs /\ pending' = pending
    BY <1>2 DEF Part, GuiIdle
  <2>2. UnsubscribesUnwanted'
    <3>1. \A t \in Topics : <<"unsubscribe", t>> \in calls' => t \in Joins[k]
      BY <2>1, TopicsAssumption
    <3>2. \A l \in wanted' : l \in Keys /\ l # k
      BY <1>a, <2>1
    <3> QED
      BY <3>1, <3>2, TopicsAssumption DEF UnsubscribesUnwanted
  <2>3. Tracked \subseteq Tracked'
    BY <1>b, <1>c, <2>1 DEF clients, Entries
  <2> QED
    BY <1>a, <2>1, <2>2, <2>3, TrackedGrows DEF WantedInv
<1>3. ASSUME calls' \subseteq calls, wanted' = wanted, stopping' = stopping,
             Tracked \subseteq Tracked'
      PROVE  WantedInv'
  <2>1. UnsubscribesUnwanted'
    BY <1>a, <1>3 DEF UnsubscribesUnwanted
  <2> QED
    BY <1>a, <1>3, <2>1, TrackedGrows DEF WantedInv
<1>4. ASSUME NEW t \in Topics, Subscribe(t) PROVE WantedInv'
  <2>1. /\ calls' = calls \ {<<"subscribe", t>>}
        /\ wanted' = wanted /\ stopping' = stopping
    BY <1>4 DEF Subscribe
  <2>2. \A u \in Topics : u # t => (<<"subscribe", u>> \in calls
                                     => <<"subscribe", u>> \in calls')
    BY <2>1
  <2>3. CASE IsSubscribed(t) /\ UNCHANGED <<subs, pending>>
    <3>1. Tracked \subseteq Tracked'
      BY <1>b, <1>c, <2>2, <2>3 DEF IsSubscribed, clients, Entries
    <3> QED
      BY <1>3, <2>1, <3>1
  <2>4. ASSUME NEW c \in clients, subs' = [subs EXCEPT ![c] = @ \cup {t}],
               UNCHANGED pending
        PROVE  WantedInv'
    <3>1. /\ clients' = clients /\ Entries(pending') = Entries(pending)
          /\ \A d \in clients : subs[d] \subseteq subs'[d]
          /\ t \in subs'[c]
      BY <1>a, <2>4 DEF clients, Entries
    <3>2. Tracked \subseteq Tracked'
      BY <1>b, <1>c, <2>2, <2>4, <3>1
    <3> QED
      BY <1>3, <2>1, <3>2
  <2>5. CASE AddClient(subs, adding) /\ pending' = Append(pending, t)
    <3>1. clients \subseteq clients' /\ \A d \in clients : subs'[d] = subs[d]
      BY <1>a, <2>5, AddClientStep
    <3>2. Entries(pending') = Entries(pending) \cup {t}
      BY <1>a, <2>5, EntriesAppend
    <3>3. Tracked \subseteq Tracked'
      BY <1>b, <1>c, <2>2, <3>1, <3>2
    <3> QED
      BY <1>3, <2>1, <3>3
  <2> QED
    BY <1>4, <2>3, <2>4, <2>5 DEF Subscribe
<1>5. ASSUME NEW t \in Topics, Unsubscribe(t) PROVE WantedInv'
  <2>1. /\ calls' \subseteq calls /\ <<"unsubscribe", t>> \in calls
        /\ \A u \in Topics : <<"subscribe", u>> \in calls
                                => <<"subscribe", u>> \in calls'
        /\ wanted' = wanted /\ stopping' = stopping /\ pending' = pending
    BY <1>5 DEF Unsubscribe
  <2>2. /\ clients' = clients
        /\ \A d \in clients : subs[d] \ {t} \subseteq subs'[d]
    BY <1>5, <1>a DEF Unsubscribe, clients
  <2>3. Tracked \ {t} \subseteq Tracked'
    BY <1>b, <1>c, <2>1, <2>2 DEF Entries
  <2>4. \A k \in wanted : t \notin Joins[k]
    BY <1>a, <2>1 DEF UnsubscribesUnwanted
  <2>5. WantedIsTracked'
    BY <1>a, <2>1, <2>3, <2>4 DEF WantedIsTracked
  <2>6. UnsubscribesUnwanted'
    BY <1>a, <2>1 DEF UnsubscribesUnwanted
  <2> QED
    BY <2>5, <2>6 DEF WantedInv
<1>6. ASSUME NEW id \in clients, OnConnectionOpen(id) PROVE WantedInv'
  <2>1. PICK k \in 0 .. Len(pending) :
            /\ pending' = SubSeq(pending, 1, Len(pending) - k)
            /\ LET drained == [subs EXCEPT ![id] = @ \cup Popped(k)]
               IN IF k < Len(pending)
                  THEN AddClient(drained, FALSE)
                  ELSE /\ subs' = drained
                       /\ adding' = FALSE
                       /\ UNCHANGED <<nextId, dialing>>
    BY <1>6 DEF OnConnectionOpen
  <2> DEFINE drained == [subs EXCEPT ![id] = @ \cup Popped(k)]
  <2>2. /\ Entries(pending) = Entries(pending') \cup Popped(k)
        /\ Popped(k) \subseteq Topics
    BY <1>a, <2>1, DrainSplits
  <2>3. /\ DOMAIN drained = clients /\ drained \in [clients -> SUBSET Topics]
        /\ \A d \in clients : subs[d] \subseteq drained[d]
        /\ Popped(k) \subseteq drained[id]
    BY <1>a, <2>2
  <2> HIDE DEF drained
  <2>4. clients \subseteq clients' /\ \A d \in clients : subs'[d] = drained[d]
    <3>1. CASE AddClient(drained, FALSE)
      BY <2>3, <3>1, AddClientStep
    <3>2. CASE subs' = drained
      BY <2>3, <3>2 DEF clients
    <3> QED
      BY <2>1, <3>1, <3>2 DEF drained
  <2>5. UNCHANGED <<calls, wanted, stopping>>
    BY <1>6 DEF OnConnectionOpen
  <2>6. Tracked \subseteq Tracked'
    BY <1>b, <1>c, <2>2, <2>3, <2>4, <2>5
  <2> QED
    BY <1>3, <2>5, <2>6
<1>7. ASSUME NEW id \in clients, OnConnectionClose(id) PROVE WantedInv'
  <2>1. /\ clients' = clients \ {id} /\ \A c \in clients' : subs'[c] = subs[c]
        /\ wanted' = wanted /\ stopping' = stopping /\ calls = {}
    BY <1>7 DEF OnConnectionClose, WithoutClient, clients, GuiIdle
  <2>2. UnsubscribesUnwanted'
    <3>1. \A t \in Topics : <<"unsubscribe", t>> \notin calls'
      BY <1>7, <2>1 DEF OnConnectionClose
    <3> QED
      BY <3>1 DEF UnsubscribesUnwanted
  <2>3. CASE stopping
    BY <2>1, <2>2, <2>3 DEF WantedInv, WantedIsTracked
  <2>4. ASSUME NEW order \in Orders(subs[id]), pending' = pending \o order
        PROVE  Tracked \subseteq Tracked'
    <3>1. order \in Seq(Topics) /\ Entries(order) = subs[id]
      BY <1>a, OrderOfSubs
    <3>2. Entries(pending') = Entries(pending) \cup subs[id]
      BY <1>a, <2>4, <3>1, EntriesConcat
    <3> QED
      BY <1>b, <1>c, <2>1, <3>2
  <2>5. ASSUME calls' = {"subscribe"} \X subs[id], UNCHANGED pending
        PROVE  Tracked \subseteq Tracked'
    <3>1. subs[id] \subseteq Topics /\ Entries(pending') = Entries(pending)
      BY <1>a, <2>5 DEF Entries
    <3> QED
      BY <1>b, <1>c, <2>1, <2>5, <3>1
  <2>6. ~stopping => Tracked \subseteq Tracked'
    BY <1>7, <2>4, <2>5 DEF OnConnectionClose
  <2> QED
    BY <1>a, <2>1, <2>2, <2>3, <2>6, TrackedGrows DEF WantedInv
<1>8. CASE RetryTimer
  <2>1. AddClient(subs, adding) /\ UNCHANGED <<pending, wanted, calls, stopping>>
    BY <1>8 DEF RetryTimer
  <2>2. clients \subseteq clients' /\ \A d \in clients : subs'[d] = subs[d]
    BY <1>a, <2>1, AddClientStep
  <2>3. Tracked \subseteq Tracked'
    BY <1>b, <1>c, <2>1, <2>2 DEF Entries
  <2> QED
    BY <1>3, <2>1, <2>3
<1>9. CASE Stop
  <2>1. UNCHANGED calls /\ UNCHANGED wanted /\ stopping' = TRUE
    BY <1>9 DEF Stop
  <2> QED
    BY <1>a, <2>1 DEF WantedInv, UnsubscribesUnwanted, WantedIsTracked
<1>10. CASE UNCHANGED gui
  BY <1>a, <1>10 DEF gui, WantedInv, UnsubscribesUnwanted, WantedIsTracked, Tracked,
                     clients, Entries
<1> QED
  BY <1>1, <1>2, <1>4, <1>5, <1>6, <1>7, <1>8, <1>9, <1>10
     DEF Next, GuiLoop, WsThread, WsOpen, WsClose, vars

\* A key that was joined and not parted keeps every one of its topics in some
\* client, in the backlog or in a call about to be made, across any number of
\* failed and lost connections.
THEOREM WantedIsTrackedHolds == Spec => []WantedIsTracked
<1>1. Spec => []WantedInv
  BY TypeCorrect, WantedInit, WantedStep, PTL DEF Spec
<1>2. WantedInv => WantedIsTracked
  BY DEF WantedInv
<1> QED
  BY <1>1, <1>2, PTL
--------------------------------------------------------------------------------
(* No client is overfilled *)

\* A client that has room may take one more.
LEMMA OneMore ==
    ASSUME NEW S \in SUBSET Topics, NEW t \in Topics, Cardinality(S) < MaxSubs
    PROVE  Cardinality(S \cup {t}) <= MaxSubs
<1>1. IsFiniteSet(S) /\ Cardinality(S) \in Nat
  BY TopicsAssumption, FS_Subset, FS_CardinalityType
<1>2. Cardinality(S \cup {t}) \in {Cardinality(S), Cardinality(S) + 1}
  BY <1>1, FS_AddElement
<1> QED
  BY <1>1, <1>2, BoundsAssumption

\* The k-th pop takes one entry more than the first k - 1.
LEMMA PoppedStep ==
    ASSUME pending \in Seq(Topics), NEW k \in 1 .. Len(pending)
    PROVE  /\ Popped(0) = {}
           /\ pending[Len(pending) - k + 1] \in Topics
           /\ Popped(k) = Popped(k - 1) \cup {pending[Len(pending) - k + 1]}
<1> DEFINE n == Len(pending)
<1>1. n \in Nat /\ k \in Nat /\ k >= 1 /\ k <= n
  BY LenProperties
<1>2. /\ n - 0 + 1 .. n = {}
      /\ n - k + 1 \in 1 .. n
      /\ n - k + 1 .. n = (n - (k - 1) + 1 .. n) \cup {n - k + 1}
  <2> HIDE DEF n
  <2> QED
    BY <1>1
<1>3. pending[n - k + 1] \in Topics
  BY <1>2, ElementOfSeq
<1> QED
  BY <1>2, <1>3 DEF Popped

\* The drain loop stops at the limit: whatever it has taken, the last entry found
\* room before.
LEMMA DrainFits ==
    ASSUME TypeOK, NEW id \in clients, NEW k \in 0 .. Len(pending), Drains(id, k),
           Cardinality(subs[id]) <= MaxSubs
    PROVE  Cardinality(subs[id] \cup Popped(k)) <= MaxSubs
<1>1. pending \in Seq(Topics) /\ subs[id] \in SUBSET Topics /\ Len(pending) \in Nat
  BY LenProperties DEF TypeOK
<1>2. CASE k = 0
  <2>1. Popped(0) = {}
    <3>1. Len(pending) - 0 + 1 .. Len(pending) = {}
      BY <1>1
    <3> QED
      BY <3>1 DEF Popped
  <2> QED
    BY <1>2, <2>1
<1>3. CASE k # 0
  <2>1. k \in 1 .. Len(pending) /\ k - 1 \in 0 .. k - 1 /\ k - 1 \in 0 .. Len(pending)
    BY <1>1, <1>3
  <2>2. Cardinality(subs[id] \cup Popped(k - 1)) < MaxSubs
    BY <2>1 DEF Drains
  <2>3. Popped(k - 1) \subseteq Topics
    BY <1>1, <2>1, DrainSplits
  <2>4. PICK t \in Topics : Popped(k) = Popped(k - 1) \cup {t}
    BY <1>1, <2>1, PoppedStep
  <2>5. subs[id] \cup Popped(k) = (subs[id] \cup Popped(k - 1)) \cup {t}
    BY <2>4
  <2> DEFINE S == subs[id] \cup Popped(k - 1)
  <2>6. S \in SUBSET Topics /\ Cardinality(S) < MaxSubs
    BY <1>1, <2>2, <2>3
  <2> HIDE DEF S
  <2>7. Cardinality(S \cup {t}) <= MaxSubs
    BY <2>6, OneMore
  <2> QED
    BY <2>5, <2>7 DEF S
<1> QED
  BY <1>2, <1>3

\* A new client holds nothing.
LEMMA AddClientFits ==
    ASSUME TypeOK, NEW s, DOMAIN s = clients, s \in [clients -> SUBSET Topics],
           NEW b \in BOOLEAN, AddClient(s, b),
           \A c \in clients : Cardinality(s[c]) <= MaxSubs
    PROVE  WithinCapacity'
<1>1. /\ \A c \in clients : subs'[c] = s[c]
      /\ \A c \in clients' \ clients : subs'[c] = {}
  BY AddClientStep
<1>2. Cardinality({}) <= MaxSubs
  BY FS_EmptySet, BoundsAssumption
<1> QED
  BY <1>1, <1>2 DEF WithinCapacity

LEMMA CapacityStep == TypeOK /\ WithinCapacity /\ [Next]_vars => WithinCapacity'
<1> SUFFICES ASSUME TypeOK, WithinCapacity, [Next]_vars PROVE WithinCapacity'
  OBVIOUS
<1>a. /\ DOMAIN subs = clients /\ subs \in [clients -> SUBSET Topics]
      /\ adding \in BOOLEAN /\ pending \in Seq(Topics)
      /\ \A c \in clients : Cardinality(subs[c]) <= MaxSubs
  BY DEF TypeOK, WithinCapacity, clients
<1>1. CASE UNCHANGED subs
  BY <1>a, <1>1 DEF WithinCapacity, clients
<1>2. ASSUME NEW t \in Topics, Subscribe(t) PROVE WithinCapacity'
  <2>1. ASSUME NEW c \in clients, HasRoom(c), subs' = [subs EXCEPT ![c] = @ \cup {t}]
        PROVE  WithinCapacity'
    <3>1. clients' = clients /\ \A d \in clients : subs'[d] = IF d = c THEN subs[c] \cup {t} ELSE subs[d]
      BY <1>a, <2>1 DEF clients
    <3>2. Cardinality(subs[c] \cup {t}) <= MaxSubs
      BY <1>a, <2>1, OneMore DEF HasRoom
    <3> QED
      BY <1>a, <3>1, <3>2 DEF WithinCapacity
  <2>2. CASE AddClient(subs, adding)
    BY <1>a, <2>2, AddClientFits
  <2> QED
    BY <1>1, <1>2, <2>1, <2>2 DEF Subscribe
<1>3. ASSUME NEW t \in Topics, Unsubscribe(t) PROVE WithinCapacity'
  <2>1. ASSUME NEW c \in clients, subs' = [subs EXCEPT ![c] = @ \ {t}]
        PROVE  WithinCapacity'
    <3>1. clients' = clients /\ \A d \in clients : subs'[d] \in SUBSET subs[d]
      BY <1>a, <2>1 DEF clients
    <3>2. \A d \in clients : IsFiniteSet(subs[d]) /\ Cardinality(subs[d]) \in Nat
      BY <1>a, TopicsAssumption, FS_Subset, FS_CardinalityType
    <3>3. ASSUME NEW d \in clients PROVE Cardinality(subs'[d]) <= MaxSubs
      <4>1. /\ Cardinality(subs'[d]) <= Cardinality(subs[d])
            /\ IsFiniteSet(subs'[d])
        BY <3>1, <3>2, FS_Subset
      <4>2. Cardinality(subs'[d]) \in Nat
        BY <4>1, FS_CardinalityType
      <4> QED
        BY <1>a, <3>2, <4>1, <4>2, BoundsAssumption
    <3> QED
      BY <3>1, <3>3 DEF WithinCapacity
  <2> QED
    BY <1>1, <1>3, <2>1 DEF Unsubscribe
<1>4. ASSUME NEW id \in clients, OnConnectionOpen(id) PROVE WithinCapacity'
  <2>1. PICK k \in 0 .. Len(pending) :
            /\ Drains(id, k)
            /\ LET drained == [subs EXCEPT ![id] = @ \cup Popped(k)]
               IN IF k < Len(pending)
                  THEN AddClient(drained, FALSE)
                  ELSE /\ subs' = drained
                       /\ adding' = FALSE
                       /\ UNCHANGED <<nextId, dialing>>
    BY <1>4 DEF OnConnectionOpen
  <2> DEFINE drained == [subs EXCEPT ![id] = @ \cup Popped(k)]
  <2>2. Popped(k) \subseteq Topics
    BY <1>a, DrainSplits
  <2>3. DOMAIN drained = clients /\ drained \in [clients -> SUBSET Topics]
    BY <1>a, <2>2
  <2>4. Cardinality(subs[id] \cup Popped(k)) <= MaxSubs
    BY <1>a, <2>1, DrainFits
  <2>5. \A c \in clients : Cardinality(drained[c]) <= MaxSubs
    BY <1>a, <2>4
  <2> HIDE DEF drained
  <2>6. CASE AddClient(drained, FALSE)
    BY <2>3, <2>5, <2>6, AddClientFits
  <2>7. CASE subs' = drained
    BY <2>3, <2>5, <2>7 DEF WithinCapacity, clients
  <2> QED
    BY <2>1, <2>6, <2>7 DEF drained
<1>5. ASSUME NEW id \in clients, OnConnectionClose(id) PROVE WithinCapacity'
  <2>1. clients' = clients \ {id} /\ \A c \in clients' : subs'[c] = subs[c]
    BY <1>5 DEF OnConnectionClose, WithoutClient, clients
  <2> QED
    BY <1>a, <2>1 DEF WithinCapacity
<1>6. CASE RetryTimer
  BY <1>a, <1>6, AddClientFits DEF RetryTimer
<1> QED
  BY <1>1, <1>2, <1>3, <1>4, <1>5, <1>6
     DEF Next, GuiLoop, WsThread, WsOpen, WsClose, Join, Part, Stop, vars, gui

\* No client ever holds more topics than its server allows, whichever of the
\* three paths gives it one, for every limit.
THEOREM WithinCapacityHolds == Spec => []WithinCapacity
<1>1. Init => WithinCapacity
  BY DEF Init, WithinCapacity, clients
<1> QED
  BY <1>1, TypeCorrect, CapacityStep, PTL DEF Spec

--------------------------------------------------------------------------------
(* Events and clients *)

\* A socket belongs to a client, and one that is being dialled has not been
\* reported open.
SocketsMatch ==
    /\ \A c \in clients : c < nextId
    /\ dialing \cup up \subseteq clients
    /\ dialing \cap (up \cup opened) = {}

EventsInv == SocketsMatch /\ EventsMatchClients

\* The parts of EventsMatchClients, for a queue e, clients C and their states.
QueueOrdered(e) ==
    \A i, j \in DOMAIN e :
        i < j /\ e[i][2] = e[j][2] => e[i][1] = "open" /\ e[j][1] = "close"

Has(e, kind, id) == \E i \in DOMAIN e : e[i] = <<kind, id>>

QueueMatches(e, C, o, d, u) ==
    \A id \in C :
        /\ Has(e, "open", id) => id \notin o \cup d
        /\ Has(e, "close", id) => id \notin d \cup u
        /\ id \in o \/ id \in d \/ Has(e, "open", id) \/ Has(e, "close", id)
        /\ id \in d \/ id \in u \/ Has(e, "close", id)

Known(e, C) == \A i \in DOMAIN e : e[i][2] \in C

LEMMA EventsMatchParts ==
    EventsMatchClients <=>
        /\ Known(events, clients)
        /\ QueueOrdered(events)
        /\ QueueMatches(events, clients, opened, dialing, up)
BY DEF EventsMatchClients, Known, QueueOrdered, QueueMatches, Has, Posted, Entries

LEMMA EventsMatchPartsPrime ==
    EventsMatchClients' <=>
        /\ Known(events', clients')
        /\ QueueOrdered(events')
        /\ QueueMatches(events', clients', opened', dialing', up')
BY DEF EventsMatchClients, Known, QueueOrdered, QueueMatches, Has, Posted, Entries

Events == {"open", "close"} \X Nat

\* An event that is appended.
LEMMA QueueAppend ==
    ASSUME NEW e \in Seq(Events), NEW kind \in {"open", "close"}, NEW id \in Nat
    PROVE  LET longer == Append(e, <<kind, id>>)
           IN  /\ \A C : Known(e, C) /\ id \in C => Known(longer, C)
               /\ QueueOrdered(e) /\ ~Has(e, "close", id)
                     /\ (kind = "open" => ~Has(e, "open", id)) => QueueOrdered(longer)
               /\ \A k, i : Has(longer, k, i) <=> Has(e, k, i) \/ (k = kind /\ i = id)
<1> DEFINE longer == Append(e, <<kind, id>>)
           n == Len(e)
<1>1. /\ n \in Nat /\ DOMAIN e = 1 .. n /\ DOMAIN longer = 1 .. n + 1
      /\ \A i \in 1 .. n : longer[i] = e[i]
      /\ longer[n + 1] = <<kind, id>>
      /\ longer \in Seq(Events)
  <2>1. <<kind, id>> \in Events
    BY DEF Events
  <2> QED
    BY <2>1, AppendProperties, LenProperties
<1>2. \A i \in 1 .. n : e[i] \in Events
  BY <1>1, ElementOfSeq
<1>3. \A i \in 1 .. n + 1 : i \in 1 .. n \/ i = n + 1
  BY <1>1
<1>e. \A i \in 1 .. n : /\ e[i] = <<e[i][1], e[i][2]>>
                        /\ e[i][1] \in {"open", "close"} /\ e[i][2] \in Nat
  BY <1>2 DEF Events
<1> HIDE DEF longer, n
<1>4. ASSUME NEW C, Known(e, C), id \in C PROVE Known(longer, C)
  <2>1. \A i \in 1 .. n : e[i][2] \in C
    BY <1>1, <1>4 DEF Known
  <2>2. <<kind, id>>[2] = id
    OBVIOUS
  <2> QED
    BY <1>1, <1>3, <1>4, <2>1, <2>2 DEF Known
<1>5. ASSUME QueueOrdered(e), ~Has(e, "close", id), kind = "open" => ~Has(e, "open", id)
      PROVE  QueueOrdered(longer)
  <2>1. ASSUME NEW i \in 1 .. n, e[i][2] = id PROVE e[i][1] = "open" /\ kind = "close"
    <3>1. e[i] = <<e[i][1], id>>
      BY <1>e, <2>1
    <3>2. e[i][1] # "close"
      BY <1>1, <1>5, <3>1 DEF Has
    <3>3. e[i][1] = "open"
      BY <1>e, <3>2
    <3>4. Has(e, "open", id)
      BY <1>1, <3>1, <3>3 DEF Has
    <3> QED
      BY <1>5, <3>3, <3>4
  <2>2. <<kind, id>>[1] = kind /\ <<kind, id>>[2] = id
    OBVIOUS
  <2>3. ASSUME NEW i \in 1 .. n + 1, NEW j \in 1 .. n + 1, i < j, longer[i][2] = longer[j][2]
        PROVE  longer[i][1] = "open" /\ longer[j][1] = "close"
    <3>1. i \in 1 .. n
      BY <1>1, <2>3
    <3>2. CASE j \in 1 .. n
      <4>1. e[i][2] = e[j][2]
        BY <1>1, <2>3, <3>1, <3>2
      <4>2. e[i][1] = "open" /\ e[j][1] = "close"
        BY <1>1, <1>5, <2>3, <3>1, <3>2, <4>1 DEF QueueOrdered
      <4> QED
        BY <1>1, <3>1, <3>2, <4>2
    <3>3. CASE j = n + 1
      <4>1. e[i][2] = id
        BY <1>1, <2>2, <2>3, <3>1, <3>3
      <4> QED
        BY <1>1, <2>1, <2>2, <3>1, <3>3, <4>1
    <3> QED
      BY <1>3, <3>2, <3>3
  <2> QED
    BY <1>1, <2>3 DEF QueueOrdered
<1>6. ASSUME NEW k, NEW i PROVE Has(longer, k, i) <=> Has(e, k, i) \/ (k = kind /\ i = id)
  BY <1>1, <1>3 DEF Has
<1> QED
  BY <1>4, <1>5, <1>6 DEF longer

\* The first event is taken out.
LEMMA QueueTail ==
    ASSUME NEW e \in Seq(Events), e # <<>>, QueueOrdered(e),
           NEW kind, NEW id, Head(e) = <<kind, id>>
    PROVE  /\ QueueOrdered(Tail(e))
           /\ \A C : Known(e, C) => Known(Tail(e), C)
           /\ \A k, i : Has(e, k, i) <=> Has(Tail(e), k, i) \/ (k = kind /\ i = id)
           /\ ~Has(Tail(e), "open", id)
           /\ kind = "close" => \A i \in DOMAIN Tail(e) : Tail(e)[i][2] # id
<1> DEFINE n == Len(e)
           t == Tail(e)
<1>1. /\ n \in Nat /\ n >= 1 /\ DOMAIN e = 1 .. n
      /\ t \in Seq(Events) /\ Len(t) = n - 1 /\ DOMAIN t = 1 .. n - 1
      /\ \A i \in 1 .. n - 1 : t[i] = e[i + 1]
      /\ e[1] = <<kind, id>>
  <2>1. n \in Nat /\ DOMAIN e = 1 .. n /\ n # 0
    BY EmptySeq, LenProperties
  <2>2. t \in Seq(Events) /\ Len(t) = n - 1 /\ \A i \in 1 .. Len(t) : t[i] = e[i + 1]
    BY HeadTailProperties
  <2>3. DOMAIN t = 1 .. Len(t)
    BY <2>2, LenProperties
  <2>4. Head(e) = e[1]
    OBVIOUS
  <2> QED
    BY <2>1, <2>2, <2>3, <2>4
<1>2. \A i \in 1 .. n : /\ e[i] = <<e[i][1], e[i][2]>>
                        /\ e[i][1] \in {"open", "close"} /\ e[i][2] \in Nat
  <2>1. \A i \in 1 .. n : e[i] \in Events
    BY <1>1, ElementOfSeq
  <2> QED
    BY <2>1 DEF Events
<1>3. /\ \A i \in 1 .. n - 1 : i + 1 \in 1 .. n
      /\ \A i \in 1 .. n : i = 1 \/ (i - 1 \in 1 .. n - 1 /\ (i - 1) + 1 = i)
  BY <1>1
<1> HIDE DEF n, t
<1>4. QueueOrdered(t)
  <2>1. ASSUME NEW i \in 1 .. n - 1, NEW j \in 1 .. n - 1, i < j, t[i][2] = t[j][2]
        PROVE  t[i][1] = "open" /\ t[j][1] = "close"
    <3>1. i + 1 < j + 1 /\ i + 1 \in 1 .. n /\ j + 1 \in 1 .. n
      BY <1>1, <2>1
    <3>2. t[i] = e[i + 1] /\ t[j] = e[j + 1]
      BY <1>1
    <3>3. e[i + 1][2] = e[j + 1][2]
      BY <2>1, <3>2
    <3>4. e[i + 1][1] = "open" /\ e[j + 1][1] = "close"
      BY <1>1, <3>1, <3>3 DEF QueueOrdered
    <3> QED
      BY <3>2, <3>4
  <2> QED
    BY <1>1, <2>1 DEF QueueOrdered
<1>5. ASSUME NEW C, Known(e, C) PROVE Known(t, C)
  BY <1>1, <1>3, <1>5 DEF Known
<1>6. ASSUME NEW k, NEW i PROVE Has(e, k, i) <=> Has(t, k, i) \/ (k = kind /\ i = id)
  <2>1. ASSUME NEW j \in 1 .. n, e[j] = <<k, i>> PROVE Has(t, k, i) \/ (k = kind /\ i = id)
    <3>1. CASE j = 1
      BY <1>1, <2>1, <3>1
    <3>2. CASE j # 1
      <4>1. j - 1 \in 1 .. n - 1 /\ (j - 1) + 1 = j
        BY <1>3, <3>2
      <4>2. t[j - 1] = e[j]
        BY <1>1, <4>1
      <4> QED
        BY <1>1, <2>1, <4>1, <4>2 DEF Has
    <3> QED
      BY <3>1, <3>2
  <2>2. ASSUME NEW j \in 1 .. n - 1, t[j] = <<k, i>> PROVE Has(e, k, i)
    <3>1. j + 1 \in 1 .. n /\ e[j + 1] = <<k, i>>
      BY <1>1, <1>3, <2>2
    <3> QED
      BY <1>1, <3>1 DEF Has
  <2>3. k = kind /\ i = id => Has(e, k, i)
    <3>1. 1 \in 1 .. n
      BY <1>1
    <3> QED
      BY <1>1, <3>1 DEF Has
  <2> QED
    BY <1>1, <2>1, <2>2, <2>3 DEF Has
<1>7. <<kind, id>>[1] = kind /\ <<kind, id>>[2] = id
  OBVIOUS
<1>8. ASSUME NEW i \in 1 .. n - 1, t[i][2] = id PROVE t[i][1] = "close" /\ kind = "open"
  <2>1. 1 < i + 1 /\ i + 1 \in 1 .. n /\ 1 \in 1 .. n
    BY <1>1
  <2>2. e[1][2] = e[i + 1][2]
    BY <1>1, <1>7, <1>8
  <2>3. e[1][1] = "open" /\ e[i + 1][1] = "close"
    BY <1>1, <2>1, <2>2 DEF QueueOrdered
  <2> QED
    BY <1>1, <1>7, <2>3
<1>9. ~Has(t, "open", id)
  <2>1. ASSUME NEW i \in 1 .. n - 1, t[i] = <<"open", id>> PROVE FALSE
    <3>1. t[i][1] = "open" /\ t[i][2] = id
      BY <2>1
    <3> QED
      BY <1>8, <3>1
  <2> QED
    BY <1>1, <2>1 DEF Has
<1>10. kind = "close" => \A i \in DOMAIN t : t[i][2] # id
  BY <1>1, <1>8
<1> QED
  BY <1>4, <1>5, <1>6, <1>9, <1>10 DEF t
LEMMA EventsInit == Init => EventsInv
BY DEF Init, EventsInv, SocketsMatch, EventsMatchClients, Posted, Entries, clients

\* addClient() makes a client whose socket is being dialled, or changes nothing.
LEMMA EventsAddClient ==
    ASSUME TypeOK, NEW s, DOMAIN s = clients, s \in [clients -> SUBSET Topics],
           NEW b \in BOOLEAN, AddClient(s, b), up' = up,
           \A c \in clients : c < nextId, NEW o \in SUBSET clients,
           dialing \cup up \subseteq clients, dialing \cap (up \cup o) = {},
           NEW e, Known(e, clients), QueueMatches(e, clients, o, dialing, up)
    PROVE  /\ \A c \in clients' : c < nextId'
           /\ dialing' \cup up \subseteq clients'
           /\ dialing' \cap (up \cup o) = {}
           /\ Known(e, clients') /\ QueueMatches(e, clients', o, dialing', up)
<1>0. clients \subseteq Nat /\ nextId \in Nat
  BY DEF TypeOK
<1>1. CASE b \/ stopping
  <2>1. clients' = clients /\ nextId' = nextId /\ dialing' = dialing
    BY <1>1 DEF AddClient, clients
  <2> QED
    BY <2>1
<1>2. CASE ~(b \/ stopping)
  <2>1. /\ clients' = clients \cup {nextId} /\ nextId' = nextId + 1
        /\ dialing' = dialing \cup {nextId}
    BY <1>2 DEF AddClient, clients
  <2>2. nextId \notin clients
    BY <1>0
  <2>3. \A k : ~Has(e, k, nextId)
    <3>1. ASSUME NEW k, NEW i \in DOMAIN e, e[i] = <<k, nextId>> PROVE FALSE
      <4>1. e[i][2] = nextId
        BY <3>1
      <4> QED
        BY <2>2, <4>1 DEF Known
    <3> QED
      BY <3>1 DEF Has
  <2>4. QueueMatches(e, clients', o, dialing', up)
    <3>1. ASSUME NEW id \in clients
          PROVE  /\ Has(e, "open", id) => id \notin o \cup dialing'
                 /\ Has(e, "close", id) => id \notin dialing' \cup up
                 /\ id \in o \/ id \in dialing' \/ Has(e, "open", id) \/ Has(e, "close", id)
                 /\ id \in dialing' \/ id \in up \/ Has(e, "close", id)
      BY <2>1, <2>2 DEF QueueMatches
    <3> QED
      BY <2>1, <2>3, <3>1 DEF QueueMatches
  <2>5. Known(e, clients')
    BY <2>1 DEF Known
  <2>6. /\ \A c \in clients' : c < nextId'
        /\ dialing' \cup up \subseteq clients'
        /\ dialing' \cap (up \cup o) = {}
    BY <1>0, <2>1, <2>2
  <2> QED
    BY <2>4, <2>5, <2>6
<1> QED
  BY <1>1, <1>2

LEMMA EventsStep == TypeOK /\ EventsInv /\ [Next]_vars => EventsInv'
<1> SUFFICES ASSUME TypeOK, EventsInv, [Next]_vars PROVE EventsInv'
  OBVIOUS
<1>a. /\ \A c \in clients : c < nextId
      /\ dialing \cup up \subseteq clients
      /\ dialing \cap (up \cup opened) = {}
      /\ Known(events, clients) /\ QueueOrdered(events)
      /\ QueueMatches(events, clients, opened, dialing, up)
  BY EventsMatchParts DEF EventsInv, SocketsMatch
<1>b. /\ DOMAIN subs = clients /\ subs \in [clients -> SUBSET Topics]
      /\ adding \in BOOLEAN /\ opened \in SUBSET clients /\ clients \subseteq Nat
      /\ pending \in Seq(Topics) /\ events \in Seq(Events)
  BY DEF TypeOK, clients, Events
<1>c. ASSUME /\ \A c \in clients' : c < nextId'
             /\ dialing' \cup up' \subseteq clients'
             /\ dialing' \cap (up' \cup opened') = {}
             /\ Known(events', clients') /\ QueueOrdered(events')
             /\ QueueMatches(events', clients', opened', dialing', up')
      PROVE  EventsInv'
  BY <1>c, EventsMatchPartsPrime DEF EventsInv, SocketsMatch
<1>1. CASE clients' = clients /\ UNCHANGED <<nextId, opened, dialing, up, events>>
  BY <1>a, <1>c, <1>1
<1>2. ASSUME AddClient(subs, adding), UNCHANGED <<opened, up, events>>
      PROVE  EventsInv'
  <2>1. /\ \A c \in clients' : c < nextId'
        /\ dialing' \cup up \subseteq clients'
        /\ dialing' \cap (up \cup opened) = {}
        /\ Known(events, clients') /\ QueueMatches(events, clients', opened, dialing', up)
    BY <1>a, <1>b, <1>2, EventsAddClient
  <2> QED
    BY <1>a, <1>c, <1>2, <2>1
<1>3. ASSUME NEW t \in Topics, Subscribe(t) PROVE EventsInv'
  <2>1. UNCHANGED <<opened, up, events>>
    BY <1>3 DEF Subscribe
  <2>2. CASE UNCHANGED <<subs, nextId, dialing>>
    BY <1>1, <2>1, <2>2 DEF clients
  <2>3. ASSUME NEW c \in clients, subs' = [subs EXCEPT ![c] = @ \cup {t}],
               UNCHANGED <<nextId, dialing>>
        PROVE  EventsInv'
    BY <1>1, <2>1, <2>3 DEF clients
  <2> QED
    BY <1>2, <1>3, <2>1, <2>2, <2>3 DEF Subscribe
<1>4. ASSUME NEW t \in Topics, Unsubscribe(t) PROVE EventsInv'
  <2>1. clients' = clients
    BY <1>4 DEF Unsubscribe, clients
  <2> QED
    BY <1>1, <1>4, <2>1 DEF Unsubscribe, net
<1>5. ASSUME NEW id \in clients, OnConnectionOpen(id) PROVE EventsInv'
  <2>1. PICK k \in 0 .. Len(pending) :
            LET drained == [subs EXCEPT ![id] = @ \cup Popped(k)]
            IN IF k < Len(pending)
               THEN AddClient(drained, FALSE)
               ELSE /\ subs' = drained
                    /\ adding' = FALSE
                    /\ UNCHANGED <<nextId, dialing>>
    BY <1>5 DEF OnConnectionOpen
  <2> DEFINE drained == [subs EXCEPT ![id] = @ \cup Popped(k)]
             o == opened \cup {id}
  <2>2. /\ events # <<>> /\ Head(events) = <<"open", id>> /\ events' = Tail(events)
        /\ opened' = o /\ up' = up
    BY <1>5 DEF OnConnectionOpen
  <2>3. DOMAIN drained = clients /\ drained \in [clients -> SUBSET Topics]
    <3>1. Popped(k) \subseteq Topics
      BY <1>b, DrainSplits
    <3> QED
      BY <1>b, <3>1
  <2>4. /\ QueueOrdered(events') /\ Known(events', clients)
        /\ \A kk, i : Has(events, kk, i) <=> Has(events', kk, i) \/ (kk = "open" /\ i = id)
        /\ ~Has(events', "open", id)
    BY <1>a, <1>b, <2>2, QueueTail
  <2>5. id \notin dialing /\ id \notin opened
    BY <1>a, <2>4 DEF QueueMatches
  <2>6. QueueMatches(events', clients, o, dialing, up)
    BY <1>a, <2>4, <2>5 DEF QueueMatches
  <2>7. o \in SUBSET clients /\ dialing \cap (up \cup o) = {}
    BY <1>a, <1>b, <2>5
  <2> HIDE DEF drained, o
  <2>8. CASE AddClient(drained, FALSE)
    <3>1. /\ \A c \in clients' : c < nextId'
          /\ dialing' \cup up \subseteq clients'
          /\ dialing' \cap (up \cup o) = {}
          /\ Known(events', clients') /\ QueueMatches(events', clients', o, dialing', up)
      BY <1>a, <2>2, <2>3, <2>4, <2>6, <2>7, <2>8, EventsAddClient
    <3> QED
      BY <1>c, <2>2, <2>4, <3>1
  <2>9. CASE subs' = drained /\ UNCHANGED <<nextId, dialing>>
    <3>1. clients' = clients
      BY <2>3, <2>9 DEF clients
    <3> QED
      BY <1>a, <1>c, <2>2, <2>4, <2>6, <2>7, <2>9, <3>1
  <2> QED
    BY <2>1, <2>8, <2>9 DEF drained
<1>6. ASSUME NEW id \in clients, OnConnectionClose(id) PROVE EventsInv'
  <2>1. /\ events # <<>> /\ Head(events) = <<"close", id>> /\ events' = Tail(events)
        /\ clients' = clients \ {id} /\ opened' = opened \ {id}
        /\ UNCHANGED <<nextId, dialing, up>>
    BY <1>6 DEF OnConnectionClose, WithoutClient, clients
  <2>2. /\ QueueOrdered(events') /\ Known(events', clients)
        /\ \A kk, i : Has(events, kk, i) <=> Has(events', kk, i) \/ (kk = "close" /\ i = id)
        /\ \A i \in DOMAIN events' : events'[i][2] # id
    BY <1>a, <1>b, <2>1, QueueTail
  <2>3. Known(events', clients')
    BY <2>1, <2>2 DEF Known
  <2>4. id \notin dialing \cup up
    BY <1>a, <2>2 DEF QueueMatches
  <2>5. QueueMatches(events', clients', opened', dialing, up)
    BY <1>a, <2>1, <2>2 DEF QueueMatches
  <2> QED
    BY <1>a, <1>c, <2>1, <2>2, <2>3, <2>4, <2>5
<1>7. ASSUME NEW id \in dialing \cup up, WsOpen(id) PROVE EventsInv'
  <2>1. /\ id \in dialing /\ dialing' = dialing \ {id} /\ up' = up \cup {id}
        /\ events' = Append(events, <<"open", id>>)
        /\ UNCHANGED <<nextId, opened>> /\ clients' = clients
    BY <1>7 DEF WsOpen, gui, clients
  <2>2. id \in clients /\ ~Has(events, "open", id) /\ ~Has(events, "close", id)
    BY <1>a, <2>1 DEF QueueMatches
  <2>3. /\ Known(events', clients) /\ QueueOrdered(events')
        /\ \A k, i : Has(events', k, i) <=> Has(events, k, i) \/ (k = "open" /\ i = id)
    BY <1>a, <1>b, <2>1, <2>2, QueueAppend
  <2>4. QueueMatches(events', clients, opened, dialing', up')
    BY <1>a, <2>1, <2>2, <2>3 DEF QueueMatches
  <2> QED
    BY <1>a, <1>c, <2>1, <2>2, <2>3, <2>4
<1>8. ASSUME NEW id \in dialing \cup up, WsClose(id) PROVE EventsInv'
  <2>1. /\ dialing' = dialing \ {id} /\ up' = up \ {id}
        /\ events' = Append(events, <<"close", id>>)
        /\ UNCHANGED <<nextId, opened>> /\ clients' = clients
    BY <1>8 DEF WsClose, gui, clients
  <2>2. id \in clients /\ ~Has(events, "close", id)
    BY <1>a, <1>8 DEF QueueMatches
  <2>3. /\ Known(events', clients) /\ QueueOrdered(events')
        /\ \A k, i : Has(events', k, i) <=> Has(events, k, i) \/ (k = "close" /\ i = id)
    BY <1>a, <1>b, <2>1, <2>2, QueueAppend
  <2>4. QueueMatches(events', clients, opened, dialing', up')
    BY <1>a, <2>1, <2>2, <2>3 DEF QueueMatches
  <2> QED
    BY <1>a, <1>c, <2>1, <2>2, <2>3, <2>4
<1>9. CASE RetryTimer
  BY <1>2, <1>9 DEF RetryTimer
<1>10. ASSUME NEW k \in Keys, Join(k) \/ Part(k) PROVE EventsInv'
  BY <1>1, <1>10 DEF Join, Part, net, clients
<1>11. CASE Stop \/ UNCHANGED vars
  BY <1>1, <1>11 DEF Stop, vars, gui, net, clients
<1> QED
  BY <1>3, <1>4, <1>5, <1>6, <1>7, <1>8, <1>9, <1>10, <1>11 DEF Next, GuiLoop, WsThread

\* Every event that reaches the GUI thread names a client the manager still has,
\* at most one open and then one close, and no client is left without a socket or
\* an event to come: what onConnectionOpen dereferences and onConnectionClose
\* asserts, for any number of connections.
THEOREM EventsMatchHolds == Spec => []EventsMatchClients
<1>1. Spec => []EventsInv
  BY TypeCorrect, EventsInit, EventsStep, PTL DEF Spec
<1>2. EventsInv => EventsMatchClients
  BY DEF EventsInv
<1> QED
  BY <1>1, <1>2, PTL
================================================================================
