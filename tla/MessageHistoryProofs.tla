------------------------- MODULE MessageHistoryProofs --------------------------
(***************************************************************************)
(* Theorems about MessageHistory for any number of messages, services,     *)
(* breaks and failures and any limits.                                     *)
(***************************************************************************)
EXTENDS MessageHistory, LimitedQueueProofs

--------------------------------------------------------------------------------
(* What the filter and a fill give *)

\* Range in terms of places.
LEMMA RangeIs ==
    ASSUME NEW T, NEW q \in Seq(T)
    PROVE  /\ Range(q) \subseteq T
           /\ \A x : x \in Range(q) <=> \E i \in 1 .. Len(q) : q[i] = x
<1>1. DOMAIN q = 1 .. Len(q) /\ Len(q) \in Nat /\ \A i \in 1 .. Len(q) : q[i] \in T
  BY LenProperties, ElementOfSeq
<1> QED
  BY <1>1 DEF Range

\* The messages with an id in terms of places.
LEMMA KnownIs ==
    ASSUME NEW T, NEW q \in Seq(T)
    PROVE  \A x : x \in Known(q) <=> Named(x) /\ \E i \in 1 .. Len(q) : q[i] = x
BY RangeIs DEF Known

\* The filter as a function of its steps, one for each item.
LEMMA KeepStep ==
    ASSUME NEW T, NEW q \in Seq(T), NEW S
    PROVE  \E f \in [0 .. Len(q) -> Seq(T)] :
              /\ f[0] = <<>> /\ Keep(q, S) = f[Len(q)]
              /\ \A k \in 1 .. Len(q) :
                    f[k] = IF q[k] \in S THEN Append(f[k - 1], q[k]) ELSE f[k - 1]
<1> DEFINE n == Len(q)
           G == [p \in (1 .. n) \X Seq(T) |-> IF q[p[1]] \in S THEN Append(p[2], q[p[1]]) ELSE p[2]]
           Is(f) == f = [k \in 0 .. n |-> IF k = 0 THEN <<>>
                                          ELSE IF q[k] \in S THEN Append(f[k - 1], q[k]) ELSE f[k - 1]]
           kept == CHOOSE f : Is(f)
<1>1. n \in Nat /\ \A k \in 1 .. n : q[k] \in T
  BY LenProperties, ElementOfSeq
<1>2. \A k \in 1 .. n : \A s \in Seq(T) : Append(s, q[k]) \in Seq(T)
  BY <1>1, AppendProperties
<1>3. G \in [(1 .. n) \X Seq(T) -> Seq(T)]
  BY <1>2
<1>4. \A k \in 1 .. n : \A s \in Seq(T) : G[<<k, s>>] = IF q[k] \in S THEN Append(s, q[k]) ELSE s
  OBVIOUS
<1> HIDE DEF G
<1>5. <<>> \in Seq(T)
  OBVIOUS
<1>6. PICK f \in [0 .. n -> Seq(T)] : f[0] = <<>> /\ \A k \in 1 .. n : f[k] = G[<<k, f[k - 1]>>]
  <2> DEFINE X == Seq(T)
             a == <<>>
  <2>1. a \in X /\ Steps(G, n, X)
    BY <1>3, <1>5 DEF Steps
  <2> HIDE DEF n, X, a
  <2>2. PICK f : Recursive(f, a, G, n, X)
    BY <1>1, <2>1, Recursion
  <2> QED
    BY <2>2 DEF X, a, Recursive
<1>7. \A k \in 1 .. n : f[k] = IF q[k] \in S THEN Append(f[k - 1], q[k]) ELSE f[k - 1]
  <2> TAKE k \in 1 .. n
  <2>1. k - 1 \in 0 .. n
    BY <1>1
  <2>2. f[k - 1] \in Seq(T)
    BY <2>1
  <2> QED
    BY <1>4, <1>6, <2>2
<1>8. Is(f)
  <2> DEFINE h == [k \in 0 .. n |-> IF k = 0 THEN <<>>
                                    ELSE IF q[k] \in S THEN Append(f[k - 1], q[k]) ELSE f[k - 1]]
  <2>1. \A k \in 0 .. n : f[k] = h[k]
    <3> TAKE k \in 0 .. n
    <3>1. k = 0 \/ k \in 1 .. n
      BY <1>1
    <3> QED
      BY <1>6, <1>7, <3>1
  <2>2. DOMAIN h = 0 .. n /\ h = [k \in 0 .. n |-> h[k]]
    OBVIOUS
  <2> HIDE DEF h
  <2>3. f = h
    BY <2>1, <2>2
  <2> QED
    BY <2>3 DEF h
<1>9. Is(kept)
  <2> HIDE DEF Is
  <2> QED
    BY <1>8
<1>10. Keep(q, S) = kept[n]
  BY DEF Keep
<1> HIDE DEF kept
<1>11. kept[0] = <<>> /\ \A k \in 1 .. n :
          kept[k] = IF q[k] \in S THEN Append(kept[k - 1], q[k]) ELSE kept[k - 1]
  <2>1. \A k \in 0 .. n : kept[k] = IF k = 0 THEN <<>> ELSE
            IF q[k] \in S THEN Append(kept[k - 1], q[k]) ELSE kept[k - 1]
    <3> HIDE DEF n
    <3> QED
      BY <1>9
  <2>2. 0 \in 0 .. n /\ \A k \in 1 .. n : k \in 0 .. n /\ k # 0
    BY <1>1
  <2> QED
    BY <2>1, <2>2
<1>12. \A k \in 0 .. n : kept[k] = f[k]
  <2> DEFINE P == {k \in 0 .. n : kept[k] = f[k]}
  <2>1. 0 \in P
    BY <1>1, <1>6, <1>11
  <2>2. \A k \in 1 .. n : k - 1 \in P => k \in P
    BY <1>1, <1>7, <1>11
  <2>3. \A k \in 0 .. n : k \in P
    <3> HIDE DEF P, n
    <3> QED
      BY <1>1, <2>1, <2>2, UpTo
  <2> QED
    BY <2>3
<1>13. n \in 0 .. n
  BY <1>1
<1> QED
  BY <1>6, <1>7, <1>10, <1>12, <1>13

\* s has the items of the first k places of q that are in S: g tells the place in q
\* of each of them, and none of them is farther from the end than it was in q.
KeptBy(g, q, S, s, k) ==
    /\ g \in [1 .. Len(s) -> 1 .. k]
    /\ \A i, j \in 1 .. Len(s) : i < j => g[i] < g[j]
    /\ \A i \in 1 .. Len(s) : s[i] = q[g[i]] /\ q[g[i]] \in S
    /\ \A i \in 1 .. k : q[i] \in S => \E j \in 1 .. Len(s) : g[j] = i /\ Len(s) - j <= k - i
KeptOf(q, S, s, k) == (\E g : KeptBy(g, q, S, s, k)) /\ Len(s) <= k

\* The filter keeps the items of S, each where it was among them and none farther
\* from the end.
LEMMA KeepFacts ==
    ASSUME NEW T, NEW q \in Seq(T), NEW S
    PROVE  Keep(q, S) \in Seq(T) /\ KeptOf(q, S, Keep(q, S), Len(q))
<1> DEFINE n == Len(q)
<1>1. n \in Nat /\ \A k \in 1 .. n : q[k] \in T
  BY LenProperties, ElementOfSeq
<1>2. PICK f \in [0 .. n -> Seq(T)] :
        /\ f[0] = <<>> /\ Keep(q, S) = f[n]
        /\ \A k \in 1 .. n : f[k] = IF q[k] \in S THEN Append(f[k - 1], q[k]) ELSE f[k - 1]
  BY KeepStep
<1> HIDE DEF n
<1> DEFINE P == {k \in 0 .. n : KeptOf(q, S, f[k], k)}
<1>3. 0 \in P
  <2> DEFINE g == [i \in 1 .. 0 |-> 1]
  <2>1. Len(f[0]) = 0
    BY <1>2
  <2>2. KeptBy(g, q, S, f[0], 0)
    BY <2>1 DEF KeptBy
  <2> QED
    BY <1>1, <2>1, <2>2 DEF KeptOf
<1>4. ASSUME NEW k \in 1 .. n, k - 1 \in P PROVE k \in P
  <2>1. KeptOf(q, S, f[k - 1], k - 1) /\ k - 1 \in 0 .. n
    BY <1>4
  <2> DEFINE s == f[k - 1]
             t == f[k]
  <2>2. s \in Seq(T) /\ Len(s) \in Nat /\ DOMAIN s = 1 .. Len(s)
    BY <2>1, LenProperties
  <2>3. PICK g : KeptBy(g, q, S, s, k - 1)
    BY <2>1 DEF KeptOf
  <2>4. /\ \A i \in 1 .. k - 1 : q[i] \in S => \E j \in 1 .. Len(s) : g[j] = i /\ Len(s) - j <= k - 1 - i
        /\ Len(s) <= k - 1
    BY <2>1, <2>3 DEF KeptOf, KeptBy
  <2>5. t = IF q[k] \in S THEN Append(s, q[k]) ELSE s
    BY <1>2
  <2> HIDE DEF s, t
  <2>6. CASE q[k] \notin S
    <3>1. t = s
      BY <2>5, <2>6
    <3>2. /\ g \in [1 .. Len(t) -> 1 .. k]
          /\ \A i, j \in 1 .. Len(t) : i < j => g[i] < g[j]
          /\ \A i \in 1 .. Len(t) : t[i] = q[g[i]] /\ q[g[i]] \in S
      <4>1. /\ g \in [1 .. Len(t) -> 1 .. k - 1]
            /\ \A i, j \in 1 .. Len(t) : i < j => g[i] < g[j]
            /\ \A i \in 1 .. Len(t) : t[i] = q[g[i]] /\ q[g[i]] \in S
        BY <2>3, <3>1 DEF KeptBy
      <4>2. 1 .. k - 1 \subseteq 1 .. k
        OBVIOUS
      <4> QED
        BY <4>1, <4>2
    <3>3. \A i \in 1 .. k : q[i] \in S => \E j \in 1 .. Len(t) : g[j] = i /\ Len(t) - j <= k - i
      <4> SUFFICES ASSUME NEW i \in 1 .. k, q[i] \in S
                   PROVE \E j \in 1 .. Len(t) : g[j] = i /\ Len(t) - j <= k - i
        OBVIOUS
      <4>1. i \in 1 .. k - 1
        BY <2>6
      <4>2. PICK j \in 1 .. Len(s) : g[j] = i /\ Len(s) - j <= k - 1 - i
        BY <2>4, <4>1
      <4> QED
        BY <2>2, <3>1, <4>2
    <3>4. KeptOf(q, S, t, k)
      BY <2>2, <2>4, <3>1, <3>2, <3>3 DEF KeptOf, KeptBy
    <3> QED
      BY <3>4 DEF t
  <2>7. CASE q[k] \in S
    <3>1. /\ t = Append(s, q[k]) /\ Len(t) = Len(s) + 1
          /\ \A i \in 1 .. Len(s) : t[i] = s[i]
          /\ t[Len(s) + 1] = q[k]
      BY <1>1, <2>2, <2>5, <2>7, AppendProperties
    <3> DEFINE h == [i \in 1 .. Len(t) |-> IF i <= Len(s) THEN g[i] ELSE k]
    <3>2. \A i \in 1 .. Len(s) : i \in 1 .. Len(t) /\ g[i] \in 1 .. k - 1 /\ h[i] = g[i]
      <4> TAKE i \in 1 .. Len(s)
      <4>1. i \in 1 .. Len(t) /\ i <= Len(s)
        BY <2>2, <3>1
      <4>2. g[i] \in 1 .. k - 1
        BY <2>3 DEF KeptBy
      <4> QED
        BY <4>1, <4>2
    <3>3. h[Len(t)] = k /\ Len(t) \in 1 .. Len(t)
      BY <2>2, <3>1
    <3>4. \A i \in 1 .. Len(t) : i = Len(t) \/ i \in 1 .. Len(s)
      BY <2>2, <3>1
    <3>5. h \in [1 .. Len(t) -> 1 .. k]
      <4>1. \A i \in 1 .. Len(t) : h[i] \in 1 .. k
        <5> HIDE DEF h
        <5> TAKE i \in 1 .. Len(t)
        <5>1. CASE i = Len(t)
          BY <3>3, <5>1
        <5>2. CASE i \in 1 .. Len(s)
          <6>1. g[i] \in 1 .. k - 1 /\ h[i] = g[i]
            BY <3>2, <5>2
          <6> QED
            BY <6>1
        <5> QED
          BY <3>4, <5>1, <5>2
      <4>2. DOMAIN h = 1 .. Len(t) /\ h = [i \in 1 .. Len(t) |-> h[i]]
        OBVIOUS
      <4> HIDE DEF h
      <4> QED
        BY <4>1, <4>2
    <3> HIDE DEF h
    <3>6. \A i, j \in 1 .. Len(t) : i < j => h[i] < h[j]
      <4> SUFFICES ASSUME NEW i \in 1 .. Len(t), NEW j \in 1 .. Len(t), i < j PROVE h[i] < h[j]
        OBVIOUS
      <4>1. i \in 1 .. Len(s)
        BY <2>2, <3>1
      <4>2. CASE j \in 1 .. Len(s)
        BY <2>3, <3>2, <4>1, <4>2 DEF KeptBy
      <4>3. CASE j = Len(t)
        BY <3>2, <3>3, <4>1, <4>3
      <4> QED
        BY <3>4, <4>2, <4>3
    <3>7. \A i \in 1 .. Len(t) : t[i] = q[h[i]] /\ q[h[i]] \in S
      <4> TAKE i \in 1 .. Len(t)
      <4>1. CASE i \in 1 .. Len(s)
        BY <2>3, <3>1, <3>2, <4>1 DEF KeptBy
      <4>2. CASE i = Len(t)
        BY <2>7, <3>1, <3>3, <4>2
      <4> QED
        BY <3>4, <4>1, <4>2
    <3>8. \A i \in 1 .. k : q[i] \in S => \E j \in 1 .. Len(t) : h[j] = i /\ Len(t) - j <= k - i
      <4> SUFFICES ASSUME NEW i \in 1 .. k, q[i] \in S
                   PROVE \E j \in 1 .. Len(t) : h[j] = i /\ Len(t) - j <= k - i
        OBVIOUS
      <4>1. CASE i = k
        <5>1. h[Len(t)] = i /\ Len(t) - Len(t) <= k - i
          BY <2>2, <3>1, <3>3, <4>1
        <5> QED
          BY <3>3, <5>1
      <4>2. CASE i # k
        <5>1. i \in 1 .. k - 1
          BY <4>2
        <5>2. PICK j \in 1 .. Len(s) : g[j] = i /\ Len(s) - j <= k - 1 - i
          BY <2>4, <5>1
        <5>3. j \in 1 .. Len(t) /\ h[j] = i
          BY <3>2, <5>2
        <5>4. Len(t) - j <= k - i
          BY <2>2, <3>1, <5>2
        <5> QED
          BY <5>3, <5>4
      <4> QED
        BY <4>1, <4>2
    <3>9. KeptBy(h, q, S, t, k)
      BY <3>5, <3>6, <3>7, <3>8 DEF KeptBy
    <3>10. Len(t) <= k
      BY <2>2, <2>4, <3>1
    <3>11. KeptOf(q, S, t, k)
      BY <3>9, <3>10 DEF KeptOf
    <3> QED
      BY <3>11 DEF t
  <2> QED
    BY <2>6, <2>7
<1>5. \A k \in 0 .. n : k \in P
  <2> HIDE DEF P
  <2> QED
    BY <1>1, <1>3, <1>4, UpTo
<1>6. n \in 0 .. n /\ f[n] \in Seq(T)
  BY <1>1
<1> QED
  BY <1>2, <1>5, <1>6 DEF n

\* What is kept is in q and in S, and the other way round.
LEMMA KeepRange ==
    ASSUME NEW T, NEW q \in Seq(T), NEW S
    PROVE  /\ Len(Keep(q, S)) \in Nat /\ Len(Keep(q, S)) <= Len(q)
           /\ Range(Keep(q, S)) = Range(q) \cap S
           /\ Known(Keep(q, S)) = Known(q) \cap S
<1> DEFINE s == Keep(q, S)
<1>1. s \in Seq(T) /\ KeptOf(q, S, s, Len(q)) /\ Len(s) \in Nat /\ Len(q) \in Nat
  BY KeepFacts, LenProperties
<1>2. PICK g : KeptBy(g, q, S, s, Len(q))
  BY <1>1 DEF KeptOf
<1> HIDE DEF s
<1>3. /\ \A x : x \in Range(s) <=> \E i \in 1 .. Len(s) : s[i] = x
      /\ \A x : x \in Range(q) <=> \E i \in 1 .. Len(q) : q[i] = x
  BY <1>1, RangeIs
<1>4. ASSUME NEW x \in Range(s) PROVE x \in Range(q) \cap S
  BY <1>2, <1>3, <1>4 DEF KeptBy
<1>5. ASSUME NEW x \in Range(q), x \in S PROVE x \in Range(s)
  <2>1. PICK i \in 1 .. Len(q) : q[i] = x
    BY <1>3
  <2>2. \E j \in 1 .. Len(s) : s[j] = q[i]
    BY <1>2, <1>5, <2>1 DEF KeptBy
  <2> QED
    BY <1>3, <2>1, <2>2
<1>6. Range(s) = Range(q) \cap S
  BY <1>4, <1>5
<1>7. Known(s) = Known(q) \cap S
  BY <1>6 DEF Known
<1> QED
  BY <1>1, <1>6, <1>7 DEF s, KeptOf

\* The first place p of snapshot that holds a named message later than x.
FirstLater(snapshot, x, p) ==
    /\ p \in 1 .. Len(snapshot) /\ Named(snapshot[p]) /\ x < snapshot[p]
    /\ \A j \in 1 .. p - 1 : ~(Named(snapshot[j]) /\ x < snapshot[j])

\* x is put at the end of q when nothing is later, or in front of the first place
\* of the first later one; if q has lost that one x is lost, too.
AtItsPlace(snapshot, q, x, r) ==
    \/ /\ \A i \in 1 .. Len(snapshot) : ~(Named(snapshot[i]) /\ x < snapshot[i])
       /\ Placed(q, Len(q) + 1, x, r)
    \/ \E p : /\ FirstLater(snapshot, x, p)
              /\ \/ r = q /\ \A i \in 1 .. Len(q) : q[i] # snapshot[p]
                 \/ \E i \in 1 .. Len(q) :
                       /\ q[i] = snapshot[p] /\ \A j \in 1 .. i - 1 : q[j] # snapshot[p]
                       /\ Placed(q, i, x, r)

\* One message is put in front of the first later one, at the end, or nowhere.
LEMMA InsertMissingPlaces ==
    ASSUME NEW snapshot \in Queue(Item), NEW q \in Queue(Item), NEW x \in Item
    PROVE  /\ InsertMissing(snapshot, q, x) \in Queue(Item)
           /\ IF x \in Known(snapshot) THEN InsertMissing(snapshot, q, x) = q
              ELSE AtItsPlace(snapshot, q, x, InsertMissing(snapshot, q, x))
<1>1. /\ DOMAIN snapshot = 1 .. Len(snapshot) /\ Len(snapshot) \in Nat
  BY QueueFacts
<1> DEFINE r == InsertMissing(snapshot, q, x)
           later == Later(snapshot, x)
<1>2. later = {i \in 1 .. Len(snapshot) : Named(snapshot[i]) /\ x < snapshot[i]}
  BY <1>1 DEF Later
<1>3. CASE x \in Known(snapshot)
  BY <1>3 DEF InsertMissing
<1>4. CASE x \notin Known(snapshot) /\ later = {}
  <2>1. r = PushBack(q, x)
    BY <1>4 DEF InsertMissing, InsertAfterLast
  <2>2. PushBack(q, x) \in Queue(Item) /\ Placed(q, Len(q) + 1, x, PushBack(q, x))
    BY PushBackPlaces
  <2>3. \A i \in 1 .. Len(snapshot) : ~(Named(snapshot[i]) /\ x < snapshot[i])
    BY <1>2, <1>4
  <2> QED
    BY <1>4, <2>1, <2>2, <2>3 DEF AtItsPlace
<1>5. CASE x \notin Known(snapshot) /\ later # {}
  <2> DEFINE p == Min(later)
             y == snapshot[p]
  <2>1. p \in later /\ \A j \in later : p <= j
    <3>1. later \in SUBSET Nat
      BY <1>2
    <3> HIDE DEF later
    <3> QED
      BY <1>5, <3>1, MinFacts
  <2>2. r = InsertBefore(q, y, x)
    BY <1>5 DEF InsertMissing
  <2> HIDE DEF p, later
  <2>3. FirstLater(snapshot, x, p)
    <3>1. p \in 1 .. Len(snapshot) /\ Named(snapshot[p]) /\ x < snapshot[p]
      BY <1>2, <2>1
    <3>2. ASSUME NEW j \in 1 .. p - 1, Named(snapshot[j]), x < snapshot[j] PROVE FALSE
      <4>1. j \in later
        BY <1>1, <1>2, <3>1, <3>2
      <4> QED
        BY <1>1, <2>1, <3>1, <4>1
    <3> QED
      BY <3>1, <3>2 DEF FirstLater
  <2>4. /\ r \in Queue(Item)
        /\ \/ r = q /\ \A i \in 1 .. Len(q) : q[i] # y
           \/ \E i \in 1 .. Len(q) :
                 /\ q[i] = y /\ \A j \in 1 .. i - 1 : q[j] # y
                 /\ Placed(q, i, x, r)
    BY <2>2, InsertBeforePlaces
  <2>5. AtItsPlace(snapshot, q, x, r)
    BY <2>3, <2>4 DEF AtItsPlace
  <2> QED
    BY <1>5, <2>4, <2>5
<1> QED
  BY <1>3, <1>4, <1>5

\* A fill as a function of its steps, one for each message of the answer.
LEMMA FillStep ==
    ASSUME NEW q \in Queue(Item), NEW items \in Seq(Item)
    PROVE  \E f \in [0 .. Len(items) -> Queue(Item)] :
              /\ f[0] = q /\ FillEach(q, items) = f[Len(items)]
              /\ \A k \in 1 .. Len(items) : f[k] = InsertMissing(q, f[k - 1], items[k])
<1> DEFINE n == Len(items)
           X == Queue(Item)
           put == [p \in Seq(Item) \X Item |-> InsertMissing(q, p[1], p[2])]
           G == [p \in (1 .. n) \X X |-> InsertMissing(q, p[2], items[p[1]])]
           Is(f) == f = [k \in 0 .. n |-> IF k = 0 THEN q ELSE put[<<f[k - 1], items[k]>>]]
           fill == CHOOSE f : Is(f)
<1>1. n \in Nat /\ \A k \in 1 .. n : items[k] \in Item
  BY LenProperties, ElementOfSeq
<1>2. \A d \in X : \A k \in 1 .. n : InsertMissing(q, d, items[k]) \in X
  <2> TAKE d \in X
  <2> TAKE k \in 1 .. n
  <2>1. items[k] \in Item
    BY <1>1
  <2> QED
    BY <2>1, InsertMissingPlaces
<1>3. Steps(G, n, X)
  <2>1. \A p \in (1 .. n) \X X : InsertMissing(q, p[2], items[p[1]]) \in X
    BY <1>2
  <2> QED
    BY <2>1 DEF Steps
<1>4. \A k \in 1 .. n : \A d \in X : G[<<k, d>>] = InsertMissing(q, d, items[k])
  OBVIOUS
<1>5. \A k \in 1 .. n : \A d \in X : put[<<d, items[k]>>] = InsertMissing(q, d, items[k])
  <2>1. X \subseteq Seq(Item)
    BY DEF Queue
  <2> QED
    BY <1>1, <2>1
<1> HIDE DEF G
<1>6. PICK f : Recursive(f, q, G, n, X)
  <2> HIDE DEF X, n
  <2>1. q \in X
    BY DEF X
  <2> QED
    BY <1>1, <1>3, <2>1, Recursion
<1>7. f \in [0 .. n -> X] /\ f[0] = q /\ \A k \in 1 .. n : f[k - 1] \in X
  <2>1. f \in [0 .. n -> X] /\ f[0] = q
    BY <1>6 DEF Recursive
  <2>2. \A k \in 1 .. n : k - 1 \in 0 .. n
    BY <1>1
  <2> QED
    BY <2>1, <2>2
<1>8. \A k \in 1 .. n : f[k] = InsertMissing(q, f[k - 1], items[k])
  <2> TAKE k \in 1 .. n
  <2>1. f[k] = G[<<k, f[k - 1]>>]
    BY <1>6 DEF Recursive
  <2> QED
    BY <1>4, <1>7, <2>1
<1> HIDE DEF put
<1>9. Is(f)
  <2> DEFINE h == [k \in 0 .. n |-> IF k = 0 THEN q ELSE put[<<f[k - 1], items[k]>>]]
  <2>1. \A k \in 0 .. n : f[k] = h[k]
    <3> TAKE k \in 0 .. n
    <3>1. k = 0 \/ k \in 1 .. n
      BY <1>1
    <3>2. CASE k = 0
      BY <1>7, <3>2
    <3>3. CASE k \in 1 .. n
      <4>1. f[k] = InsertMissing(q, f[k - 1], items[k]) /\ f[k - 1] \in X
        BY <1>7, <1>8, <3>3
      <4>2. f[k] = put[<<f[k - 1], items[k]>>]
        BY <1>5, <3>3, <4>1
      <4>3. k # 0
        BY <1>1, <3>3
      <4> QED
        BY <4>2, <4>3
    <3> QED
      BY <3>1, <3>2, <3>3
  <2>2. DOMAIN h = 0 .. n /\ h = [k \in 0 .. n |-> h[k]]
    OBVIOUS
  <2> HIDE DEF h
  <2>3. f = h
    BY <1>7, <2>1, <2>2
  <2> QED
    BY <2>3 DEF h
<1>10. Is(fill)
  <2> HIDE DEF Is
  <2> QED
    BY <1>9
<1>11. FillEach(q, items) = fill[n]
  BY DEF FillEach, put
<1> HIDE DEF fill
<1>12. \A k \in 0 .. n : fill[k] = IF k = 0 THEN q ELSE put[<<fill[k - 1], items[k]>>]
  <2> HIDE DEF n
  <2> QED
    BY <1>10
<1>13. \A k \in 0 .. n : fill[k] = f[k]
  <2> DEFINE P == {k \in 0 .. n : fill[k] = f[k]}
  <2>1. 0 \in P
    <3>1. 0 \in 0 .. n
      BY <1>1
    <3> QED
      BY <1>7, <1>12, <3>1
  <2>2. ASSUME NEW k \in 1 .. n, k - 1 \in P PROVE k \in P
    <3>1. k \in 0 .. n /\ k # 0 /\ k - 1 \in 0 .. n
      BY <1>1
    <3>2. fill[k] = put[<<f[k - 1], items[k]>>]
      BY <1>12, <2>2, <3>1
    <3> QED
      BY <1>5, <1>7, <1>8, <3>1, <3>2
  <2>3. \A k \in 0 .. n : k \in P
    <3> HIDE DEF P, n
    <3> QED
      BY <1>1, <2>1, <2>2, UpTo
  <2> QED
    BY <2>3
<1>14. n \in 0 .. n
  BY <1>1
<1> QED
  BY <1>7, <1>8, <1>11, <1>13, <1>14

\* A sequence is over whatever its items are in.
LEMMA SeqOfItems ==
    ASSUME NEW T, NEW s \in Seq(T), NEW U, \A i \in 1 .. Len(s) : s[i] \in U
    PROVE  s \in Seq(U)
<1>1. Len(s) \in Nat /\ SubSeq(s, 1, Len(s)) = s
  BY LenProperties, SubSeqFull
<1>2. SubSeq(s, 1, Len(s)) \in Seq(U)
  BY <1>1, SubSeqProperties
<1> QED
  BY <1>1, <1>2

\* In the order of time, each message once.
Ascending(s) == \A i, j \in 1 .. Len(s) : i < j => s[i] < s[j]

\* InTime gives the members of a set of messages, each once and in order.
LEMMA InTimeFacts ==
    ASSUME NEW S \in SUBSET Server
    PROVE  InTime(S) \in Seq(S) /\ Ascending(InTime(S)) /\ Range(InTime(S)) = S
<1> DEFINE all == [n \in Server |-> n]
           s == InTime(S)
<1>1. MaxMessages \in Nat
  BY BoundsAssumption
<1>2. all \in Seq(Server) /\ Len(all) = MaxMessages /\ \A n \in 1 .. MaxMessages : all[n] = n
  BY <1>1 DEF Server
<1> HIDE DEF all
<1>3. s = Keep(all, S)
  BY DEF InTime, all
<1>4. s \in Seq(Server) /\ KeptOf(all, S, s, Len(all)) /\ Range(s) = Range(all) \cap S
  BY <1>2, <1>3, KeepFacts, KeepRange
<1>5. PICK g : KeptBy(g, all, S, s, Len(all))
  BY <1>4 DEF KeptOf
<1> HIDE DEF s
<1>6. \A i \in 1 .. Len(s) : s[i] = g[i] /\ s[i] \in S /\ g[i] \in 1 .. MaxMessages
  BY <1>2, <1>5 DEF KeptBy
<1>7. s \in Seq(S)
  BY <1>4, <1>6, SeqOfItems
<1>8. Ascending(s)
  BY <1>5, <1>6 DEF KeptBy, Ascending
<1>9. Range(s) = S
  <2>1. \A x \in Server : x \in Range(all)
    BY <1>2, RangeIs DEF Server
  <2> QED
    BY <1>4, <2>1
<1> QED
  BY <1>7, <1>8, <1>9 DEF s

--------------------------------------------------------------------------------
(* The three lists are queues, the rest has its type *)

\* The lists of a channel and its view, as the operators change them.
Views == [channel : Queue(Item), proxy : Queue(Item), layouts : Queue(Item), cleared : BOOLEAN]

\* Notices have no id, and pass every filter.
LEMMA ItemFacts ==
    /\ Notice \in Item /\ Disconnected \in Item /\ Server \subseteq Item
    /\ Shown(Notice) /\ Shown(Disconnected)
    /\ ~Named(Notice) /\ ~Named(Disconnected)
    /\ Server \subseteq Nat /\ \A x \in Server : x > 0
    /\ \A x : Named(x) => x \in Server
BY BoundsAssumption DEF Item, Notice, Disconnected, Server, Shown, Showable, Named

\* What addMessage makes of the three lists.
LEMMA AddsView ==
    ASSUME NEW u \in Views, NEW x \in Item
    PROVE  /\ Adds(u, x) \in Views
           /\ Adds(u, x).channel = PushBack(u.channel, x)
           /\ Adds(u, x).proxy = IF Shown(x) THEN PushBack(u.proxy, x) ELSE u.proxy
           /\ Adds(u, x).layouts = IF Shown(x) THEN PushBack(u.layouts, x) ELSE u.layouts
           /\ Adds(u, x).cleared = u.cleared
<1>1. \A q \in Queue(Item) : PushBack(q, x) \in Queue(Item)
  BY PushBackPlaces
<1> QED
  BY <1>1 DEF Adds, Views

\* What replaceMessage makes of them.
LEMMA ReplacesView ==
    ASSUME NEW u \in Views, NEW x \in Item, NEW needle
    PROVE  /\ Replaces(u, needle, x) \in Views
           /\ Replaces(u, needle, x).channel = ReplaceItem(u.channel, needle, x)
           /\ Replaces(u, needle, x).proxy = ReplaceItem(u.proxy, needle, x)
           /\ Replaces(u, needle, x).layouts = ReplaceItem(u.layouts, needle, x)
           /\ Replaces(u, needle, x).cleared = u.cleared
<1>1. \A q \in Queue(Item) : ReplaceItem(q, needle, x) \in Queue(Item)
  BY ReplaceItemFacts
<1> QED
  BY <1>1 DEF Replaces, Views

\* A filled queue is a queue.
LEMMA FillInQueue ==
    ASSUME NEW q \in Queue(Item), NEW items \in Seq(Item)
    PROVE  FillIn(q, items) \in Queue(Item)
<1>1. CASE q = <<>>
  BY <1>1, PushFrontFacts DEF FillIn
<1>2. CASE q # <<>>
  <2>1. PICK f \in [0 .. Len(items) -> Queue(Item)] : FillEach(q, items) = f[Len(items)]
    BY FillStep
  <2>2. Len(items) \in 0 .. Len(items)
    BY LenProperties
  <2> QED
    BY <1>2, <2>1, <2>2 DEF FillIn
<1> QED
  BY <1>1, <1>2

\* What is given to the proxy when items are put in front of the channel.
InProxy(u, items) == Fitting(u.proxy, Keep(Fitting(u.channel, items), Showable))

\* What addMessagesAtStart makes of the three lists.
LEMMA AddsAtStartView ==
    ASSUME NEW u \in Views, NEW items \in Seq(Item)
    PROVE  /\ AddsAtStart(u, items) \in Views
           /\ Fitting(u.channel, items) \in Seq(Item)
           /\ Keep(Fitting(u.channel, items), Showable) \in Seq(Item)
           /\ InProxy(u, items) \in Seq(Item)
           /\ AddsAtStart(u, items).channel = PushFront(u.channel, items)
           /\ AddsAtStart(u, items).proxy =
                 PushFront(u.proxy, Keep(Fitting(u.channel, items), Showable))
           /\ AddsAtStart(u, items).layouts = PushFront(u.layouts, InProxy(u, items))
           /\ AddsAtStart(u, items).cleared = u.cleared
<1> DEFINE fit == Fitting(u.channel, items)
           kept == Keep(fit, Showable)
           inProxy == InProxy(u, items)
<1>1. u.channel \in Queue(Item) /\ u.proxy \in Queue(Item) /\ u.layouts \in Queue(Item)
  BY DEF Views
<1>2. fit \in Seq(Item)
  BY <1>1, FittingFacts
<1>3. kept \in Seq(Item)
  BY <1>2, KeepFacts
<1>4. inProxy \in Seq(Item)
  BY <1>1, <1>3, FittingFacts DEF InProxy
<1>5. inProxy \o u.proxy = PushFront(u.proxy, kept)
  BY DEF PushFront, InProxy
<1>6. AddsAtStart(u, items) = [u EXCEPT !.channel = PushFront(u.channel, items),
                                         !.proxy = PushFront(u.proxy, kept),
                                         !.layouts = PushFront(u.layouts, inProxy)]
  BY <1>5 DEF AddsAtStart, InProxy, Views
<1> HIDE DEF fit, kept, inProxy
<1>7. /\ PushFront(u.channel, items) \in Queue(Item)
      /\ PushFront(u.proxy, kept) \in Queue(Item)
      /\ PushFront(u.layouts, inProxy) \in Queue(Item)
  BY <1>1, <1>3, <1>4, PushFrontFacts
<1>8. /\ AddsAtStart(u, items) \in Views
      /\ AddsAtStart(u, items).channel = PushFront(u.channel, items)
      /\ AddsAtStart(u, items).proxy = PushFront(u.proxy, kept)
      /\ AddsAtStart(u, items).layouts = PushFront(u.layouts, inProxy)
      /\ AddsAtStart(u, items).cleared = u.cleared
  BY <1>6, <1>7 DEF Views
<1> QED
  BY <1>2, <1>3, <1>4, <1>8 DEF fit, kept, inProxy

\* A fill of the channel changes nothing, the channel, or the channel, the proxy
\* and the layouts.
LEMMA FillsView ==
    ASSUME NEW u \in Views, NEW items \in Seq(Item)
    PROVE  /\ Fills(u, items) \in Views
           /\ Keep(items, Showable) \in Seq(Item)
           /\ \/ ~FillsAny(u.channel, items) /\ Fills(u, items) = u
              \/ /\ FillsAny(u.channel, items)
                 /\ Fills(u, items).channel = FillIn(u.channel, items)
                 /\ \/ /\ ~FillsAny(u.proxy, Keep(items, Showable))
                       /\ Fills(u, items).proxy = u.proxy
                       /\ Fills(u, items).layouts = u.layouts
                       /\ Fills(u, items).cleared = u.cleared
                    \/ /\ FillsAny(u.proxy, Keep(items, Showable))
                       /\ Fills(u, items).proxy = FillIn(u.proxy, Keep(items, Showable))
                       /\ Fills(u, items).layouts = FillIn(u.proxy, Keep(items, Showable))
                       /\ Fills(u, items).cleared = FALSE
<1> DEFINE kept == Keep(items, Showable)
           c == FillIn(u.channel, items)
           p == FillIn(u.proxy, kept)
<1>1. kept \in Seq(Item)
  BY KeepFacts
<1>2. c \in Queue(Item) /\ p \in Queue(Item)
  BY <1>1, FillInQueue DEF Views
<1>3. Fills(u, items) =
        IF ~FillsAny(u.channel, items) THEN u
        ELSE IF ~FillsAny(u.proxy, kept) THEN [u EXCEPT !.channel = c]
        ELSE [[u EXCEPT !.channel = c] EXCEPT !.proxy = p, !.layouts = p, !.cleared = FALSE]
  BY DEF Fills, Views
<1> HIDE DEF kept, c, p
<1>4. CASE ~FillsAny(u.channel, items)
  BY <1>1, <1>3, <1>4 DEF kept
<1>5. CASE FillsAny(u.channel, items) /\ ~FillsAny(u.proxy, kept)
  <2>1. Fills(u, items) = [u EXCEPT !.channel = c]
    BY <1>3, <1>5
  <2>2. /\ Fills(u, items) \in Views /\ Fills(u, items).channel = c
        /\ Fills(u, items).proxy = u.proxy /\ Fills(u, items).layouts = u.layouts
        /\ Fills(u, items).cleared = u.cleared
    BY <1>2, <2>1 DEF Views
  <2> QED
    BY <1>1, <1>5, <2>2 DEF kept, c
<1>6. CASE FillsAny(u.channel, items) /\ FillsAny(u.proxy, kept)
  <2>1. Fills(u, items) = [[u EXCEPT !.channel = c] EXCEPT !.proxy = p, !.layouts = p, !.cleared = FALSE]
    BY <1>3, <1>6
  <2>2. /\ Fills(u, items) \in Views /\ Fills(u, items).channel = c
        /\ Fills(u, items).proxy = p /\ Fills(u, items).layouts = p
        /\ Fills(u, items).cleared = FALSE
    BY <1>2, <2>1 DEF Views
  <2> QED
    BY <1>1, <1>6, <2>2 DEF kept, c, p
<1> QED
  BY <1>4, <1>5, <1>6

\* The type invariant, part by part.
ViewTypes == Lists \in Views
ScalarTypes ==
    /\ log \in 0 .. MaxMessages /\ lastConnectedAt \in 0 .. log
    /\ link \in {"closed", "open", "joined", "silent"}
    /\ room \in BOOLEAN /\ disconnected \in BOOLEAN /\ fresh \in BOOLEAN
    /\ loading \in BOOLEAN /\ mixed \in BOOLEAN
    /\ breaks \in 0 .. MaxBreaks /\ fails \in 0 .. MaxFails
    /\ missed \subseteq 1 .. log /\ excused \subseteq 1 .. log
\* A load when n messages are sent.
Record(n) ==
    [first : BOOLEAN, phase : {"asked", "complete", "partial"},
     after : 0 .. n, before : 0 .. n, provider : 1 .. Providers,
     items : Seq(1 .. n), partial : Seq(1 .. n)]
LoadTypes == loads \subseteq Record(log)
TypeInv == ViewTypes /\ ScalarTypes /\ LoadTypes

\* The record of the lists, and the variables.
LEMMA ListsIs ==
    /\ Lists.channel = messages /\ Lists.proxy = proxy
    /\ Lists.layouts = layouts /\ Lists.cleared = cleared
    /\ Lists \in Views <=> /\ messages \in Queue(Item) /\ proxy \in Queue(Item)
                           /\ layouts \in Queue(Item) /\ cleared \in BOOLEAN
BY DEF Lists, Views

\* What the run checks follows from it.
LEMMA TypeInvImpliesTypeOK == TypeInv => TypeOK
<1> SUFFICES ASSUME TypeInv PROVE TypeOK
  OBVIOUS
<1>1. \A q \in {messages, proxy, layouts} : q \in Seq(Item) /\ Len(q) <= Limit
  BY ListsIs DEF TypeInv, ViewTypes, Queue
<1>2. cleared \in BOOLEAN
  BY ListsIs DEF TypeInv, ViewTypes
<1> QED
  BY <1>1, <1>2 DEF TypeInv, ScalarTypes, LoadTypes, Record, TypeOK

\* The bounds are numbers.
LEMMA NumberFacts ==
    /\ MaxMessages \in Nat /\ HistoryLimit \in Nat /\ MaxBreaks \in Nat /\ MaxFails \in Nat
    /\ Providers \in Nat /\ Providers > 0
<1>1. MaxMessages \in Nat
  BY BoundsAssumption
<1>2. HistoryLimit \in Nat
  BY BoundsAssumption
<1>3. MaxBreaks \in Nat
  BY BoundsAssumption
<1>4. MaxFails \in Nat
  BY BoundsAssumption
<1>5. Providers \in Nat /\ Providers > 0
  BY BoundsAssumption
<1> QED
  BY <1>1, <1>2, <1>3, <1>4, <1>5

\* A load stays one while messages are sent.
LEMMA RecordGrows ==
    ASSUME NEW n \in Nat, NEW m \in Nat, n <= m
    PROVE  Record(n) \subseteq Record(m)
<1>1. 0 .. n \subseteq 0 .. m /\ 1 .. n \subseteq 1 .. m
  OBVIOUS
<1>2. Seq(1 .. n) \subseteq Seq(1 .. m)
  BY <1>1, SeqMonotonic
<1> QED
  BY <1>1, <1>2 DEF Record

\* Showing u gives the lists of u.
LEMMA ShowIs ==
    ASSUME NEW u, Show(u)
    PROVE  /\ messages' = u.channel /\ proxy' = u.proxy
           /\ layouts' = u.layouts /\ cleared' = u.cleared
           /\ Lists' = [channel |-> u.channel, proxy |-> u.proxy,
                        layouts |-> u.layouts, cleared |-> u.cleared]
           /\ u \in Views => Lists' = u
BY DEF Show, Lists, Views

\* The types hold at first.
LEMMA InitType == Init => TypeInv
<1> SUFFICES ASSUME Init PROVE TypeInv
  OBVIOUS
<1>1. <<>> \in Queue(Item)
  BY EmptySeq, LimitAssumption DEF Queue
<1>2. ViewTypes
  BY <1>1, ListsIs DEF Init, ViewTypes
<1>3. ScalarTypes
  <2>1. log \in 0 .. MaxMessages /\ lastConnectedAt \in 0 .. log
    BY NumberFacts DEF Init
  <2>2. breaks \in 0 .. MaxBreaks /\ fails \in 0 .. MaxFails
    BY NumberFacts DEF Init
  <2> QED
    BY <2>1, <2>2 DEF Init, ScalarTypes
<1>4. LoadTypes
  BY DEF Init, LoadTypes
<1> QED
  BY <1>2, <1>3, <1>4 DEF TypeInv

\* The record of a load that is started, and what starting one does to loads.
LEMMA LoadRecord ==
    ASSUME NEW n \in Nat, NEW after \in 0 .. n, NEW before \in 0 .. n, NEW first \in BOOLEAN
    PROVE  Load(first, after, before) \in Record(n)
<1>1. <<>> \in Seq(1 .. n) /\ 1 \in 1 .. Providers
  BY NumberFacts
<1> QED
  BY <1>1 DEF Load, Record

\* A load that starts is of the type of loads,
LEMMA StartLoadTypes ==
    ASSUME TypeInv, NEW first \in BOOLEAN, NEW after, NEW before, StartLoad(first, after, before),
           log' \in Nat, log <= log', after \in 0 .. log', before \in 0 .. log'
    PROVE  loading' \in BOOLEAN /\ LoadTypes'
<1>1. log \in Nat
  BY NumberFacts DEF TypeInv, ScalarTypes
<1>2. loads \subseteq Record(log')
  BY <1>1, RecordGrows DEF TypeInv, LoadTypes
<1>3. Load(first, after, before) \in Record(log')
  BY LoadRecord
<1>4. loads' \subseteq Record(log')
  BY <1>2, <1>3 DEF StartLoad
<1> QED
  BY <1>4 DEF StartLoad, LoadTypes, Record

\* as is what it asks for and has got.
LEMMA WindowTypes ==
    ASSUME TypeInv, NEW l \in loads
    PROVE  /\ l \in Record(log) /\ log \in Nat /\ 1 .. log \subseteq Server
           /\ Window(l) \subseteq 1 .. log
           /\ l.items \in Seq(1 .. log) /\ l.partial \in Seq(1 .. log)
           /\ l.items \in Seq(Item) /\ l.partial \in Seq(Item)
<1>1. l \in Record(log) /\ log \in Nat /\ 1 .. log \subseteq Server
  BY NumberFacts DEF TypeInv, LoadTypes, ScalarTypes, Server
<1>2. Window(l) \subseteq 1 .. log
  BY <1>1 DEF Window, Record
<1>3. l.items \in Seq(1 .. log) /\ l.partial \in Seq(1 .. log)
  BY <1>1 DEF Record
<1>4. 1 .. log \subseteq Item
  BY <1>1, ItemFacts
<1> QED
  BY <1>1, <1>2, <1>3, <1>4, SeqMonotonic

\* An answer of a service keeps the types,
LEMMA AnswerTypes ==
    ASSUME TypeInv, NEW l \in loads, NEW phase \in {"complete", "partial"},
           NEW S \in SUBSET Window(l), Answer(l, phase, S), fails' \in 0 .. MaxFails
    PROVE  TypeInv'
<1>1. l \in Record(log) /\ Window(l) \subseteq 1 .. log /\ 1 .. log \subseteq Server
  BY WindowTypes
<1>2. InTime(S) \in Seq(1 .. log)
  <2>1. InTime(S) \in Seq(S) /\ S \subseteq 1 .. log
    BY <1>1, InTimeFacts
  <2> QED
    BY <2>1, SeqMonotonic
<1>3. [l EXCEPT !.phase = phase, !.items = InTime(S)] \in Record(log)
  BY <1>1, <1>2 DEF Record
<1>4. UNCHANGED <<loading, connection, shown, server, excused>>
  BY DEF Answer
<1>5. LoadTypes'
  BY <1>3, <1>4 DEF Answer, TypeInv, LoadTypes, Record, server
<1>6. ViewTypes' /\ ScalarTypes'
  BY <1>4 DEF TypeInv, ViewTypes, Lists, ScalarTypes, connection, shown, server
<1> QED
  BY <1>5, <1>6 DEF TypeInv

\* as does the end of a load,
LEMMA FinishTypes ==
    ASSUME TypeInv, NEW l \in loads, NEW u \in Views, NEW items \in Seq(Item), Finish(l, u, items),
           UNCHANGED <<connection, server>>, fails' \in 0 .. MaxFails
    PROVE  TypeInv'
<1>1. Show(IF l.first THEN AddsAtStart(u, items) ELSE Fills(u, items))
  BY DEF Finish
<1>2. (IF l.first THEN AddsAtStart(u, items) ELSE Fills(u, items)) \in Views
  BY AddsAtStartView, FillsView
<1>3. ViewTypes'
  BY <1>1, <1>2, ShowIs DEF ViewTypes
<1>4. mixed' \in BOOLEAN /\ loading' \in BOOLEAN
  BY DEF Finish, TypeInv, ScalarTypes
<1>5. excused' \subseteq 1 .. log
  BY DEF Finish, TypeInv, ScalarTypes
<1>6. LoadTypes'
  BY DEF Finish, TypeInv, LoadTypes, Record, server
<1>7. ScalarTypes'
  BY <1>4, <1>5 DEF TypeInv, ScalarTypes, connection, server
<1> QED
  BY <1>3, <1>6, <1>7 DEF TypeInv

\* and so does every step of one.
LEMMA LoadStepTypes ==
    ASSUME TypeInv, NEW l \in loads, LoadStep(l)
    PROVE  TypeInv'
<1>1. /\ l \in Record(log) /\ log \in Nat /\ Window(l) \subseteq 1 .. log
      /\ l.items \in Seq(1 .. log) /\ l.partial \in Seq(1 .. log)
      /\ l.items \in Seq(Item) /\ l.partial \in Seq(Item)
  BY WindowTypes
<1>2. Lists \in Views /\ Adds(Lists, Notice) \in Views /\ Adds(Adds(Lists, Notice), Notice) \in Views
  <2>1. Lists \in Views /\ Notice \in Item
    BY ItemFacts DEF TypeInv, ViewTypes
  <2>2. Adds(Lists, Notice) \in Views
    BY <2>1, AddsView
  <2> QED
    BY <2>1, <2>2, AddsView
<1>3. fails \in 0 .. MaxFails /\ (fails < MaxFails => fails + 1 \in 0 .. MaxFails)
  BY NumberFacts DEF TypeInv, ScalarTypes
<1>4. CASE AnswerComplete(l)
  <2>1. Newest(Window(l)) \in SUBSET Window(l)
    BY DEF Newest
  <2>2. Answer(l, "complete", Newest(Window(l))) /\ fails' = fails
    BY <1>4 DEF AnswerComplete
  <2> QED
    BY <1>3, <2>1, <2>2, AnswerTypes
<1>5. CASE AnswerPartial(l)
  <2>1. PICK T \in SUBSET Window(l) : Answer(l, "partial", T)
    BY <1>5 DEF AnswerPartial, Newest
  <2>2. fails' \in 0 .. MaxFails
    BY <1>3, <1>5 DEF AnswerPartial
  <2> QED
    BY <2>1, <2>2, AnswerTypes
<1>6. CASE FinishComplete(l)
  <2>1. (IF l.provider > 1 THEN Adds(Lists, Notice) ELSE Lists) \in Views
    BY <1>2
  <2> QED
    BY <1>1, <1>3, <1>6, <2>1, FinishTypes DEF FinishComplete
<1>7. CASE AskNext(l)
  <2>1. fails' \in 0 .. MaxFails
    BY <1>3, <1>7 DEF AskNext, Fails
  <2>2. Kept(l) \in Seq(1 .. log)
    BY <1>1 DEF Kept
  <2>3. <<>> \in Seq(1 .. log) /\ l.provider + 1 \in 1 .. Providers
    <3>1. l.provider \in 1 .. Providers /\ l.provider < Providers
      BY <1>1, <1>7 DEF Record, AskNext
    <3> QED
      BY <3>1, NumberFacts
  <2>4. [l EXCEPT !.phase = "asked", !.provider = l.provider + 1, !.partial = Kept(l), !.items = <<>>]
           \in Record(log)
    BY <1>1, <2>2, <2>3 DEF Record
  <2>5. loads' \subseteq Record(log) /\ log' = log
    BY <1>7, <2>4 DEF AskNext, TypeInv, LoadTypes, server
  <2>6. ViewTypes' /\ mixed' = mixed
    BY <1>2, <1>7, ShowIs DEF AskNext, Display, ViewTypes
  <2>7. UNCHANGED <<loading, connection, server, excused>>
    BY <1>7 DEF AskNext
  <2>8. ScalarTypes'
    BY <2>1, <2>6, <2>7 DEF TypeInv, ScalarTypes, connection, server
  <2>9. LoadTypes'
    BY <2>5 DEF LoadTypes, Record
  <2> QED
    BY <2>6, <2>8, <2>9 DEF TypeInv
<1>8. CASE FinishLast(l)
  <2>1. fails' \in 0 .. MaxFails
    BY <1>3, <1>8 DEF FinishLast, Fails
  <2>2. Kept(l) \in Seq(Item)
    BY <1>1 DEF Kept
  <2> QED
    BY <1>2, <1>8, <2>1, <2>2, FinishTypes DEF FinishLast
<1> QED
  BY <1>4, <1>5, <1>6, <1>7, <1>8 DEF LoadStep

\* What a handler displays keeps the types of the lists.
LEMMA DisplayTypes ==
    ASSUME NEW u \in Views, mixed \in BOOLEAN, Display(u)
    PROVE  ViewTypes' /\ mixed' \in BOOLEAN /\ Lists' = u
<1>1. Show(u) /\ mixed' = mixed
  BY DEF Display
<1>2. Lists' = u
  BY <1>1, ShowIs
<1> QED
  BY <1>1, <1>2 DEF ViewTypes

\* A message of the server keeps the types,
LEMMA ChatTypes == ASSUME TypeInv, Chat PROVE TypeInv'
<1>1. /\ log \in Nat /\ log < MaxMessages /\ log' = log + 1 /\ log' \in 0 .. MaxMessages
      /\ lastConnectedAt \in 0 .. log /\ mixed \in BOOLEAN
  BY NumberFacts DEF Chat, TypeInv, ScalarTypes
<1>2. log + 1 \in Server /\ log + 1 \in Item /\ Lists \in Views
  <2>1. log + 1 \in Server
    BY <1>1, NumberFacts DEF Server
  <2> QED
    BY <2>1, ItemFacts DEF TypeInv, ViewTypes
<1>3. 0 .. log \subseteq 0 .. log' /\ 1 .. log \subseteq 1 .. log' /\ log + 1 \in 1 .. log'
  BY <1>1
<1>4. Adds(Lists, log + 1) \in Views
  BY <1>2, AddsView
<1>5. loads \subseteq Record(log')
  BY <1>1, RecordGrows DEF TypeInv, LoadTypes
<1>6. missed' \subseteq 1 .. log' /\ excused' \subseteq 1 .. log'
  BY <1>3 DEF Chat, TypeInv, ScalarTypes
<1>7. ViewTypes' /\ mixed' \in BOOLEAN
  <2>1. CASE link = "joined"
    <3>1. Display(Adds(Lists, log + 1))
      BY <2>1 DEF Chat
    <3> QED
      BY <1>1, <1>4, <3>1, DisplayTypes
  <2>2. CASE link # "joined"
    BY <1>1, <2>2 DEF Chat, shown, TypeInv, ViewTypes, Lists
  <2> QED
    BY <2>1, <2>2
<1>8. /\ room' \in BOOLEAN /\ disconnected' \in BOOLEAN /\ fresh' \in BOOLEAN
      /\ lastConnectedAt' \in 0 .. log' /\ loading' \in BOOLEAN /\ LoadTypes'
  <2>1. CASE link = "joined" /\ ~room /\ Named(log + 1)
    <3>1. NoteRoom(log + 1) /\ fresh' = TRUE
      BY <2>1 DEF Chat
    <3>2. StartLoad(TRUE, 0, 0) /\ room' = TRUE /\ disconnected' = FALSE /\ lastConnectedAt' = log'
      BY <1>1, <3>1 DEF NoteRoom
    <3>3. 0 \in 0 .. log' /\ log' \in 0 .. log' /\ log' \in Nat /\ log <= log'
      BY <1>1
    <3>4. loading' \in BOOLEAN /\ LoadTypes'
      BY <3>2, <3>3, StartLoadTypes
    <3> QED
      BY <3>1, <3>2, <3>3, <3>4
  <2>2. CASE ~(link = "joined" /\ ~room /\ Named(log + 1))
    <3>1. UNCHANGED <<room, disconnected, lastConnectedAt, loading, loads>>
      BY <2>2 DEF Chat
    <3>2. fresh' \in BOOLEAN
      BY DEF Chat, TypeInv, ScalarTypes
    <3>3. LoadTypes'
      BY <1>5, <3>1 DEF LoadTypes, Record
    <3> QED
      BY <1>1, <1>3, <3>1, <3>2, <3>3 DEF TypeInv, ScalarTypes
  <2> QED
    BY <2>1, <2>2
<1>9. link' = link /\ breaks' = breaks /\ fails' = fails
  BY DEF Chat
<1> QED
  BY <1>1, <1>6, <1>7, <1>8, <1>9 DEF TypeInv, ScalarTypes

\* a ROOMSTATE,
LEMMA RoomStateTypes == ASSUME TypeInv, RoomState PROVE TypeInv'
<1>1. log \in Nat /\ log' = log /\ log \in 0 .. MaxMessages
  BY NumberFacts DEF RoomState, server, TypeInv, ScalarTypes
<1>2. StartLoad(TRUE, 0, 0) /\ room' = TRUE /\ disconnected' = FALSE /\ lastConnectedAt' = log'
  BY <1>1 DEF RoomState, NoteRoom
<1>3. 0 \in 0 .. log' /\ log' \in 0 .. log' /\ log' \in Nat /\ log <= log'
  BY <1>1
<1>4. loading' \in BOOLEAN /\ LoadTypes'
  BY <1>2, <1>3, StartLoadTypes
<1>5. /\ link' = link /\ breaks' = breaks /\ fails' = fails /\ missed' = missed
      /\ excused' = excused /\ fresh' = TRUE /\ mixed' = mixed /\ Lists' = Lists
  BY DEF RoomState, server, shown, Lists
<1> QED
  BY <1>1, <1>2, <1>3, <1>4, <1>5 DEF TypeInv, ViewTypes, ScalarTypes

\* the user's own JOIN,
LEMMA JoinMessageTypes == ASSUME TypeInv, JoinMessage PROVE TypeInv'
<1>1. /\ log \in Nat /\ log' = log /\ log \in 0 .. MaxMessages /\ mixed \in BOOLEAN
      /\ lastConnectedAt \in 0 .. log
  BY NumberFacts DEF JoinMessage, server, TypeInv, ScalarTypes
<1>2. Adds(Lists, Notice) \in Views
  BY ItemFacts, AddsView DEF TypeInv, ViewTypes
<1>3. ViewTypes' /\ mixed' \in BOOLEAN
  BY <1>1, <1>2, DisplayTypes DEF JoinMessage
<1>4. /\ loading' \in BOOLEAN /\ LoadTypes' /\ excused' \subseteq 1 .. log
      /\ lastConnectedAt' \in 0 .. log /\ disconnected' \in BOOLEAN
  <2>1. CASE disconnected
    <3>1. StartLoad(FALSE, lastConnectedAt, log)
      BY <2>1 DEF JoinMessage, LoadGap
    <3>2. lastConnectedAt \in 0 .. log' /\ log \in 0 .. log' /\ log' \in Nat /\ log <= log'
      BY <1>1
    <3>3. loading' \in BOOLEAN /\ LoadTypes'
      BY <3>1, <3>2, StartLoadTypes
    <3> QED
      BY <1>1, <2>1, <3>2, <3>3 DEF JoinMessage, TypeInv, ScalarTypes
  <2>2. CASE ~disconnected
    <3>1. UNCHANGED <<loading, loads, excused, lastConnectedAt, disconnected>>
      BY <2>2 DEF JoinMessage
    <3> QED
      BY <1>1, <3>1 DEF TypeInv, ScalarTypes, LoadTypes, Record
  <2> QED
    BY <2>1, <2>2
<1>5. /\ link' = "joined" /\ fresh' = TRUE /\ room' = room /\ breaks' = breaks
      /\ fails' = fails /\ missed' = missed
  BY DEF JoinMessage, server
<1> QED
  BY <1>1, <1>3, <1>4, <1>5 DEF TypeInv, ScalarTypes

\* A step that starts no load and sends nothing keeps them, if it keeps those of the rest:
LEMMA OtherTypes ==
    ASSUME TypeInv,
           ViewTypes' /\ mixed' \in BOOLEAN, UNCHANGED <<log, missed, loading, loads, fails>>,
           link' \in {"closed", "open", "joined", "silent"},
           room' \in BOOLEAN, disconnected' \in BOOLEAN, fresh' \in BOOLEAN,
           lastConnectedAt' \in 0 .. log, breaks' \in 0 .. MaxBreaks, excused' \subseteq 1 .. log
    PROVE  TypeInv'
BY DEF TypeInv, ScalarTypes, LoadTypes, Record

\* that the socket is open,
LEMMA ReadConnectedTypes == ASSUME TypeInv, ReadConnected PROVE TypeInv'
<1>1. /\ Adds(Lists, Notice) \in Views /\ Replaces(Lists, Disconnected, Notice) \in Views
  BY ItemFacts, AddsView, ReplacesView DEF TypeInv, ViewTypes
<1>2. mixed \in BOOLEAN
  BY DEF TypeInv, ScalarTypes
<1>3. ViewTypes' /\ mixed' \in BOOLEAN
  BY <1>1, <1>2, DisplayTypes DEF ReadConnected
<1> QED
  BY <1>3, OtherTypes DEF ReadConnected, TypeInv, ScalarTypes, history, server

\* (the heartbeat moves only the two it sets)
LEMMA MarkConnectedTypes ==
    ASSUME TypeInv, MarkConnected
    PROVE  lastConnectedAt' \in 0 .. log /\ excused' \subseteq 1 .. log
<1>1. log \in 0 .. log
  BY NumberFacts DEF TypeInv, ScalarTypes
<1> QED
  BY <1>1 DEF MarkConnected, TypeInv, ScalarTypes

\* a break nobody notices,
LEMMA BreakTypes == ASSUME TypeInv, Break PROVE TypeInv'
<1>1. breaks' \in 0 .. MaxBreaks
  BY NumberFacts DEF Break, TypeInv, ScalarTypes
<1>2. ViewTypes' /\ mixed' = mixed
  BY DEF Break, shown, TypeInv, ViewTypes, Lists
<1>3. /\ UNCHANGED <<room, disconnected, lastConnectedAt, fresh, history, server, excused>>
      /\ link' = "silent"
  BY DEF Break
<1> QED
  BY <1>1, <1>2, <1>3, OtherTypes DEF TypeInv, ScalarTypes, history, server

\* one that is noticed,
LEMMA OnDisconnectedTypes == ASSUME TypeInv, OnDisconnected PROVE TypeInv'
<1>1. breaks' \in 0 .. MaxBreaks
  BY NumberFacts DEF OnDisconnected, TypeInv, ScalarTypes
<1>2. Adds(Lists, Disconnected) \in Views
  BY ItemFacts, AddsView DEF TypeInv, ViewTypes
<1>3. ViewTypes' /\ mixed' \in BOOLEAN
  BY <1>2, DisplayTypes DEF OnDisconnected, TypeInv, ScalarTypes
<1>4. /\ UNCHANGED <<room, lastConnectedAt, fresh, history, server, excused>>
      /\ link' = "closed" /\ disconnected' = (disconnected \/ room)
  BY DEF OnDisconnected
<1>5. disconnected' \in BOOLEAN
  BY <1>4 DEF TypeInv, ScalarTypes
<1> QED
  BY <1>1, <1>3, <1>4, <1>5, OtherTypes DEF TypeInv, ScalarTypes, history, server

\* a reconnect that is asked for,
LEMMA ReconnectAskedTypes == ASSUME TypeInv, ReconnectAsked PROVE TypeInv'
<1>1. breaks' \in 0 .. MaxBreaks
  BY NumberFacts DEF ReconnectAsked, TypeInv, ScalarTypes
<1>2. Adds(Adds(Lists, Notice), Disconnected) \in Views
  BY ItemFacts, AddsView DEF TypeInv, ViewTypes
<1>3. ViewTypes' /\ mixed' \in BOOLEAN
  BY <1>2, DisplayTypes DEF ReconnectAsked, TypeInv, ScalarTypes
<1>4. /\ UNCHANGED <<room, fresh, history, server>>
      /\ link' = "closed" /\ disconnected' = (disconnected \/ room)
  BY DEF ReconnectAsked
<1>5. disconnected' \in BOOLEAN
  BY <1>4 DEF TypeInv, ScalarTypes
<1>6. lastConnectedAt' \in 0 .. log /\ excused' \subseteq 1 .. log
  BY MarkConnectedTypes DEF ReconnectAsked
<1> QED
  BY <1>1, <1>3, <1>4, <1>5, <1>6, OtherTypes DEF TypeInv, ScalarTypes, history, server

\* the heartbeat,
LEMMA PingTimerTypes == ASSUME TypeInv, NEW late \in BOOLEAN, PingTimer(late) PROVE TypeInv'
<1>1. lastConnectedAt' \in 0 .. log /\ excused' \subseteq 1 .. log
  BY MarkConnectedTypes DEF PingTimer, TypeInv, ScalarTypes
<1>2. ViewTypes' /\ mixed' = mixed
  BY DEF PingTimer, shown, TypeInv, ViewTypes, Lists
<1>3. /\ UNCHANGED <<link, room, disconnected, breaks, history, server>>
      /\ fresh' = FALSE
  BY DEF PingTimer
<1> QED
  BY <1>1, <1>2, <1>3, OtherTypes DEF TypeInv, ScalarTypes, history, server

\* and what the user does with the view.
LEMMA ViewStepTypes == ASSUME TypeInv, ClearView \/ SetChannel PROVE TypeInv'
<1>1. messages \in Queue(Item) /\ proxy \in Queue(Item) /\ layouts \in Queue(Item)
  BY ListsIs DEF TypeInv, ViewTypes
<1>2. <<>> \in Queue(Item)
  BY EmptySeq, LimitAssumption DEF Queue
<1>3. Keep(messages, Showable) \in Queue(Item)
  <2>1. messages \in Seq(Item) /\ Len(messages) <= Limit /\ Len(messages) \in Nat /\ Limit \in Nat
    BY <1>1, QueueFacts
  <2>2. Keep(messages, Showable) \in Seq(Item) /\ Len(Keep(messages, Showable)) <= Len(messages)
        /\ Len(Keep(messages, Showable)) \in Nat
    BY <2>1, KeepFacts, KeepRange
  <2> QED
    BY <2>1, <2>2 DEF Queue
<1>4. messages' \in Queue(Item) /\ proxy' \in Queue(Item) /\ layouts' \in Queue(Item) /\ cleared' \in BOOLEAN
  BY <1>1, <1>2, <1>3 DEF ClearView, SetChannel
<1>5. ViewTypes'
  BY <1>4 DEF ViewTypes, Lists, Views
<1>6. UNCHANGED <<mixed, connection, history, server, excused>>
  BY DEF ClearView, SetChannel
<1> QED
  BY <1>5, <1>6, OtherTypes DEF TypeInv, ScalarTypes, connection, history, server

\* Every step keeps the types.
LEMMA NextTypes == ASSUME TypeInv, [Next]_vars PROVE TypeInv'
<1>1. CASE Connection
  BY <1>1, ChatTypes, RoomStateTypes, JoinMessageTypes, ReadConnectedTypes, BreakTypes,
     OnDisconnectedTypes, ReconnectAskedTypes, PingTimerTypes DEF Connection
<1>2. CASE \E l \in loads : LoadStep(l)
  BY <1>2, LoadStepTypes
<1>3. CASE ClearView \/ SetChannel
  BY <1>3, ViewStepTypes
<1>4. CASE UNCHANGED vars
  BY <1>4 DEF vars, connection, history, shown, server, TypeInv, ViewTypes, Lists, ScalarTypes,
     LoadTypes, Record
<1> QED
  BY <1>1, <1>2, <1>3, <1>4 DEF Next

\* The type invariant is inductive by itself.
LEMMA TypeInvHolds == Spec => []TypeInv
<1>1. TypeInv /\ [Next]_vars => TypeInv'
  BY NextTypes
<1> QED
  BY InitType, <1>1, PTL DEF Spec

\* The three lists stay queues of at most Limit items, the messages missed are
\* ones that were sent, and a load asks for a window of what was sent.
THEOREM TypeOKHolds == Spec => []TypeOK
<1>1. TypeInv => TypeOK
  BY TypeInvImpliesTypeOK
<1> QED
  BY TypeInvHolds, <1>1, PTL

--------------------------------------------------------------------------------
(* A queue in order, or cut into two parts that are *)

\* The named messages are in order up to the c-th item, and behind it.
Cut(q, c) == \A i, j \in 1 .. Len(q) :
    i < j /\ (j <= c \/ c < i) /\ Named(q[i]) /\ Named(q[j]) => q[i] < q[j]

\* The messages with an id in front of the cut, and those behind it.
Fore(q, c) == {x \in Server : Named(x) /\ \E i \in 1 .. c : q[i] = x}
Aft(q, c) == {x \in Server : Named(x) /\ \E i \in c + 1 .. Len(q) : q[i] = x}

\* Where the items of q are when x was put in front of its i-th item, and the
\* other way round; `lost` is the number of items that were dropped.
ComesFrom(q, i, x, r, lost) ==
    \A j \in 1 .. Len(r) :
        \/ j + lost < i /\ j + lost \in 1 .. Len(q) /\ r[j] = q[j + lost]
        \/ j + lost = i /\ r[j] = x
        \/ j + lost > i /\ j + lost - 1 \in 1 .. Len(q) /\ r[j] = q[j + lost - 1]
GoesTo(q, i, x, r, lost) ==
    /\ i - lost >= 1 => i - lost \in 1 .. Len(r) /\ r[i - lost] = x
    /\ \A k \in 1 .. Len(q) :
          /\ k < i /\ k - lost >= 1 => k - lost \in 1 .. Len(r) /\ r[k - lost] = q[k]
          /\ k >= i => k + 1 - lost \in 1 .. Len(r) /\ r[k + 1 - lost] = q[k]

\* Where each item of q is in r, and where each of r was.
LEMMA PlacedAt ==
    ASSUME NEW q \in Queue(Item), NEW r \in Queue(Item), NEW i \in 1 .. Len(q) + 1, NEW x,
           Placed(q, i, x, r)
    PROVE  \E lost \in {0, 1} :
              /\ lost = 1 <=> Len(q) = Limit
              /\ Len(r) = Len(q) + 1 - lost
              /\ ComesFrom(q, i, x, r, lost) /\ GoesTo(q, i, x, r, lost)
<1> DEFINE lost == IF Len(q) = Limit THEN 1 ELSE 0
<1>1. /\ Len(q) \in Nat /\ Len(r) \in Nat /\ lost \in {0, 1} /\ (lost = 1 <=> Len(q) = Limit)
      /\ Len(q) >= lost
  BY QueueFacts
<1>2. /\ Len(r) = Len(q) + 1 - lost
      /\ \A j \in 1 .. Len(r) : r[j] = IF j + lost < i THEN q[j + lost]
                                       ELSE IF j + lost = i THEN x ELSE q[j + lost - 1]
  BY DEF Placed
<1> HIDE DEF lost
<1>3. ComesFrom(q, i, x, r, lost)
  <2> SUFFICES ASSUME NEW j \in 1 .. Len(r)
               PROVE  \/ j + lost < i /\ j + lost \in 1 .. Len(q) /\ r[j] = q[j + lost]
                      \/ j + lost = i /\ r[j] = x
                      \/ j + lost > i /\ j + lost - 1 \in 1 .. Len(q) /\ r[j] = q[j + lost - 1]
    BY DEF ComesFrom
  <2>1. r[j] = IF j + lost < i THEN q[j + lost] ELSE IF j + lost = i THEN x ELSE q[j + lost - 1]
    BY <1>2
  <2>2. CASE j + lost < i
    <3>1. j + lost \in 1 .. Len(q)
      BY <1>1, <2>2
    <3> QED
      BY <2>1, <2>2, <3>1
  <2>3. CASE j + lost = i
    BY <1>1, <2>1, <2>3
  <2>4. CASE j + lost > i
    <3>1. j + lost - 1 \in 1 .. Len(q) /\ ~(j + lost < i) /\ j + lost # i
      BY <1>1, <1>2, <2>4
    <3> QED
      BY <2>1, <2>4, <3>1
  <2> QED
    BY <1>1, <2>2, <2>3, <2>4
<1>4. i - lost >= 1 => i - lost \in 1 .. Len(r) /\ r[i - lost] = x
  <2> SUFFICES ASSUME i - lost >= 1 PROVE i - lost \in 1 .. Len(r) /\ r[i - lost] = x
    OBVIOUS
  <2>1. i - lost \in 1 .. Len(r) /\ i - lost + lost = i
    BY <1>1, <1>2
  <2> QED
    BY <1>2, <2>1
<1>5. ASSUME NEW k \in 1 .. Len(q), k < i, k - lost >= 1
      PROVE  k - lost \in 1 .. Len(r) /\ r[k - lost] = q[k]
  <2>1. k - lost \in 1 .. Len(r) /\ k - lost + lost = k
    BY <1>1, <1>2, <1>5
  <2> QED
    BY <1>2, <1>5, <2>1
<1>6. ASSUME NEW k \in 1 .. Len(q), k >= i
      PROVE  k + 1 - lost \in 1 .. Len(r) /\ r[k + 1 - lost] = q[k]
  <2>1. /\ k + 1 - lost \in 1 .. Len(r) /\ k + 1 - lost + lost - 1 = k
        /\ ~(k + 1 - lost + lost < i) /\ k + 1 - lost + lost # i
    BY <1>1, <1>2, <1>6
  <2>2. r[k + 1 - lost] = q[k + 1 - lost + lost - 1]
    BY <1>2, <2>1
  <2> QED
    BY <2>1, <2>2
<1>7. GoesTo(q, i, x, r, lost)
  BY <1>4, <1>5, <1>6 DEF GoesTo
<1> QED
  BY <1>1, <1>2, <1>3, <1>7

\* What there is after x was put in; only a full queue loses an item, its first.
LEMMA PlacedItems ==
    ASSUME NEW q \in Queue(Item), NEW r \in Queue(Item), NEW i \in 1 .. Len(q) + 1, NEW x,
           Placed(q, i, x, r)
    PROVE  /\ Len(q) <= Len(r)
           /\ \A j \in 1 .. Len(r) : r[j] = x \/ \E k \in 1 .. Len(q) : q[k] = r[j]
           /\ \A k \in 2 .. Len(q) : \E j \in 1 .. Len(r) : r[j] = q[k]
           /\ (i = 1 \/ Len(q) # Limit) => \A k \in 1 .. Len(q) : \E j \in 1 .. Len(r) : r[j] = q[k]
           /\ (i # 1 \/ Len(q) # Limit) => \E j \in 1 .. Len(r) : r[j] = x
<1>1. PICK lost \in {0, 1} :
         /\ lost = 1 <=> Len(q) = Limit
         /\ Len(r) = Len(q) + 1 - lost
         /\ ComesFrom(q, i, x, r, lost) /\ GoesTo(q, i, x, r, lost)
  BY PlacedAt
<1>2. Len(q) \in Nat /\ Len(r) \in Nat
  BY QueueFacts
<1>3. Len(q) <= Len(r)
  BY <1>1, <1>2
<1>4. \A j \in 1 .. Len(r) : r[j] = x \/ \E k \in 1 .. Len(q) : q[k] = r[j]
  BY <1>1 DEF ComesFrom
<1>5. ASSUME NEW k \in 1 .. Len(q), k >= 2 \/ i = 1 \/ Len(q) # Limit
      PROVE  \E j \in 1 .. Len(r) : r[j] = q[k]
  <2>1. k >= i \/ (k < i /\ k - lost >= 1)
    BY <1>1, <1>2, <1>5
  <2> QED
    BY <1>1, <2>1 DEF GoesTo
<1>6. ASSUME i # 1 \/ Len(q) # Limit PROVE \E j \in 1 .. Len(r) : r[j] = x
  <2>1. i - lost >= 1
    BY <1>1, <1>2, <1>6
  <2> QED
    BY <1>1, <2>1 DEF GoesTo
<1>7. \A k \in 2 .. Len(q) : k \in 1 .. Len(q) /\ k >= 2
  BY <1>2
<1> QED
  BY <1>3, <1>4, <1>5, <1>6, <1>7

\* Two items that are not x have the order they had.
LEMMA PlacedPairs ==
    ASSUME NEW q \in Queue(Item), NEW r \in Queue(Item), NEW i \in 1 .. Len(q) + 1, NEW x,
           Placed(q, i, x, r),
           NEW a \in 1 .. Len(r), NEW b \in 1 .. Len(r), a < b, r[a] # x, r[b] # x
    PROVE  \E c, d \in 1 .. Len(q) : c < d /\ q[c] = r[a] /\ q[d] = r[b]
<1>1. PICK lost \in {0, 1} : Len(r) = Len(q) + 1 - lost /\ ComesFrom(q, i, x, r, lost)
  BY PlacedAt
<1>2. \/ a + lost < i /\ a + lost \in 1 .. Len(q) /\ r[a] = q[a + lost]
      \/ a + lost > i /\ a + lost - 1 \in 1 .. Len(q) /\ r[a] = q[a + lost - 1]
  BY <1>1 DEF ComesFrom
<1>3. \/ b + lost < i /\ b + lost \in 1 .. Len(q) /\ r[b] = q[b + lost]
      \/ b + lost > i /\ b + lost - 1 \in 1 .. Len(q) /\ r[b] = q[b + lost - 1]
  BY <1>1 DEF ComesFrom
<1>4. CASE a + lost < i /\ b + lost < i
  <2>1. a + lost < b + lost
    BY <1>1
  <2> QED
    BY <1>2, <1>3, <1>4, <2>1
<1>5. CASE a + lost < i /\ b + lost > i
  <2>1. a + lost < b + lost - 1
    BY <1>1, <1>5
  <2> QED
    BY <1>1, <1>2, <1>3, <1>5, <2>1
<1>6. CASE a + lost > i /\ b + lost > i
  <2>1. a + lost - 1 < b + lost - 1
    BY <1>1
  <2> QED
    BY <1>1, <1>2, <1>3, <1>6, <2>1
<1> QED
  BY <1>1, <1>2, <1>3, <1>4, <1>5, <1>6

\* x may stand in front of the i-th item: it is later than all before, and earlier
\* than what follows in that part.
Fits(q, c, i, x) ==
    Named(x) => \A j \in 1 .. Len(q) : Named(q[j]) =>
        /\ j < i => q[j] < x
        /\ i <= j /\ (j <= c \/ c < i) => x < q[j]

\* d cuts r, which is q with x put in, where c cuts q.
CutAlso(q, c, x, r, d) ==
    /\ Cut(r, d)
    /\ Aft(r, d) \subseteq Aft(q, c) \cup {x} /\ Fore(r, d) \subseteq Fore(q, c) \cup {x}
    /\ Aft(r, d) \subseteq Aft(q, c) \/ Fore(r, d) \subseteq Fore(q, c)
    /\ d # 0 => c # 0 /\ Aft(q, c) \subseteq Aft(r, d)

\* A message put where it fits leaves the cut, less what the queue dropped.
LEMMA PlacedCut ==
    ASSUME NEW q \in Queue(Item), NEW r \in Queue(Item), NEW i \in 1 .. Len(q) + 1, NEW x,
           Placed(q, i, x, r), NEW c \in 0 .. Len(q), Cut(q, c), Fits(q, c, i, x)
    PROVE  \E d \in 0 .. Len(r) : /\ CutAlso(q, c, x, r, d)
                                  /\ c < i => Fore(r, d) \subseteq Fore(q, c)
<1>1. PICK lost \in {0, 1} :
         /\ lost = 1 <=> Len(q) = Limit
         /\ Len(r) = Len(q) + 1 - lost
         /\ ComesFrom(q, i, x, r, lost) /\ GoesTo(q, i, x, r, lost)
  BY PlacedAt
<1>2. Len(q) \in Nat /\ Len(r) \in Nat /\ Limit \in Nat /\ Limit > 0
  BY QueueFacts
<1> DEFINE d == IF i <= c THEN c + 1 - lost ELSE IF c = 0 THEN 0 ELSE c - lost
           Moved(j, k) == r[j] = q[k] /\ \/ k = j + lost /\ k < i
                                         \/ k = j + lost - 1 /\ k >= i
<1>3. d \in 0 .. Len(r)
  BY <1>1, <1>2
<1>4. \A j \in 1 .. Len(r) : (j + lost = i /\ r[j] = x) \/ \E k \in 1 .. Len(q) : Moved(j, k)
  <2> TAKE j \in 1 .. Len(r)
  <2>1. \/ j + lost < i /\ j + lost \in 1 .. Len(q) /\ r[j] = q[j + lost]
        \/ j + lost = i /\ r[j] = x
        \/ j + lost > i /\ j + lost - 1 \in 1 .. Len(q) /\ r[j] = q[j + lost - 1]
    BY <1>1 DEF ComesFrom
  <2>2. CASE j + lost < i /\ j + lost \in 1 .. Len(q) /\ r[j] = q[j + lost]
    BY <2>2
  <2>3. CASE j + lost > i /\ j + lost - 1 \in 1 .. Len(q) /\ r[j] = q[j + lost - 1]
    <3>1. j + lost - 1 >= i
      BY <1>1, <2>3
    <3> QED
      BY <2>3, <3>1
  <2> QED
    BY <2>1, <2>2, <2>3
<1>5. ASSUME NEW j \in 1 .. Len(r), NEW k \in 1 .. Len(q), Moved(j, k)
      PROVE  (j <= d => k <= c) /\ (j > d => k > c)
  <2>1. CASE k = j + lost /\ k < i
    BY <1>1, <2>1
  <2>2. CASE k = j + lost - 1 /\ k >= i
    BY <1>1, <2>2
  <2> QED
    BY <1>5, <2>1, <2>2
<1>6. ASSUME NEW j \in 1 .. Len(r), j + lost = i
      PROVE  (j <= d => i <= c) /\ (j > d => i > c)
  BY <1>1, <1>6
<1>7. \A k \in 1 .. Len(q) : k > c /\ d # 0 => \E j \in 1 .. Len(r) : Moved(j, k)
  <2> SUFFICES ASSUME NEW k \in 1 .. Len(q), k > c, d # 0 PROVE \E j \in 1 .. Len(r) : Moved(j, k)
    OBVIOUS
  <2>1. CASE k < i
    <3>1. k - lost >= 1
      BY <1>1, <2>1
    <3>2. k - lost \in 1 .. Len(r) /\ r[k - lost] = q[k]
      BY <1>1, <2>1, <3>1 DEF GoesTo
    <3>3. Moved(k - lost, k)
      BY <1>1, <2>1, <3>2
    <3> QED
      BY <3>2, <3>3
  <2>2. CASE k >= i
    <3>1. k + 1 - lost \in 1 .. Len(r) /\ r[k + 1 - lost] = q[k]
      BY <1>1, <2>2 DEF GoesTo
    <3>2. Moved(k + 1 - lost, k)
      BY <1>1, <2>2, <3>1
    <3> QED
      BY <3>1, <3>2
  <2> QED
    BY <2>1, <2>2
<1>8. d # 0 => c # 0
  BY <1>1
<1> HIDE DEF d
<1>9. Cut(r, d)
  <2> SUFFICES ASSUME NEW a \in 1 .. Len(r), NEW b \in 1 .. Len(r), a < b, b <= d \/ d < a,
                      Named(r[a]), Named(r[b])
               PROVE  r[a] < r[b]
    BY DEF Cut
  <2>1. CASE a + lost = i /\ r[a] = x
    <3>1. b + lost # i
      BY <1>1, <2>1
    <3>2. PICK k \in 1 .. Len(q) : Moved(b, k)
      BY <1>4, <3>1
    <3>3. k >= i
      BY <1>1, <2>1, <3>2
    <3>4. k <= c \/ c < i
      BY <1>3, <1>5, <1>6, <2>1, <3>2
    <3> QED
      BY <2>1, <3>2, <3>3, <3>4 DEF Fits
  <2>2. CASE b + lost = i /\ r[b] = x
    <3>1. a + lost # i
      BY <1>1, <2>2
    <3>2. PICK k \in 1 .. Len(q) : Moved(a, k)
      BY <1>4, <3>1
    <3>3. k < i
      BY <1>1, <2>2, <3>2
    <3> QED
      BY <2>2, <3>2, <3>3 DEF Fits
  <2>3. ASSUME NEW k \in 1 .. Len(q), NEW m \in 1 .. Len(q), Moved(a, k), Moved(b, m)
        PROVE  r[a] < r[b]
    <3>1. k < m
      BY <1>1, <2>3
    <3>2. m <= c \/ c < k
      BY <1>3, <1>5, <2>3
    <3> QED
      BY <2>3, <3>1, <3>2 DEF Cut
  <2> HIDE DEF Moved
  <2> QED
    BY <1>4, <2>1, <2>2, <2>3
<1>10. \A y \in Fore(r, d) : y \in Fore(q, c) \/ (y = x /\ i <= c)
  <2> SUFFICES ASSUME NEW y \in Fore(r, d) PROVE y \in Fore(q, c) \/ (y = x /\ i <= c)
    OBVIOUS
  <2>1. PICK j \in 1 .. d : r[j] = y
    BY DEF Fore
  <2>2. j \in 1 .. Len(r)
    BY <1>2, <1>3
  <2>3. CASE j + lost = i /\ r[j] = x
    BY <1>3, <1>6, <2>1, <2>2, <2>3
  <2>4. ASSUME NEW k \in 1 .. Len(q), Moved(j, k) PROVE y \in Fore(q, c)
    <3>1. k \in 1 .. c /\ q[k] = y
      BY <1>3, <1>5, <2>1, <2>2, <2>4
    <3> QED
      BY <3>1 DEF Fore
  <2> HIDE DEF Moved
  <2> QED
    BY <1>4, <2>2, <2>3, <2>4
<1>11. \A y \in Aft(r, d) : y \in Aft(q, c) \/ (y = x /\ i > c)
  <2> SUFFICES ASSUME NEW y \in Aft(r, d) PROVE y \in Aft(q, c) \/ (y = x /\ i > c)
    OBVIOUS
  <2>1. PICK j \in d + 1 .. Len(r) : r[j] = y
    BY DEF Aft
  <2>2. j \in 1 .. Len(r) /\ j > d
    BY <1>2, <1>3
  <2>3. CASE j + lost = i /\ r[j] = x
    BY <1>3, <1>6, <2>1, <2>2, <2>3
  <2>4. ASSUME NEW k \in 1 .. Len(q), Moved(j, k) PROVE y \in Aft(q, c)
    <3>1. k \in c + 1 .. Len(q) /\ q[k] = y
      BY <1>3, <1>5, <2>1, <2>2, <2>4
    <3> QED
      BY <3>1 DEF Aft
  <2> HIDE DEF Moved
  <2> QED
    BY <1>4, <2>2, <2>3, <2>4
<1>12. d # 0 => Aft(q, c) \subseteq Aft(r, d)
  <2> SUFFICES ASSUME d # 0, NEW y \in Aft(q, c) PROVE y \in Aft(r, d)
    OBVIOUS
  <2>1. PICK k \in c + 1 .. Len(q) : q[k] = y
    BY DEF Aft
  <2>2. k \in 1 .. Len(q) /\ k > c
    BY <1>2
  <2>3. PICK j \in 1 .. Len(r) : Moved(j, k)
    BY <1>7, <2>2
  <2>4. j \in d + 1 .. Len(r) /\ r[j] = y
    BY <1>3, <1>5, <2>1, <2>2, <2>3
  <2> QED
    BY <2>4 DEF Aft
<1>13. Aft(r, d) \subseteq Aft(q, c) \/ Fore(r, d) \subseteq Fore(q, c)
  <2>1. i <= c \/ i > c
    OBVIOUS
  <2> QED
    BY <1>10, <1>11, <2>1
<1>14. Aft(r, d) \subseteq Aft(q, c) \cup {x} /\ Fore(r, d) \subseteq Fore(q, c) \cup {x}
  BY <1>10, <1>11
<1>15. CutAlso(q, c, x, r, d)
  BY <1>8, <1>9, <1>12, <1>13, <1>14 DEF CutAlso
<1>16. c < i => Fore(r, d) \subseteq Fore(q, c)
  BY <1>10
<1> QED
  BY <1>3, <1>15, <1>16

--------------------------------------------------------------------------------
(* Filling in one message after the other *)

\* Of a queue the first load has cut in two, Y are the messages a load of a gap may
\* bring, Z those received live, and O those no load brings any more.
Split(q, c, Y, Z, O) ==
    /\ \A x \in Y : (x \in Aft(q, c)) \/ \A y \in Aft(q, c) \cap Fore(q, c) : y < x
    /\ \A z \in Z : (z \in Aft(q, c)) \/ (z \in O /\ \A y \in Aft(q, c) : z < y)

\* The messages with an id among the first k of the items.
Sofar(items, k) == {x \in Server : Named(x) /\ \E j \in 1 .. k : items[j] = x}

\* A fill as the proof sees it: a queue, its cut and the messages of the answer.
FillData(q0, c0, items, Y, Z, O) ==
    /\ c0 \in 0 .. Len(q0) /\ Cut(q0, c0) /\ (c0 # 0 => Split(q0, c0, Y, Z, O))
    /\ items \in Seq(Server) /\ Ascending(items)
    /\ \A j \in 1 .. Len(items) : Named(items[j]) => items[j] \in Y
    /\ \A j \in 1 .. Len(items) : \A z \in O : z < items[j]

\* q is q0 after the first k items.
InPairs(q0, q) ==
    \A a, b \in 1 .. Len(q) : a < b /\ q[a] \in Known(q0) /\ q[b] \in Known(q0) =>
        \E c, d \in 1 .. Len(q0) : c < d /\ q0[c] = q[a] /\ q0[d] = q[b]
\* The cut after k messages: it moves, and nothing else comes behind it.
CutFrom(q0, c0, items, k, q, c) ==
    /\ Cut(q, c)
    /\ Aft(q, c) \subseteq Aft(q0, c0) \cup Sofar(items, k)
    /\ c # 0 => /\ c0 # 0 /\ Aft(q0, c0) \subseteq Aft(q, c)
                /\ Aft(q, c) \cap Fore(q, c) \subseteq Aft(q0, c0) \cap Fore(q0, c0)
\* What was there or is to be filled in is there, or newer ones took its place.
AllThere(q0, c0, items, Z, k, q) ==
    \A z \in Known(q0) \cup Sofar(items, k) : \/ z \in Known(q)
                                              \/ /\ Len(q) = Limit
                                                 /\ c0 = 0 \/ z \in Z => \A y \in Known(q) : z < y
\* What holds after the first k messages.
FilledTo(q0, c0, items, Z, k, q) ==
    /\ Known(q) \subseteq Known(q0) \cup Sofar(items, k)
    /\ InPairs(q0, q)
    /\ \E c \in 0 .. Len(q) : CutFrom(q0, c0, items, k, q, c)
    /\ Len(q0) <= Len(q) /\ AllThere(q0, c0, items, Z, k, q)

\* x is there already, or what it belongs in front of is gone.
Stays(q0, q, x) ==
    \/ x \in Known(q0)
    \/ \E p : FirstLater(q0, x, p) /\ \A i \in 1 .. Len(q) : q[i] # q0[p]

\* What x belongs in front of is there, if there is such a message.
Passes(q0, q, x) ==
    \A z \in Known(q0) : Named(x) /\ x < z => \E p : FirstLater(q0, x, p) /\ q0[p] \in Known(q)

\* Messages with an id are numbers.
LEMMA NamedFacts == \A x : Named(x) => x \in Server /\ x \in Nat /\ x \in Item
BY ItemFacts

\* The next message of the answer is later than those before it.
LEMMA SofarFacts ==
    ASSUME NEW items \in Seq(Server), Ascending(items), NEW k \in 1 .. Len(items)
    PROVE  /\ items[k] \in Server /\ items[k] \in Item /\ items[k] \in Nat
           /\ Sofar(items, k) = Sofar(items, k - 1) \cup {x \in {items[k]} : Named(x)}
           /\ \A z \in Sofar(items, k - 1) : z \in Nat /\ z < items[k]
<1>1. Len(items) \in Nat /\ \A j \in 1 .. Len(items) : items[j] \in Server
  BY LenProperties, ElementOfSeq
<1>2. 1 .. k = (1 .. k - 1) \cup {k} /\ 1 .. k - 1 \subseteq 1 .. Len(items)
  BY <1>1
<1>3. items[k] \in Server /\ items[k] \in Item /\ items[k] \in Nat
  BY <1>1, ItemFacts
<1>4. Sofar(items, k) = Sofar(items, k - 1) \cup {x \in {items[k]} : Named(x)}
  BY <1>2, <1>3 DEF Sofar
<1>5. ASSUME NEW z \in Sofar(items, k - 1) PROVE z \in Nat /\ z < items[k]
  <2>1. PICK j \in 1 .. k - 1 : items[j] = z
    BY DEF Sofar
  <2>2. j \in 1 .. Len(items) /\ j < k
    BY <1>2
  <2> QED
    BY <1>5, <2>1, <2>2, ItemFacts DEF Ascending, Sofar
<1> QED
  BY <1>3, <1>4, <1>5

\* The messages with an id are those of the two parts.
LEMMA CutMembers ==
    ASSUME NEW q \in Queue(Item), NEW c \in 0 .. Len(q)
    PROVE  /\ Known(q) = Fore(q, c) \cup Aft(q, c)
           /\ Fore(q, 0) = {} /\ Aft(q, 0) = Known(q)
           /\ Known(q) \subseteq Server /\ Known(q) \subseteq Nat
           /\ \A i \in 1 .. Len(q) : Named(q[i]) => q[i] \in Known(q)
<1>1. \A x : x \in Known(q) <=> Named(x) /\ \E i \in 1 .. Len(q) : q[i] = x
  BY KnownIs, QueueFacts
<1>2. \A x : Named(x) => x \in Server /\ x \in Nat
  BY NamedFacts
<1>3. Len(q) \in Nat /\ 1 .. Len(q) = (1 .. c) \cup (c + 1 .. Len(q)) /\ 1 .. 0 = {} /\ 0 + 1 = 1
  BY QueueFacts
<1>4. Known(q) = Fore(q, c) \cup Aft(q, c)
  BY <1>1, <1>2, <1>3 DEF Fore, Aft
<1>5. Fore(q, 0) = {}
  BY <1>3 DEF Fore
<1>6. Aft(q, 0) = Known(q)
  BY <1>1, <1>2, <1>3 DEF Aft
<1> QED
  BY <1>1, <1>2, <1>4, <1>5, <1>6

\* It holds before the first message,
LEMMA FilledFirst ==
    ASSUME NEW q0 \in Queue(Item), NEW c0, NEW items, NEW Y, NEW Z, NEW O,
           FillData(q0, c0, items, Y, Z, O)
    PROVE  FilledTo(q0, c0, items, Z, 0, q0)
<1>1. Sofar(items, 0) = {}
  BY DEF Sofar
<1>2. c0 \in 0 .. Len(q0) /\ CutFrom(q0, c0, items, 0, q0, c0)
  BY DEF FillData, CutFrom
<1>3. Len(q0) <= Len(q0)
  BY QueueFacts
<1> QED
  BY <1>1, <1>2, <1>3 DEF FilledTo, InPairs, AllThere

\* after one that changes nothing,
LEMMA FilledSame ==
    ASSUME NEW q0 \in Queue(Item), NEW c0, NEW items, NEW Y, NEW Z, NEW O,
           FillData(q0, c0, items, Y, Z, O),
           NEW k \in 1 .. Len(items), NEW q \in Queue(Item), FilledTo(q0, c0, items, Z, k - 1, q),
           Stays(q0, q, items[k])
    PROVE  FilledTo(q0, c0, items, Z, k, q)
<1> DEFINE x == items[k]
           K == Known(q0)
<1>1. items \in Seq(Server) /\ Ascending(items) /\ c0 \in 0 .. Len(q0)
  BY DEF FillData
<1>2. /\ x \in Nat /\ Sofar(items, k) = Sofar(items, k - 1) \cup {y \in {x} : Named(y)}
  BY <1>1, SofarFacts
<1>3. K \subseteq Nat /\ Known(q) \subseteq Nat /\ \A i \in 1 .. Len(q0) : Named(q0[i]) => q0[i] \in K
  <2>1. 0 \in 0 .. Len(q)
    BY QueueFacts
  <2> QED
    BY <1>1, <2>1, CutMembers
<1>4. PICK c \in 0 .. Len(q) : CutFrom(q0, c0, items, k - 1, q, c)
  BY DEF FilledTo
<1>5. CutFrom(q0, c0, items, k, q, c)
  BY <1>2, <1>4 DEF CutFrom
<1>6. AllThere(q0, c0, items, Z, k - 1, q)
  BY DEF FilledTo
<1>7. AllThere(q0, c0, items, Z, k, q)
  <2>1. CASE x \in K
    BY <1>2, <1>6, <2>1 DEF AllThere
  <2>2. CASE x \notin K
    <3>1. PICK p : FirstLater(q0, x, p) /\ \A i \in 1 .. Len(q) : q[i] # q0[p]
      BY <2>2 DEF Stays
    <3> DEFINE y == q0[p]
    <3>2. y \in K /\ x < y /\ Named(y)
      BY <1>3, <3>1 DEF FirstLater
    <3>3. y \notin Known(q)
      BY <3>1, KnownIs, QueueFacts
    <3>4. Len(q) = Limit /\ (c0 = 0 => \A w \in Known(q) : y < w)
      BY <1>6, <3>2, <3>3 DEF AllThere
    <3>5. c0 = 0 => \A w \in Known(q) : x < w
      BY <1>2, <1>3, <3>2, <3>4
    <3>6. Named(x) /\ x \in Z => c0 = 0
      <4> SUFFICES ASSUME Named(x), x \in Z, c0 # 0 PROVE FALSE
        OBVIOUS
      <4>1. x \in Aft(q0, c0) \/ x \in O
        BY DEF FillData, Split
      <4>2. ~(x < x) /\ x \notin Aft(q0, c0)
        BY <1>1, <1>2, <2>2, CutMembers
      <4> QED
        BY <4>1, <4>2 DEF FillData
    <3> QED
      BY <1>2, <1>6, <3>4, <3>5, <3>6 DEF AllThere
  <2> QED
    BY <2>1, <2>2
<1>8. Known(q) \subseteq Known(q0) \cup Sofar(items, k)
  BY <1>2 DEF FilledTo
<1> QED
  BY <1>5, <1>7, <1>8 DEF FilledTo

\* A message that is new is put in where it fits.
LEMMA FilledPlaced ==
    ASSUME NEW q0 \in Queue(Item), NEW c0, NEW items, NEW Y, NEW Z, NEW O,
           FillData(q0, c0, items, Y, Z, O),
           NEW k \in 1 .. Len(items), NEW q \in Queue(Item), FilledTo(q0, c0, items, Z, k - 1, q),
           items[k] \notin Known(q0),
           NEW i \in 1 .. Len(q) + 1, NEW r \in Queue(Item), Placed(q, i, items[k], r),
           NEW c \in 0 .. Len(q), CutFrom(q0, c0, items, k - 1, q, c), Fits(q, c, i, items[k]),
           Passes(q0, q, items[k])
    PROVE  FilledTo(q0, c0, items, Z, k, r)
<1> DEFINE x == items[k]
           K == Known(q0)
           Before == Sofar(items, k - 1)
           Now == Sofar(items, k)
<1>1. items \in Seq(Server) /\ Ascending(items) /\ c0 \in 0 .. Len(q0) /\ Cut(q0, c0)
  BY DEF FillData
<1>2. /\ x \in Nat /\ x \in Server /\ Now = Before \cup {y \in {x} : Named(y)}
      /\ \A z \in Before : z \in Nat /\ z < x
  BY <1>1, SofarFacts
<1>3. /\ K \subseteq Nat /\ K = Fore(q0, c0) \cup Aft(q0, c0)
      /\ \A j \in 1 .. Len(q0) : Named(q0[j]) => q0[j] \in K
  BY <1>1, CutMembers
<1>4. /\ Known(q) \subseteq Nat /\ Known(q) = Fore(q, c) \cup Aft(q, c)
      /\ \A j \in 1 .. Len(q) : Named(q[j]) => q[j] \in Known(q)
      /\ Aft(q, 0) = Known(q)
  BY CutMembers
<1>5. /\ Known(q) \subseteq K \cup Before
      /\ InPairs(q0, q) /\ Len(q0) <= Len(q) /\ AllThere(q0, c0, items, Z, k - 1, q)
  BY DEF FilledTo
<1>6. /\ Aft(q, c) \subseteq Aft(q0, c0) \cup Before
      /\ c # 0 => /\ c0 # 0 /\ Aft(q0, c0) \subseteq Aft(q, c)
                  /\ Aft(q, c) \cap Fore(q, c) \subseteq Aft(q0, c0) \cap Fore(q0, c0)
      /\ Cut(q, c)
  BY DEF CutFrom
<1>7. x \notin Known(q) /\ x \notin K
  BY <1>2, <1>5
<1>8. /\ Len(q) \in Nat /\ Len(r) \in Nat /\ Len(q0) \in Nat /\ Limit \in Nat /\ Len(r) <= Limit
      /\ Len(q) <= Len(r)
      /\ \A j \in 1 .. Len(r) : r[j] = x \/ \E m \in 1 .. Len(q) : q[m] = r[j]
      /\ \A m \in 2 .. Len(q) : \E j \in 1 .. Len(r) : r[j] = q[m]
      /\ (i = 1 \/ Len(q) # Limit) => \A m \in 1 .. Len(q) : \E j \in 1 .. Len(r) : r[j] = q[m]
      /\ (i # 1 \/ Len(q) # Limit) => \E j \in 1 .. Len(r) : r[j] = x
  <2>1. Len(q) \in Nat /\ Len(r) \in Nat /\ Len(q0) \in Nat /\ Limit \in Nat /\ Len(r) <= Limit
    BY QueueFacts
  <2>2. /\ Len(q) <= Len(r)
        /\ \A j \in 1 .. Len(r) : r[j] = x \/ \E m \in 1 .. Len(q) : q[m] = r[j]
        /\ \A m \in 2 .. Len(q) : \E j \in 1 .. Len(r) : r[j] = q[m]
        /\ (i = 1 \/ Len(q) # Limit) => \A m \in 1 .. Len(q) : \E j \in 1 .. Len(r) : r[j] = q[m]
        /\ (i # 1 \/ Len(q) # Limit) => \E j \in 1 .. Len(r) : r[j] = x
    <3>1. Placed(q, i, x, r)
      OBVIOUS
    <3> HIDE DEF x
    <3> QED
      BY <3>1, PlacedItems
  <2> QED
    BY <2>1, <2>2
<1>9. \A y : /\ y \in Known(r) <=> Named(y) /\ \E j \in 1 .. Len(r) : r[j] = y
             /\ y \in Known(q) <=> Named(y) /\ \E j \in 1 .. Len(q) : q[j] = y
  BY KnownIs, QueueFacts
<1> HIDE DEF x, K, Before, Now
<1>10. Known(r) \subseteq Known(q) \cup {y \in {x} : Named(y)}
  BY <1>8, <1>9
<1>11. Known(r) \subseteq K \cup Now
  BY <1>2, <1>5, <1>10
<1>12. InPairs(q0, r)
  <2> SUFFICES ASSUME NEW a \in 1 .. Len(r), NEW b \in 1 .. Len(r), a < b, r[a] \in K, r[b] \in K
               PROVE  \E d, e \in 1 .. Len(q0) : d < e /\ q0[d] = r[a] /\ q0[e] = r[b]
    BY DEF InPairs, K
  <2>1. r[a] # x /\ r[b] # x
    BY <1>7
  <2>2. PICK d \in 1 .. Len(q), e \in 1 .. Len(q) : d < e /\ q[d] = r[a] /\ q[e] = r[b]
    BY <2>1, PlacedPairs DEF x
  <2> QED
    BY <1>5, <2>2 DEF InPairs, K
<1>13. PICK d \in 0 .. Len(r) : CutAlso(q, c, x, r, d)
  BY <1>6, PlacedCut DEF x
<1>14. CutFrom(q0, c0, items, k, r, d)
  <2>1. Aft(r, d) \subseteq Aft(q0, c0) \cup Now
    <3>1. \A y \in Aft(r, d) : Named(y)
      BY DEF Aft
    <3> QED
      BY <1>2, <1>6, <1>13, <3>1 DEF CutAlso
  <2>2. ASSUME d # 0 PROVE /\ c0 # 0 /\ Aft(q0, c0) \subseteq Aft(r, d)
                           /\ Aft(r, d) \cap Fore(r, d) \subseteq Aft(q0, c0) \cap Fore(q0, c0)
    <3>1. c # 0 /\ Aft(q, c) \subseteq Aft(r, d)
      BY <1>13, <2>2 DEF CutAlso
    <3>2. c0 # 0 /\ Aft(q0, c0) \subseteq Aft(q, c)
          /\ Aft(q, c) \cap Fore(q, c) \subseteq Aft(q0, c0) \cap Fore(q0, c0)
      BY <1>6, <3>1
    <3>3. Aft(r, d) \cap Fore(r, d) \subseteq Aft(q, c) \cap Fore(q, c)
      BY <1>4, <1>7, <1>13 DEF CutAlso
    <3> QED
      BY <3>1, <3>2, <3>3
  <2> QED
    BY <1>13, <2>1, <2>2 DEF CutFrom, CutAlso, Now
<1>15. ASSUME NEW z \in K \cup Now, z \notin Known(r) PROVE Len(r) = Limit
  <2>1. CASE z = x
    <3>1. Named(x)
      BY <1>2, <1>5, <1>7, <1>15, <2>1
    <3>2. Len(q) = Limit
      BY <1>8, <1>9, <1>15, <2>1, <3>1
    <3> QED
      BY <1>8, <3>2
  <2>2. CASE z # x /\ z \notin Known(q)
    <3>1. Len(q) = Limit
      BY <1>2, <1>5, <1>15, <2>2 DEF AllThere, K, Before
    <3> QED
      BY <1>8, <3>1
  <2>3. CASE z \in Known(q)
    <3>1. PICK j \in 1 .. Len(q) : q[j] = z /\ Named(z)
      BY <1>9, <2>3
    <3>2. Len(q) = Limit
      BY <1>8, <1>9, <1>15, <3>1
    <3> QED
      BY <1>8, <3>2
  <2> QED
    BY <2>1, <2>2, <2>3
<1>16. ASSUME Named(x), x \in Z, c0 # 0 PROVE FALSE
  <2>1. x \in Aft(q0, c0) \/ x \in O
    BY <1>16 DEF FillData, Split
  <2>2. ~(x < x) /\ x \notin Aft(q0, c0)
    BY <1>2, <1>3, <1>7
  <2> QED
    BY <2>1, <2>2 DEF FillData, x
<1>17. ASSUME NEW z \in K \cup Now, z \notin Known(r), c0 = 0 \/ z \in Z, NEW y \in Known(r)
       PROVE  z < y
  <2>1. z \in Nat /\ y \in Nat
    BY <1>2, <1>3, <1>4, <1>10
  <2>2. CASE z = x
    <3>1. Named(x)
      BY <1>2, <1>5, <1>7, <1>17, <2>2
    <3>2. i = 1 /\ Len(q) = Limit
      BY <1>8, <1>9, <1>17, <2>2, <3>1
    <3>3. c0 = 0 /\ c = 0
      BY <1>6, <1>16, <1>17, <2>2, <3>1
    <3>4. y # x
      BY <1>17, <2>2
    <3>5. PICK j \in 1 .. Len(q) : q[j] = y /\ Named(y)
      BY <1>9, <1>10, <3>4
    <3>6. i <= j /\ c < i
      BY <3>2, <3>3
    <3> QED
      BY <2>2, <3>1, <3>5, <3>6 DEF Fits, x
  <2>3. CASE z # x /\ z \notin Known(q)
    <3>1. z \in K \cup Before /\ \A w \in Known(q) : z < w
      BY <1>2, <1>5, <1>17, <2>3 DEF AllThere, K, Before
    <3>2. CASE y \in Known(q)
      BY <3>1, <3>2
    <3>3. CASE y = x /\ Named(x)
      <4>1. CASE z \in Before
        BY <1>2, <3>3, <4>1
      <4>2. ASSUME z \in K, x < z PROVE FALSE
        <5>1. PICK p : FirstLater(q0, x, p) /\ q0[p] \in Known(q)
          BY <3>3, <4>2 DEF Passes, x, K
        <5> DEFINE w == q0[p]
        <5>2. p \in 1 .. Len(q0) /\ w \in K /\ w \in Nat /\ x < w /\ z < w /\ Named(w)
          BY <1>3, <3>1, <5>1 DEF FirstLater
        <5>3. PICK m \in 1 .. Len(q0) : q0[m] = z /\ Named(z)
          BY <4>2, KnownIs, QueueFacts DEF K
        <5>4. p < m
          <6>1. ~(m < p)
            BY <4>2, <5>1, <5>3 DEF FirstLater
          <6>2. m # p
            BY <2>1, <5>2, <5>3
          <6> QED
            BY <1>8, <5>2, <6>1, <6>2
        <5>5. p <= c0 /\ c0 < m
          <6>1. ~(w < z)
            BY <2>1, <5>2
          <6>2. ~(m <= c0 \/ c0 < p)
            BY <1>1, <5>2, <5>3, <5>4, <6>1 DEF Cut
          <6> QED
            BY <1>1, <1>8, <5>2, <6>2
        <5>6. w \in Fore(q0, c0) /\ z \in Aft(q0, c0) /\ c0 # 0
          <6>1. p \in 1 .. c0 /\ m \in c0 + 1 .. Len(q0) /\ c0 # 0
            BY <1>1, <1>8, <5>2, <5>5
          <6>2. w \in Server /\ z \in Server
            BY <5>2, <5>3, NamedFacts
          <6> QED
            BY <5>2, <5>3, <6>1, <6>2 DEF Fore, Aft
        <5>7. c = 0
          BY <1>4, <1>6, <2>3, <5>6
        <5>8. w \in Aft(q0, c0) \cap Fore(q0, c0)
          <6>1. w \in Aft(q, c)
            BY <1>4, <5>1, <5>7
          <6>2. w \notin Before
            BY <1>2, <5>2
          <6> QED
            BY <1>6, <5>6, <6>1, <6>2
        <5>9. x \in Y /\ Split(q0, c0, Y, Z, O)
          BY <3>3, <5>6 DEF FillData, x
        <5>10. w < x
          BY <1>3, <1>7, <5>8, <5>9 DEF Split
        <5> QED
          BY <1>2, <5>2, <5>10
      <4> QED
        BY <1>2, <1>7, <2>1, <2>3, <3>1, <3>3, <4>1, <4>2
    <3> QED
      BY <1>10, <3>2, <3>3
  <2>4. CASE z # x /\ z \in Known(q)
    <3>1. PICK m \in 1 .. Len(q) : q[m] = z /\ Named(z)
      BY <1>9, <2>4
    <3>2. m = 1 /\ i # 1
      <4>1. m \notin 2 .. Len(q) /\ i # 1
        BY <1>8, <1>9, <1>17, <3>1
      <4> QED
        BY <1>8, <3>1, <4>1
    <3>3. CASE y = x /\ Named(x)
      <4>1. m < i
        BY <3>2
      <4> QED
        BY <3>1, <3>3, <4>1 DEF Fits, x
    <3>4. CASE y \in Known(q)
      <4>1. PICK j \in 1 .. Len(q) : q[j] = y /\ Named(y)
        BY <1>9, <3>4
      <4>2. m < j
        <5>1. z # y
          BY <1>17
        <5> QED
          BY <3>1, <3>2, <4>1, <5>1
      <4>3. CASE j <= c \/ c < m
        BY <1>6, <3>1, <4>1, <4>2, <4>3 DEF Cut
      <4>4. CASE m <= c /\ c < j
        <5>1. c # 0 /\ c0 # 0 /\ z \in Z
          BY <1>6, <1>17, <3>2, <4>4
        <5>2. y \in Aft(q, c)
          <6>1. j \in c + 1 .. Len(q) /\ y \in Server
            BY <1>8, <4>1, <4>4, NamedFacts
          <6> QED
            BY <4>1, <6>1 DEF Aft
        <5>3. z \notin Aft(q, c)
          <6> SUFFICES ASSUME z \in Aft(q, c) PROVE FALSE
            OBVIOUS
          <6>1. PICK n \in c + 1 .. Len(q) : q[n] = z
            BY DEF Aft
          <6>2. n \in 2 .. Len(q)
            BY <1>8, <5>1, <6>1
          <6> QED
            BY <1>8, <1>9, <1>17, <3>1, <6>1, <6>2
        <5>4. z \notin Aft(q0, c0)
          BY <1>6, <5>1, <5>3
        <5>5. z \in O /\ \A w \in Aft(q0, c0) : z < w
          BY <5>1, <5>4 DEF FillData, Split
        <5>6. CASE y \in Aft(q0, c0)
          BY <5>5, <5>6
        <5>7. CASE y \in Before
          <6>1. PICK n \in 1 .. k - 1 : items[n] = y
            BY <5>7 DEF Before, Sofar
          <6>2. n \in 1 .. Len(items)
            OBVIOUS
          <6> QED
            BY <5>5, <6>1, <6>2 DEF FillData
        <5> QED
          BY <1>6, <5>2, <5>6, <5>7
      <4> QED
        BY <4>3, <4>4
    <3> QED
      BY <1>10, <3>3, <3>4
  <2> QED
    BY <2>2, <2>3, <2>4
<1>18. AllThere(q0, c0, items, Z, k, r)
  <2>1. \A z \in K \cup Now : z \in Known(r) \/
           (Len(r) = Limit /\ (c0 = 0 \/ z \in Z => \A y \in Known(r) : z < y))
    BY <1>15, <1>17
  <2> QED
    BY <2>1 DEF AllThere, K, Now
<1>19. Len(q0) <= Len(r)
  BY <1>5, <1>8
<1> QED
  BY <1>11, <1>12, <1>14, <1>18, <1>19 DEF FilledTo, K, Now

\* and so after each,
LEMMA FillOne ==
    ASSUME NEW q0 \in Queue(Item), NEW c0, NEW items, NEW Y, NEW Z, NEW O,
           FillData(q0, c0, items, Y, Z, O),
           NEW k \in 1 .. Len(items), NEW q \in Queue(Item), FilledTo(q0, c0, items, Z, k - 1, q)
    PROVE  FilledTo(q0, c0, items, Z, k, InsertMissing(q0, q, items[k]))
<1> DEFINE x == items[k]
           r == InsertMissing(q0, q, x)
<1>1. items \in Seq(Server) /\ Ascending(items) /\ c0 \in 0 .. Len(q0) /\ Cut(q0, c0)
  BY DEF FillData
<1>2. /\ x \in Item /\ x \in Nat
      /\ \A z \in Sofar(items, k - 1) : z \in Nat /\ z < x
  BY <1>1, SofarFacts
<1>3. r \in Queue(Item) /\ IF x \in Known(q0) THEN r = q ELSE AtItsPlace(q0, q, x, r)
  BY <1>2, InsertMissingPlaces
<1> HIDE DEF r
<1>4. ASSUME x \in Known(q0) PROVE FilledTo(q0, c0, items, Z, k, r)
  <2>1. Stays(q0, q, items[k]) /\ r = q
    BY <1>3, <1>4 DEF Stays
  <2>2. FilledTo(q0, c0, items, Z, k, q)
    BY <2>1, FilledSame
  <2> QED
    BY <2>1, <2>2
<1>5. PICK c \in 0 .. Len(q) : CutFrom(q0, c0, items, k - 1, q, c)
  BY DEF FilledTo
<1>6. /\ Known(q) \subseteq Known(q0) \cup Sofar(items, k - 1) /\ Cut(q, c) /\ InPairs(q0, q)
  BY <1>5 DEF FilledTo, CutFrom
<1>7. /\ \A j \in 1 .. Len(q0) : Named(q0[j]) => q0[j] \in Known(q0)
      /\ \A j \in 1 .. Len(q) : Named(q[j]) => q[j] \in Known(q)
      /\ Known(q0) \subseteq Nat /\ Known(q) \subseteq Nat
      /\ Known(q0) = Fore(q0, c0) \cup Aft(q0, c0)
  BY <1>1, CutMembers
<1>8. Len(q) \in Nat /\ Len(q0) \in Nat
  BY QueueFacts
<1>9. \A z \in Known(q0) : \E m \in 1 .. Len(q0) : q0[m] = z /\ Named(z)
  BY KnownIs, QueueFacts
<1>10. ASSUME x \notin Known(q0),
              \A m \in 1 .. Len(q0) : ~(Named(q0[m]) /\ x < q0[m]),
              Placed(q, Len(q) + 1, x, r)
       PROVE  FilledTo(q0, c0, items, Z, k, r)
  <2>1. \A z \in Known(q0) : ~(x < z)
    BY <1>9, <1>10
  <2>2. Fits(q, c, Len(q) + 1, x)
    <3> SUFFICES ASSUME NEW j \in 1 .. Len(q), Named(q[j]) PROVE q[j] < x
      BY <1>8 DEF Fits
    <3>1. q[j] \in Known(q) /\ q[j] \in Nat
      BY <1>7
    <3> QED
      BY <1>2, <1>6, <1>7, <1>10, <2>1, <3>1
  <2>3. Len(q) + 1 \in 1 .. Len(q) + 1 /\ Passes(q0, q, x)
    BY <1>8, <2>1 DEF Passes
  <2> QED
    BY <1>3, <1>5, <1>10, <2>2, <2>3, FilledPlaced
<1>11. ASSUME x \notin Known(q0), NEW p, FirstLater(q0, x, p),
              r = q, \A m \in 1 .. Len(q) : q[m] # q0[p]
       PROVE  FilledTo(q0, c0, items, Z, k, r)
  <2>1. Stays(q0, q, x)
    BY <1>11 DEF Stays
  <2>2. FilledTo(q0, c0, items, Z, k, q)
    BY <2>1, FilledSame
  <2> QED
    BY <1>11, <2>2
<1>12. ASSUME x \notin Known(q0), NEW p, FirstLater(q0, x, p),
              NEW i \in 1 .. Len(q), q[i] = q0[p], Placed(q, i, x, r)
       PROVE  FilledTo(q0, c0, items, Z, k, r)
  <2> DEFINE y == q0[p]
  <2>1. /\ p \in 1 .. Len(q0) /\ Named(y) /\ x < y /\ y \in Known(q0) /\ y \in Nat /\ y \in Known(q)
        /\ \A m \in 1 .. p - 1 : ~(Named(q0[m]) /\ x < q0[m])
    BY <1>7, <1>12 DEF FirstLater
  <2>2. ASSUME NEW m \in 1 .. Len(q0), q0[m] = y, Named(x) PROVE m <= p
    <3> SUFFICES ASSUME p < m PROVE FALSE
      BY <1>8, <2>1
    <3>1. ~(y < y)
      BY <2>1
    <3>2. ~(m <= c0 \/ c0 < p)
      BY <1>1, <2>1, <2>2, <3>1 DEF Cut
    <3>3. p \in 1 .. c0 /\ m \in c0 + 1 .. Len(q0) /\ c0 # 0
      BY <1>1, <1>8, <2>1, <3>2
    <3>4. y \in Aft(q0, c0) \cap Fore(q0, c0)
      BY <2>1, <2>2, <3>3, NamedFacts DEF Aft, Fore
    <3>5. x \in Y /\ Split(q0, c0, Y, Z, O)
      BY <2>2, <3>3 DEF FillData
    <3>6. y < x
      BY <1>7, <1>12, <3>4, <3>5 DEF Split
    <3> QED
      BY <1>2, <2>1, <3>6
  <2>3. Fits(q, c, i, x)
    <3> SUFFICES ASSUME Named(x), NEW j \in 1 .. Len(q), Named(q[j])
                 PROVE  /\ j < i => q[j] < x
                        /\ i <= j /\ (j <= c \/ c < i) => x < q[j]
      BY DEF Fits
    <3>1. q[j] \in Known(q) /\ q[j] \in Nat
      BY <1>7
    <3>2. ASSUME j < i PROVE q[j] < x
      <4>1. CASE q[j] \in Sofar(items, k - 1)
        BY <1>2, <4>1
      <4>2. CASE q[j] \in Known(q0)
        <5>1. PICK a \in 1 .. Len(q0), b \in 1 .. Len(q0) : a < b /\ q0[a] = q[j] /\ q0[b] = y
          BY <1>6, <1>12, <2>1, <3>2, <4>2 DEF InPairs
        <5>2. a \in 1 .. p - 1
          BY <2>1, <2>2, <3>2, <5>1
        <5>3. ~(x < q[j])
          BY <2>1, <5>1, <5>2
        <5> QED
          BY <1>2, <1>12, <3>1, <4>2, <5>3
      <4> QED
        BY <1>6, <3>1, <4>1, <4>2
    <3>3. ASSUME i <= j, j <= c \/ c < i PROVE x < q[j]
      <4>1. CASE i = j
        BY <1>12, <2>1, <4>1
      <4>2. CASE i # j
        <5>1. i < j
          BY <3>3, <4>2
        <5>2. q[i] < q[j]
          BY <1>6, <1>12, <2>1, <3>3, <5>1 DEF Cut
        <5> QED
          BY <1>2, <1>12, <2>1, <3>1, <5>2
      <4> QED
        BY <4>1, <4>2
    <3> QED
      BY <3>2, <3>3
  <2>4. i \in 1 .. Len(q) + 1
    BY <1>8
  <2>5. Passes(q0, q, x)
    BY <1>12, <2>1 DEF Passes
  <2> QED
    BY <1>3, <1>5, <1>12, <2>3, <2>4, <2>5, FilledPlaced
<1> QED
  <2>1. CASE x \notin Known(q0)
    <3>1. AtItsPlace(q0, q, x, r)
      BY <1>3, <2>1
    <3>2. \/ /\ \A m \in 1 .. Len(q0) : ~(Named(q0[m]) /\ x < q0[m])
             /\ Placed(q, Len(q) + 1, x, r)
          \/ \E p : /\ FirstLater(q0, x, p)
                    /\ \/ r = q /\ \A m \in 1 .. Len(q) : q[m] # q0[p]
                       \/ \E i \in 1 .. Len(q) : q[i] = q0[p] /\ Placed(q, i, x, r)
      BY <3>1 DEF AtItsPlace
    <3>3. FilledTo(q0, c0, items, Z, k, r)
      BY <1>10, <1>11, <1>12, <2>1, <3>2
    <3> QED
      BY <3>3 DEF r
  <2>2. CASE x \in Known(q0)
    BY <1>4, <2>2 DEF r
  <2> QED
    BY <2>1, <2>2

\* and after all of them.
LEMMA FilledAll ==
    ASSUME NEW q0 \in Queue(Item), NEW c0, NEW items, NEW Y, NEW Z, NEW O,
           FillData(q0, c0, items, Y, Z, O)
    PROVE  FilledTo(q0, c0, items, Z, Len(items), FillEach(q0, items))
<1> DEFINE n == Len(items)
<1>1. items \in Seq(Item) /\ n \in Nat
  <2>1. items \in Seq(Server) /\ Server \subseteq Item
    BY ItemFacts DEF FillData
  <2> QED
    BY <2>1, SeqMonotonic, LenProperties
<1>2. PICK f \in [0 .. n -> Queue(Item)] :
         /\ f[0] = q0 /\ FillEach(q0, items) = f[n]
         /\ \A k \in 1 .. n : f[k] = InsertMissing(q0, f[k - 1], items[k])
  BY <1>1, FillStep
<1> DEFINE P == {k \in 0 .. n : FilledTo(q0, c0, items, Z, k, f[k])}
<1>3. 0 \in P
  BY <1>1, <1>2, FilledFirst
<1>4. ASSUME NEW k \in 1 .. n, k - 1 \in P PROVE k \in P
  <2>1. k \in 0 .. n /\ k - 1 \in 0 .. n /\ f[k - 1] \in Queue(Item)
    BY <1>1
  <2>2. FilledTo(q0, c0, items, Z, k - 1, f[k - 1])
    BY <1>4
  <2>3. FilledTo(q0, c0, items, Z, k, InsertMissing(q0, f[k - 1], items[k]))
    BY <2>1, <2>2, FillOne
  <2> QED
    BY <1>2, <2>1, <2>3
<1>5. \A k \in 0 .. n : k \in P
  <2> HIDE DEF P, n
  <2> QED
    BY <1>1, <1>3, <1>4, UpTo
<1>6. n \in 0 .. n
  BY <1>1
<1> QED
  BY <1>2, <1>5, <1>6

\* An empty queue is filled from its front, which comes to the same.
LEMMA FilledEmpty ==
    ASSUME NEW c0, NEW items, NEW Y, NEW Z, NEW O, NEW q0 \in Queue(Item), q0 = <<>>,
           FillData(q0, c0, items, Y, Z, O)
    PROVE  FilledTo(q0, c0, items, Z, Len(items), PushFront(q0, items))
<1> DEFINE r == PushFront(q0, items)
           f == Fitting(q0, items)
           n == Len(items)
<1>1. items \in Seq(Item) /\ items \in Seq(Server) /\ n \in Nat /\ \A j \in 1 .. n : items[j] \in Server
  <2>1. items \in Seq(Server) /\ Server \subseteq Item
    BY ItemFacts DEF FillData
  <2> QED
    BY <2>1, SeqMonotonic, LenProperties, ElementOfSeq
<1>2. Len(q0) = 0 /\ Limit \in Nat /\ Limit > 0
  BY QueueFacts
<1>3. /\ Len(f) \in Nat /\ Len(f) <= n /\ (Len(f) = n \/ Len(f) = Limit)
      /\ \A j \in 1 .. Len(f) : f[j] = items[n - Len(f) + j]
  BY <1>1, <1>2, FittingFacts
<1>4. /\ r \in Queue(Item) /\ Len(r) = Len(f) + Len(q0)
      /\ \A j \in 1 .. Len(r) : r[j] = IF j <= Len(f) THEN f[j] ELSE q0[j - Len(f)]
  BY <1>1, PushFrontFacts
<1> DEFINE m == n - Len(f)
<1>5. /\ m \in Nat /\ Len(r) = n - m /\ (m = 0 \/ Len(r) = Limit)
      /\ \A j \in 1 .. Len(r) : m + j \in 1 .. n /\ r[j] = items[m + j]
  <2>1. m \in Nat /\ Len(r) = n - m /\ (m = 0 \/ Len(r) = Limit)
    BY <1>1, <1>2, <1>3, <1>4
  <2>2. ASSUME NEW j \in 1 .. Len(r) PROVE m + j \in 1 .. n /\ r[j] = items[m + j]
    <3>1. j \in 1 .. Len(f) /\ j <= Len(f) /\ m + j \in 1 .. n
      BY <1>1, <1>2, <1>3, <1>4
    <3> QED
      BY <1>3, <1>4, <3>1
  <2> QED
    BY <2>1, <2>2
<1> HIDE DEF r, f, m
<1>6. Ascending(items) /\ \A j \in 1 .. n : items[j] \in Nat
  BY <1>1, ItemFacts DEF FillData
<1>7. Cut(r, 0)
  <2> SUFFICES ASSUME NEW a \in 1 .. Len(r), NEW b \in 1 .. Len(r), a < b PROVE r[a] < r[b]
    BY DEF Cut
  <2>1. m + a < m + b
    BY <1>5
  <2> QED
    BY <1>5, <1>6, <2>1 DEF Ascending
<1>8. \A y : y \in Known(r) <=> Named(y) /\ \E j \in 1 .. Len(r) : r[j] = y
  BY <1>4, KnownIs, QueueFacts
<1>9. Known(r) \subseteq Sofar(items, n)
  BY <1>5, <1>8, NamedFacts DEF Sofar
<1>10. Known(q0) = {} /\ 0 \in 0 .. Len(r)
  <2>1. Known(q0) = {}
    BY <1>2, KnownIs, QueueFacts
  <2> QED
    BY <1>4, <2>1, QueueFacts
<1>11. CutFrom(q0, c0, items, n, r, 0)
  <2>1. Aft(r, 0) = Known(r)
    BY <1>4, <1>10, CutMembers
  <2> QED
    BY <1>7, <1>9, <2>1 DEF CutFrom
<1>12. ASSUME NEW z \in Sofar(items, n), z \notin Known(r)
       PROVE  Len(r) = Limit /\ \A y \in Known(r) : z < y
  <2>1. PICK j \in 1 .. n : items[j] = z /\ Named(z)
    BY DEF Sofar
  <2>2. j <= m
    <3> SUFFICES ASSUME j > m PROVE FALSE
      BY <1>5
    <3>1. j - m \in 1 .. Len(r) /\ m + (j - m) = j
      BY <1>1, <1>5
    <3>2. r[j - m] = z
      BY <1>5, <2>1, <3>1
    <3> QED
      BY <1>8, <1>12, <2>1, <3>1, <3>2
  <2>3. ASSUME NEW y \in Known(r) PROVE z < y
    <3>1. PICK i \in 1 .. Len(r) : r[i] = y
      BY <1>8
    <3>2. m + i \in 1 .. n /\ items[m + i] = y /\ j < m + i
      BY <1>5, <2>2, <3>1
    <3> QED
      BY <1>6, <2>1, <3>2 DEF Ascending
  <2> QED
    BY <1>5, <2>2, <2>3
<1>13. AllThere(q0, c0, items, Z, n, r)
  BY <1>10, <1>12 DEF AllThere
<1>14. Known(r) \subseteq Known(q0) \cup Sofar(items, n) /\ InPairs(q0, r) /\ Len(q0) <= Len(r)
  BY <1>2, <1>4, <1>9, <1>10, QueueFacts DEF InPairs
<1> QED
  BY <1>10, <1>11, <1>13, <1>14 DEF FilledTo, r

\* Whether anything is filled in or not, the queue is as after all items.
LEMMA FillResult ==
    ASSUME NEW q0 \in Queue(Item), NEW c0, NEW items, NEW Y, NEW Z, NEW O,
           FillData(q0, c0, items, Y, Z, O), NEW r,
           r = FillIn(q0, items) \/ (r = q0 /\ ~FillsAny(q0, items))
    PROVE  FilledTo(q0, c0, items, Z, Len(items), r)
<1>1. CASE r = FillIn(q0, items) /\ q0 = <<>>
  BY <1>1, FilledEmpty DEF FillIn
<1>2. CASE r = FillIn(q0, items) /\ q0 # <<>>
  BY <1>2, FilledAll DEF FillIn
<1>3. CASE r = q0 /\ ~FillsAny(q0, items)
  <2>1. items \in Seq(Server) /\ Len(items) \in Nat
    BY LenProperties DEF FillData
  <2>2. Sofar(items, Len(items)) \subseteq Known(q0)
    <3> SUFFICES ASSUME NEW x \in Sofar(items, Len(items)) PROVE x \in Known(q0)
      OBVIOUS
    <3>1. PICK j \in 1 .. Len(items) : items[j] = x
      BY DEF Sofar
    <3>2. items # <<>> /\ x \in Range(items)
      BY <2>1, <3>1, RangeIs
    <3> QED
      BY <1>3, <3>2 DEF FillsAny
  <2>3. FilledTo(q0, c0, items, Z, 0, q0)
    BY FilledFirst
  <2>4. Sofar(items, 0) = {}
    BY DEF Sofar
  <2>5. AllThere(q0, c0, items, Z, Len(items), q0)
    BY <2>2 DEF AllThere
  <2>6. PICK c \in 0 .. Len(q0) : CutFrom(q0, c0, items, 0, q0, c)
    BY <2>3 DEF FilledTo
  <2>7. CutFrom(q0, c0, items, Len(items), q0, c)
    BY <2>4, <2>6 DEF CutFrom
  <2> QED
    BY <1>3, <2>3, <2>4, <2>5, <2>7 DEF FilledTo
<1> QED
  BY <1>1, <1>2, <1>3

--------------------------------------------------------------------------------
(* A message at the end *)

\* r is q with x at its end, less the first item if q was full: where the items are,
\* counted from the end.
Pushed(q, x, r) ==
    /\ Len(r) = IF Len(q) = Limit THEN Limit ELSE Len(q) + 1
    /\ \A k \in 1 .. Len(q) : Len(q) # Limit \/ k # 1 =>
          \E j \in 1 .. Len(r) : r[j] = q[k] /\ Len(r) - j = Len(q) + 1 - k
    /\ \E j \in 1 .. Len(r) : r[j] = x /\ Len(r) - j = 0
    /\ \A j \in 1 .. Len(r) : \/ r[j] = x /\ Len(r) - j = 0
                              \/ \E k \in 1 .. Len(q) : r[j] = q[k] /\ Len(r) - j = Len(q) + 1 - k

\* A new message leaves the places, counted from the end, one larger.
LEMMA PushBackMoves ==
    ASSUME NEW q \in Queue(Item), NEW x \in Item
    PROVE  Pushed(q, x, PushBack(q, x))
<1> DEFINE r == PushBack(q, x)
<1> DEFINE i == Len(q) + 1
<1>1. r \in Queue(Item) /\ Placed(q, i, x, r)
  BY PushBackPlaces
<1>2. Len(q) \in Nat /\ Len(r) \in Nat /\ Limit \in Nat /\ Limit > 0 /\ i \in 1 .. Len(q) + 1
      /\ Len(q) <= Limit
  BY <1>1, QueueFacts
<1>3. PICK lost \in {0, 1} :
         /\ lost = 1 <=> Len(q) = Limit
         /\ Len(r) = Len(q) + 1 - lost
         /\ ComesFrom(q, i, x, r, lost) /\ GoesTo(q, i, x, r, lost)
  <2> HIDE DEF i, r
  <2> QED
    BY <1>1, <1>2, PlacedAt
<1>4. ASSUME NEW k \in 1 .. Len(q), Len(q) # Limit \/ k # 1
      PROVE  \E j \in 1 .. Len(r) : r[j] = q[k] /\ Len(r) - j = Len(q) + 1 - k
  <2>1. k < i /\ k - lost >= 1
    BY <1>2, <1>3, <1>4
  <2>2. k - lost \in 1 .. Len(r) /\ r[k - lost] = q[k]
    BY <1>3, <2>1 DEF GoesTo
  <2>3. Len(r) - (k - lost) = Len(q) + 1 - k
    BY <1>2, <1>3
  <2> QED
    BY <2>2, <2>3
<1>5. \E j \in 1 .. Len(r) : r[j] = x /\ Len(r) - j = 0
  <2>1. i - lost >= 1 /\ Len(r) - (i - lost) = 0
    BY <1>2, <1>3
  <2>2. i - lost \in 1 .. Len(r) /\ r[i - lost] = x
    BY <1>3, <2>1 DEF GoesTo
  <2> QED
    BY <2>1, <2>2
<1>6. ASSUME NEW j \in 1 .. Len(r)
      PROVE  \/ r[j] = x /\ Len(r) - j = 0
             \/ \E k \in 1 .. Len(q) : r[j] = q[k] /\ Len(r) - j = Len(q) + 1 - k
  <2>1. \/ j + lost < i /\ j + lost \in 1 .. Len(q) /\ r[j] = q[j + lost]
        \/ j + lost = i /\ r[j] = x
        \/ j + lost > i /\ j + lost - 1 \in 1 .. Len(q) /\ r[j] = q[j + lost - 1]
    BY <1>3 DEF ComesFrom
  <2>2. CASE j + lost < i /\ j + lost \in 1 .. Len(q) /\ r[j] = q[j + lost]
    <3>1. Len(r) - j = Len(q) + 1 - (j + lost)
      BY <1>2, <1>3
    <3> QED
      BY <2>2, <3>1
  <2>3. CASE j + lost = i /\ r[j] = x
    BY <1>2, <1>3, <2>3
  <2>4. ~(j + lost > i)
    BY <1>2, <1>3
  <2> QED
    BY <2>1, <2>2, <2>3, <2>4
<1>7. Len(r) = IF Len(q) = Limit THEN Limit ELSE Len(q) + 1
  BY <1>2, <1>3
<1> QED
  BY <1>4, <1>5, <1>6, <1>7 DEF Pushed

\* It drops the first item of a full queue only.
LEMMA PushBackFacts ==
    ASSUME NEW q \in Queue(Item), NEW x \in Item, NEW r, r = PushBack(q, x)
    PROVE  /\ r \in Queue(Item) /\ Len(r) \in Nat /\ Len(q) \in Nat
           /\ Len(r) = IF Len(q) = Limit THEN Limit ELSE Len(q) + 1
           /\ \A y : Named(y) =>
                 /\ y \in Known(r) => y \in Known(q) \/ y = x
                 /\ y = x => y \in Known(r)
                 /\ y \in Known(q) => y \in Known(r) \/ (Len(q) = Limit /\ y = q[1])
<1>1. r \in Queue(Item) /\ Len(r) \in Nat /\ Len(q) \in Nat
  BY PushBackPlaces, QueueFacts
<1>4. /\ Len(r) = IF Len(q) = Limit THEN Limit ELSE Len(q) + 1
      /\ \A k \in 1 .. Len(q) : Len(q) # Limit \/ k # 1 => \E j \in 1 .. Len(r) : r[j] = q[k]
      /\ \E j \in 1 .. Len(r) : r[j] = x
      /\ \A j \in 1 .. Len(r) : r[j] = x \/ \E k \in 1 .. Len(q) : r[j] = q[k]
  <2>1. Pushed(q, x, r)
    BY PushBackMoves
  <2> QED
    BY <2>1 DEF Pushed
<1>8. \A y : /\ y \in Known(r) <=> Named(y) /\ \E j \in 1 .. Len(r) : r[j] = y
             /\ y \in Known(q) <=> Named(y) /\ \E j \in 1 .. Len(q) : q[j] = y
  BY <1>1, KnownIs, QueueFacts
<1>9. ASSUME NEW y, Named(y)
      PROVE  /\ y \in Known(r) => y \in Known(q) \/ y = x
             /\ y = x => y \in Known(r)
             /\ y \in Known(q) => y \in Known(r) \/ (Len(q) = Limit /\ y = q[1])
  <2>1. y \in Known(r) => y \in Known(q) \/ y = x
    BY <1>4, <1>8
  <2>2. y = x => y \in Known(r)
    BY <1>4, <1>8, <1>9
  <2>3. ASSUME y \in Known(q), ~(Len(q) = Limit /\ y = q[1]) PROVE y \in Known(r)
    <3>1. PICK k \in 1 .. Len(q) : q[k] = y
      BY <1>8, <2>3
    <3>2. PICK j \in 1 .. Len(r) : r[j] = q[k]
      BY <1>4, <2>3, <3>1
    <3> QED
      BY <1>8, <1>9, <3>1, <3>2
  <2> QED
    BY <2>1, <2>2, <2>3
<1> QED
  BY <1>1, <1>4, <1>9

\* Something is put at the end that is no message, or later than all there are.
Latest(q, x) == Named(x) => \A y \in Known(q) : y < x

\* A message later than all leaves the cut and comes behind it.
LEMMA PushBackCut ==
    ASSUME NEW q \in Queue(Item), NEW x \in Item, NEW r, r = PushBack(q, x), Latest(q, x),
           NEW c \in 0 .. Len(q), Cut(q, c)
    PROVE  \E d \in 0 .. Len(r) : /\ Cut(r, d)
                                  /\ Aft(r, d) \subseteq Aft(q, c) \cup {x}
                                  /\ Fore(r, d) \subseteq Fore(q, c)
                                  /\ d # 0 => c # 0 /\ Aft(q, c) \subseteq Aft(r, d)
                                  /\ Named(x) => x \in Aft(r, d)
<1> DEFINE i == Len(q) + 1
<1>1. r \in Queue(Item) /\ Placed(q, i, x, r)
  BY PushBackPlaces
<1>2. i \in 1 .. Len(q) + 1 /\ c < i /\ Len(q) \in Nat
  BY QueueFacts
<1>3. \A j \in 1 .. Len(q) : j < i /\ (Named(q[j]) => q[j] \in Known(q))
  BY <1>2, CutMembers
<1>4. Fits(q, c, i, x)
  <2>1. \A j \in 1 .. Len(q) : ~(i <= j)
    BY <1>2
  <2> QED
    BY <1>3, <2>1 DEF Fits, Latest
<1> HIDE DEF i
<1>5. PICK d \in 0 .. Len(r) : CutAlso(q, c, x, r, d) /\ (c < i => Fore(r, d) \subseteq Fore(q, c))
  BY <1>1, <1>2, <1>4, PlacedCut
<1>6. Named(x) => x \in Aft(r, d)
  <2> SUFFICES ASSUME Named(x) PROVE x \in Aft(r, d)
    OBVIOUS
  <2>1. x \in Known(r)
    BY PushBackFacts
  <2>2. x \in Fore(r, d) \/ x \in Aft(r, d)
    BY <1>1, <2>1, CutMembers
  <2>3. x \notin Fore(q, c)
    <3>1. Fore(q, c) \subseteq Known(q) /\ x \in Nat
      BY CutMembers, NamedFacts
    <3>2. ~(x < x)
      BY <3>1
    <3> QED
      BY <3>1, <3>2 DEF Latest
  <2> QED
    BY <1>2, <1>5, <2>2, <2>3
<1> QED
  BY <1>2, <1>5, <1>6 DEF CutAlso

\* What a push drops is older than all there is, unless it is missed and the queue cut.
LEMMA PushBackDrops ==
    ASSUME NEW q \in Queue(Item), NEW x \in Item, NEW r, r = PushBack(q, x), Latest(q, x),
           NEW c \in 0 .. Len(q), Cut(q, c), NEW z \in Known(q), z \notin Known(r),
           c # 0 /\ z \notin Aft(q, c) => \A y \in Aft(q, c) : z < y
    PROVE  Len(q) = Limit /\ \A y \in Known(r) : z < y
<1>1. Named(z) /\ Len(q) \in Nat
  BY KnownIs, QueueFacts
<1>2. Len(q) = Limit /\ z = q[1] /\ r \in Queue(Item)
  BY <1>1, PushBackFacts
<1>3. ASSUME NEW y \in Known(r) PROVE z < y
  <2>1. Named(y) /\ y # z
    BY <1>2, <1>3, KnownIs, QueueFacts
  <2>2. CASE y = x
    BY <2>1, <2>2 DEF Latest
  <2>3. CASE y \in Known(q)
    <3>1. PICK j \in 1 .. Len(q) : q[j] = y
      BY <2>3, KnownIs, QueueFacts
    <3>2. 1 < j /\ 1 \in 1 .. Len(q)
      BY <1>1, <1>2, <2>1, <3>1
    <3>3. CASE j <= c \/ c < 1
      BY <1>1, <1>2, <2>1, <3>1, <3>2, <3>3 DEF Cut
    <3>4. CASE c < j /\ c # 0
      <4>1. y \in Aft(q, c)
        <5>1. j \in c + 1 .. Len(q)
          BY <1>1, <3>4
        <5> QED
          BY <2>1, <3>1, <5>1, NamedFacts DEF Aft
      <4>2. z \notin Aft(q, c)
        <5> SUFFICES ASSUME z \in Aft(q, c) PROVE FALSE
          OBVIOUS
        <5>1. PICK n \in c + 1 .. Len(q) : q[n] = z
          BY DEF Aft
        <5>2. n \in 1 .. Len(q) /\ n # 1
          BY <1>1, <3>4, <5>1
        <5>3. \E m \in 1 .. Len(r) : r[m] = z
          <6>1. \A k \in 1 .. Len(q) : Len(q) # Limit \/ k # 1 => \E m \in 1 .. Len(r) : r[m] = q[k]
            <7>1. Pushed(q, x, r)
              BY PushBackMoves
            <7> QED
              BY <7>1 DEF Pushed
          <6> QED
            BY <5>1, <5>2, <6>1
        <5> QED
          BY <1>1, <1>2, <5>3, KnownIs, QueueFacts
      <4> QED
        BY <3>4, <4>1, <4>2
    <3>5. c < 1 \/ c # 0
      OBVIOUS
    <3> QED
      BY <3>2, <3>3, <3>4, <3>5
  <2> QED
    BY <2>1, <2>2, <2>3, PushBackFacts
<1> QED
  BY <1>2, <1>3

--------------------------------------------------------------------------------
(* What holds of the lists, for the number n of messages sent, the messages m *)
(* that were missed, whether the first load reached past a live message (b),  *)
(* and the messages O that no load brings any more.                           *)

\* The messages of S a load may bring, and those that were received.
YoungOf(S, n, O) == {x \in S : Named(x) /\ x \in 1 .. n /\ x \notin O}
HeardOf(S, n, m) == {z \in S : Named(z) /\ z \in 1 .. n /\ z \notin m}

\* q is in order, or the first load has cut it in two.
OrderOf(q, S, n, m, b, O) ==
    /\ \A y \in Known(q) : y <= n
    /\ \E c \in 0 .. Len(q) :
          Cut(q, c) /\ (c # 0 => b /\ Split(q, c, YoungOf(S, n, O), HeardOf(S, n, m), O))

\* The view shows what the channel shows, back to its oldest message.
ViewOf(u, m, b) ==
    \A x \in Known(u.channel) : Shown(x) =>
        (x \in m /\ b) \/ x \in Known(u.proxy) \/ \A y \in Known(u.proxy) : x < y

\* Both lists are in order, the view follows, and the layouts are those of the proxy.
Good(u, n, m, b, O) ==
    /\ u \in Views
    /\ OrderOf(u.channel, Item, n, m, b, O) /\ OrderOf(u.proxy, Showable, n, m, b, O)
    /\ ViewOf(u, m, b)
    /\ u.cleared \/ u.layouts = u.proxy

\* x is put at the end when k instead of n messages are sent.
NewOf(x, n, k) == (k = n /\ ~Named(x)) \/ (k = n + 1 /\ x = k)

\* More messages, more missed ones or fewer open windows leave the order as it is.
LEMMA OrderChange ==
    ASSUME NEW q \in Queue(Item), NEW S, NEW n \in Nat, NEW m, NEW b, NEW O,
           OrderOf(q, S, n, m, b, O),
           NEW k \in Nat, n <= k, NEW m2, NEW P, O \subseteq P,
           b => HeardOf(S, k, m2) \subseteq HeardOf(S, n, m)
    PROVE  OrderOf(q, S, k, m2, b, P)
<1>1. PICK c \in 0 .. Len(q) :
         Cut(q, c) /\ (c # 0 => b /\ Split(q, c, YoungOf(S, n, O), HeardOf(S, n, m), O))
  BY DEF OrderOf
<1>2. /\ Known(q) \subseteq Nat /\ Known(q) = Fore(q, c) \cup Aft(q, c)
      /\ \A y \in Known(q) : y <= n
  BY CutMembers DEF OrderOf
<1>3. ASSUME c # 0, NEW x \in YoungOf(S, k, P)
      PROVE  x \in Aft(q, c) \/ \A y \in Aft(q, c) \cap Fore(q, c) : y < x
  <2>1. CASE x <= n
    <3>1. x \in YoungOf(S, n, O)
      BY <1>3, <2>1 DEF YoungOf
    <3> QED
      BY <1>1, <1>3, <3>1 DEF Split
  <2>2. CASE ~(x <= n)
    <3>1. x \in Nat /\ x > n
      BY <2>2 DEF YoungOf
    <3> QED
      BY <1>2, <3>1
  <2> QED
    BY <2>1, <2>2
<1>4. ASSUME c # 0 PROVE b /\ Split(q, c, YoungOf(S, k, P), HeardOf(S, k, m2), P)
  <2>1. b /\ \A z \in HeardOf(S, k, m2) : (z \in Aft(q, c)) \/ (z \in P /\ \A y \in Aft(q, c) : z < y)
    BY <1>1, <1>4 DEF Split
  <2> QED
    BY <1>3, <1>4, <2>1 DEF Split
<1>5. \A y \in Known(q) : y <= k
  BY <1>2
<1> QED
  BY <1>1, <1>4, <1>5 DEF OrderOf

\* A message just sent is later than all that is there.
LEMMA NewIsLatest ==
    ASSUME NEW q \in Queue(Item), NEW n \in Nat, \A y \in Known(q) : y <= n,
           NEW x, NEW k, NewOf(x, n, k)
    PROVE  Latest(q, x) /\ k \in Nat /\ n <= k
<1>1. Known(q) \subseteq Nat
  BY CutMembers, QueueFacts
<1> QED
  BY <1>1 DEF NewOf, Latest

\* It leaves the order as it is.
LEMMA OrderPush ==
    ASSUME NEW q \in Queue(Item), NEW S, NEW n \in Nat, NEW m, NEW b, NEW O,
           OrderOf(q, S, n, m, b, O), NEW x \in Item, NEW k, NewOf(x, n, k)
    PROVE  OrderOf(PushBack(q, x), S, k, m, b, O)
<1> DEFINE r == PushBack(q, x)
<1>1. PICK c \in 0 .. Len(q) :
         Cut(q, c) /\ (c # 0 => b /\ Split(q, c, YoungOf(S, n, O), HeardOf(S, n, m), O))
  BY DEF OrderOf
<1>2. /\ Known(q) \subseteq Nat /\ Known(q) = Fore(q, c) \cup Aft(q, c)
      /\ \A y \in Known(q) : y <= n
  BY CutMembers DEF OrderOf
<1>3. Latest(q, x) /\ k \in Nat /\ n <= k
  BY <1>2, NewIsLatest
<1>4. PICK d \in 0 .. Len(r) : /\ Cut(r, d)
                               /\ Aft(r, d) \subseteq Aft(q, c) \cup {x}
                               /\ Fore(r, d) \subseteq Fore(q, c)
                               /\ d # 0 => c # 0 /\ Aft(q, c) \subseteq Aft(r, d)
                               /\ Named(x) => x \in Aft(r, d)
  BY <1>1, <1>3, PushBackCut
<1>5. \A y \in Known(r) : y <= k
  <2> SUFFICES ASSUME NEW y \in Known(r) PROVE y <= k
    OBVIOUS
  <2>1. r \in Queue(Item)
    BY PushBackFacts
  <2>2. Named(y)
    BY <2>1, KnownIs, QueueFacts
  <2>3. y \in Known(q) \/ y = x
    BY <2>2, PushBackFacts
  <2> QED
    BY <1>2, <1>3, <2>2, <2>3 DEF NewOf
<1>6. ASSUME d # 0, NEW z \in 1 .. k, Named(z), ~(z \in 1 .. n) PROVE z \in Aft(r, d)
  BY <1>3, <1>4, <1>6 DEF NewOf
<1>7. ASSUME d # 0 PROVE b /\ Split(r, d, YoungOf(S, k, O), HeardOf(S, k, m), O)
  <2>1. b /\ c # 0 /\ Aft(q, c) \subseteq Aft(r, d) /\ Split(q, c, YoungOf(S, n, O), HeardOf(S, n, m), O)
    BY <1>1, <1>4, <1>7
  <2>2. ASSUME NEW z \in YoungOf(S, k, O)
        PROVE  z \in Aft(r, d) \/ \A y \in Aft(r, d) \cap Fore(r, d) : y < z
    <3>1. CASE z \in 1 .. n
      <4>1. z \in YoungOf(S, n, O)
        BY <2>2, <3>1 DEF YoungOf
      <4>2. z \in Aft(q, c) \/ \A y \in Aft(q, c) \cap Fore(q, c) : y < z
        BY <2>1, <4>1 DEF Split
      <4>3. Aft(r, d) \cap Fore(r, d) \subseteq Aft(q, c) \cap Fore(q, c)
        <5> SUFFICES ASSUME NEW y \in Aft(r, d) \cap Fore(r, d) PROVE y \in Aft(q, c)
          BY <1>4
        <5>1. y \in Known(q) /\ Named(y) /\ ~(y < y)
          BY <1>2, <1>4 DEF Fore
        <5>2. y # x
          BY <1>3, <5>1 DEF Latest
        <5> QED
          BY <1>4, <5>2
      <4> QED
        BY <2>1, <4>2, <4>3
    <3>2. CASE z \notin 1 .. n
      BY <1>6, <1>7, <2>2, <3>2 DEF YoungOf
    <3> QED
      BY <3>1, <3>2
  <2>3. ASSUME NEW z \in HeardOf(S, k, m), z \notin Aft(r, d)
        PROVE  z \in O /\ \A y \in Aft(r, d) : z < y
    <3>1. z \in 1 .. n /\ z \in HeardOf(S, n, m) /\ Named(z)
      BY <1>6, <1>7, <2>3 DEF HeardOf
    <3>2. z \in O /\ \A y \in Aft(q, c) : z < y
      BY <2>1, <2>3, <3>1 DEF Split
    <3>3. ASSUME NEW y \in Aft(r, d) PROVE z < y
      <4>1. CASE y = x
        <5>1. Named(x)
          BY <3>3, <4>1 DEF Aft
        <5>2. x = n + 1
          BY <5>1 DEF NewOf
        <5> QED
          BY <3>1, <4>1, <5>2
      <4> QED
        BY <1>4, <3>2, <3>3, <4>1
    <3> QED
      BY <3>2, <3>3
  <2> QED
    BY <2>1, <2>2, <2>3 DEF Split
<1> QED
  BY <1>4, <1>5, <1>7 DEF OrderOf

\* A message the queue drops is older than all it holds.
LEMMA OrderDrops ==
    ASSUME NEW q \in Queue(Item), NEW S, NEW n \in Nat, NEW m, NEW b, NEW O,
           OrderOf(q, S, n, m, b, O), NEW x \in Item, NEW k, NewOf(x, n, k),
           NEW z \in Known(q), z \notin Known(PushBack(q, x)), b => z \in S /\ z \notin m
    PROVE  Len(q) = Limit /\ \A y \in Known(PushBack(q, x)) : z < y
<1>1. PICK c \in 0 .. Len(q) :
         Cut(q, c) /\ (c # 0 => b /\ Split(q, c, YoungOf(S, n, O), HeardOf(S, n, m), O))
  BY DEF OrderOf
<1>2. /\ z \in Nat /\ z > 0 /\ Named(z) /\ z <= n
  <2>1. Named(z)
    BY KnownIs, QueueFacts
  <2> QED
    BY <2>1, ItemFacts DEF OrderOf
<1>3. Latest(q, x)
  BY NewIsLatest DEF OrderOf
<1>4. ASSUME c # 0, z \notin Aft(q, c) PROVE \A y \in Aft(q, c) : z < y
  <2>1. z \in HeardOf(S, n, m)
    BY <1>1, <1>2, <1>4 DEF HeardOf
  <2> QED
    BY <1>1, <1>4, <2>1 DEF Split
<1> QED
  BY <1>1, <1>3, <1>4, PushBackDrops

\* Adding a message that was just sent, or a notice, keeps the lists good.
LEMMA GoodAdds ==
    ASSUME NEW u, NEW n \in Nat, NEW m, NEW b, NEW O, Good(u, n, m, b, O),
           NEW x \in Item, NEW k, NewOf(x, n, k)
    PROVE  Good(Adds(u, x), k, m, b, O)
<1> DEFINE w == Adds(u, x)
<1>1. u \in Views /\ u.channel \in Queue(Item) /\ u.proxy \in Queue(Item) /\ u.layouts \in Queue(Item)
  BY DEF Good, Views
<1>2. /\ w \in Views /\ w.channel = PushBack(u.channel, x)
      /\ w.proxy = IF Shown(x) THEN PushBack(u.proxy, x) ELSE u.proxy
      /\ w.layouts = IF Shown(x) THEN PushBack(u.layouts, x) ELSE u.layouts
      /\ w.cleared = u.cleared
  BY <1>1, AddsView
<1>3. OrderOf(u.channel, Item, n, m, b, O) /\ OrderOf(u.proxy, Showable, n, m, b, O)
  BY DEF Good
<1>4. Latest(u.channel, x) /\ Latest(u.proxy, x) /\ k \in Nat /\ n <= k
  BY <1>1, <1>3, NewIsLatest DEF OrderOf
<1> HIDE DEF w
<1>5. OrderOf(w.channel, Item, k, m, b, O)
  BY <1>1, <1>2, <1>3, OrderPush
<1>6. OrderOf(w.proxy, Showable, k, m, b, O)
  <2>1. CASE Shown(x)
    BY <1>1, <1>2, <1>3, <2>1, OrderPush
  <2>2. CASE ~Shown(x)
    <3>1. HeardOf(Showable, k, m) \subseteq HeardOf(Showable, n, m)
      <4> SUFFICES ASSUME NEW z \in HeardOf(Showable, k, m) PROVE z \in 1 .. n
        BY DEF HeardOf
      <4>1. z # x /\ z \in 1 .. k /\ Named(z)
        BY <2>2 DEF HeardOf, Shown
      <4> QED
        BY <4>1 DEF NewOf
    <3> QED
      BY <1>1, <1>2, <1>3, <1>4, <2>2, <3>1, OrderChange
  <2> QED
    BY <2>1, <2>2
<1>7. ViewOf(w, m, b)
  <2> SUFFICES ASSUME NEW z \in Known(w.channel), Shown(z), ~(z \in m /\ b), z \notin Known(w.proxy)
               PROVE  \A y \in Known(w.proxy) : z < y
    BY DEF ViewOf
  <2>1. w.channel \in Queue(Item) /\ w.proxy \in Queue(Item)
    BY <1>2 DEF Views
  <2>2. Named(z)
    BY <2>1, KnownIs, QueueFacts
  <2>3. z \in Known(u.channel) \/ z = x
    BY <1>1, <1>2, <2>2, PushBackFacts
  <2>4. z # x
    <3> SUFFICES ASSUME z = x PROVE FALSE
      OBVIOUS
    <3>1. z \in Known(PushBack(u.proxy, x))
      BY <1>1, <2>2, PushBackFacts
    <3> QED
      BY <1>2, <3>1
  <2>5. z \in Known(u.proxy) \/ \A y \in Known(u.proxy) : z < y
    BY <2>3, <2>4 DEF Good, ViewOf
  <2>6. CASE ~Shown(x)
    BY <1>2, <2>5, <2>6
  <2>7. CASE Shown(x) /\ z \in Known(u.proxy)
    <3>1. w.proxy = PushBack(u.proxy, x) /\ z \in Showable
      BY <1>2, <2>7 DEF Shown
    <3> QED
      BY <1>1, <1>3, <2>7, <3>1, OrderDrops
  <2>8. CASE Shown(x) /\ \A y \in Known(u.proxy) : z < y
    <3> SUFFICES ASSUME NEW y \in Known(w.proxy) PROVE z < y
      OBVIOUS
    <3>1. Named(y)
      BY <2>1, KnownIs, QueueFacts
    <3>2. y \in Known(u.proxy) \/ y = x
      BY <1>1, <1>2, <2>8, <3>1, PushBackFacts
    <3>3. y = x => z < y
      BY <1>4, <2>3, <2>4, <3>1 DEF Latest
    <3> QED
      BY <2>8, <3>2, <3>3
  <2> QED
    BY <2>5, <2>6, <2>7, <2>8
<1>8. w.cleared \/ w.layouts = w.proxy
  BY <1>2 DEF Good
<1>9. Good(w, k, m, b, O)
  BY <1>2, <1>5, <1>6, <1>7, <1>8 DEF Good
<1> QED
  BY <1>9 DEF w

\* So do messages sent to nobody, and windows that are closed.
LEMMA GoodChange ==
    ASSUME NEW u, NEW n \in Nat, NEW m, NEW b, NEW O, Good(u, n, m, b, O),
           NEW k \in Nat, n <= k, NEW m2, m \subseteq m2, NEW P, O \subseteq P,
           b => \A z \in n + 1 .. k : z \in m2
    PROVE  Good(u, k, m2, b, P)
<1>1. u.channel \in Queue(Item) /\ u.proxy \in Queue(Item)
  BY DEF Good, Views
<1>2. ASSUME NEW S, b PROVE HeardOf(S, k, m2) \subseteq HeardOf(S, n, m)
  <2> SUFFICES ASSUME NEW z \in HeardOf(S, k, m2) PROVE z \in 1 .. n
    BY DEF HeardOf
  <2>1. z \in 1 .. k /\ z \notin n + 1 .. k
    BY <1>2 DEF HeardOf
  <2> QED
    BY <2>1
<1>3. OrderOf(u.channel, Item, k, m2, b, P)
  BY <1>1, <1>2, OrderChange DEF Good
<1>4. OrderOf(u.proxy, Showable, k, m2, b, P)
  BY <1>1, <1>2, OrderChange DEF Good
<1>5. ViewOf(u, m2, b)
  BY DEF Good, ViewOf
<1> QED
  BY <1>3, <1>4, <1>5 DEF Good

\* The messages after t that are in the channel are in the view's proxy, too, and
\* not farther from the end: the proxy does not drop one before the channel does.
FollowOf(u, t) ==
    \A i \in 1 .. Len(u.channel) : Named(u.channel[i]) /\ Shown(u.channel[i]) /\ t < u.channel[i] =>
        \E j \in 1 .. Len(u.proxy) :
            u.proxy[j] = u.channel[i] /\ Len(u.proxy) - j <= Len(u.channel) - i

\* A message that is added leaves the proxy behind the channel.
LEMMA FollowAdds ==
    ASSUME NEW u \in Views, NEW t, FollowOf(u, t), NEW x \in Item
    PROVE  FollowOf(Adds(u, x), t)
<1> DEFINE w == Adds(u, x)
           c == u.channel
           p == u.proxy
<1>1. c \in Queue(Item) /\ p \in Queue(Item)
  BY DEF Views
<1>2. /\ w.channel = PushBack(c, x)
      /\ w.proxy = IF Shown(x) THEN PushBack(p, x) ELSE p
  BY AddsView
<1> HIDE DEF w
<1>3. Pushed(c, x, PushBack(c, x)) /\ Pushed(p, x, PushBack(p, x))
  BY <1>1, PushBackMoves
<1>4. /\ Len(c) \in Nat /\ Len(p) \in Nat /\ Limit \in Nat /\ Len(c) <= Limit /\ Len(p) <= Limit
      /\ Len(PushBack(c, x)) \in Nat /\ Len(PushBack(p, x)) \in Nat
  <2>1. PushBack(c, x) \in Queue(Item) /\ PushBack(p, x) \in Queue(Item)
    BY <1>1, PushBackPlaces
  <2> QED
    BY <1>1, <2>1, QueueFacts
<1> DEFINE r == PushBack(c, x)
           s == PushBack(p, x)
<1>9. Len(r) \in Nat /\ Len(s) \in Nat
  BY <1>4
<1> HIDE DEF r, s
<1>5. SUFFICES ASSUME NEW i \in 1 .. Len(r), Named(r[i]), Shown(r[i]), t < r[i]
      PROVE  \E j \in 1 .. Len(w.proxy) : w.proxy[j] = r[i] /\ Len(w.proxy) - j <= Len(r) - i
  BY <1>2 DEF FollowOf, r, w
<1>6. CASE r[i] = x /\ Len(r) - i = 0
  <2>1. w.proxy = s
    BY <1>2, <1>5, <1>6 DEF s
  <2>2. \E j \in 1 .. Len(s) : s[j] = x /\ Len(s) - j = 0
    BY <1>3 DEF Pushed, s
  <2> QED
    BY <1>6, <2>1, <2>2
<1>7. ASSUME NEW k \in 1 .. Len(c), r[i] = c[k], Len(r) - i = Len(c) + 1 - k
      PROVE  \E j \in 1 .. Len(w.proxy) : w.proxy[j] = r[i] /\ Len(w.proxy) - j <= Len(r) - i
  <2>1. PICK a \in 1 .. Len(p) : p[a] = c[k] /\ Len(p) - a <= Len(c) - k
    BY <1>5, <1>7 DEF FollowOf
  <2>2. CASE ~Shown(x)
    <3>1. Len(p) - a <= Len(r) - i
      BY <1>4, <1>7, <2>1
    <3> QED
      BY <1>2, <1>7, <2>1, <2>2, <3>1
  <2>3. CASE Shown(x)
    <3>1. Len(p) # Limit \/ a # 1
      <4> SUFFICES ASSUME Len(p) = Limit, a = 1 PROVE FALSE
        OBVIOUS
      <4>1. Len(c) = Limit /\ k = 1
        BY <1>4, <2>1
      <4>2. Len(r) = Limit
        BY <1>3, <4>1 DEF Pushed, r
      <4> QED
        BY <1>4, <1>7, <4>1, <4>2
    <3>2. PICK j \in 1 .. Len(s) : s[j] = p[a] /\ Len(s) - j = Len(p) + 1 - a
      BY <1>3, <3>1 DEF Pushed, s
    <3>3. Len(s) - j <= Len(r) - i
      <4>1. Len(p) - a \in Int /\ Len(c) - k \in Int /\ Len(p) + 1 - a = (Len(p) - a) + 1
        BY <1>4
      <4>2. Len(c) + 1 - k = (Len(c) - k) + 1
        BY <1>4
      <4>3. Len(p) - a <= Len(c) - k
        BY <2>1
      <4>4. Len(p) + 1 - a <= Len(c) + 1 - k
        BY <4>1, <4>2, <4>3
      <4> QED
        BY <1>7, <3>2, <4>4
    <3>4. w.proxy = s
      BY <1>2, <2>3 DEF s
    <3> QED
      BY <1>7, <2>1, <3>2, <3>3, <3>4
  <2> QED
    BY <2>2, <2>3
<1>8. (r[i] = x /\ Len(r) - i = 0) \/ \E k \in 1 .. Len(c) : r[i] = c[k] /\ Len(r) - i = Len(c) + 1 - k
  BY <1>3, <1>5 DEF Pushed, r
<1> QED
  BY <1>6, <1>7, <1>8

\* Before the first load has ended: the channel is full, or it lost nothing, the
\* proxy holds what it shows, and, once the channel is known (l), it holds what is
\* later than t and was not missed.
LiveOf(q, n, m, t) ==
    \A x \in 1 .. n : Named(x) /\ x \notin Known(q) =>
        IF x \in m THEN t < x => \A y \in Known(q) : y < x
        ELSE x <= t /\ \A y \in Known(q) : x < y
\* The proxy holds what the filter lets through.
SameOf(u) ==
    /\ Len(u.proxy) <= Len(u.channel)
    /\ \A y : Named(y) => (y \in Known(u.proxy) <=> y \in Known(u.channel) /\ Shown(y))
\* What holds while the first load has not ended: there is no room for it, or nothing
\* has been dropped.
PendOf(u, l, n, m, t) ==
    Len(u.channel) = Limit \/ (SameOf(u) /\ (l => LiveOf(u.channel, n, m, t)))

\* A message that is added keeps it.
LEMMA PendAdds ==
    ASSUME NEW u \in Views, NEW l, NEW n \in Nat, NEW m, NEW t \in Nat, PendOf(u, l, n, m, t),
           NEW x \in Item, NEW k, NewOf(x, n, k), l /\ Named(x) => \A y \in m : y <= t
    PROVE  PendOf(Adds(u, x), l, k, m, t)
<1> DEFINE w == Adds(u, x)
           c == u.channel
           p == u.proxy
           r == PushBack(c, x)
<1>1. c \in Queue(Item) /\ p \in Queue(Item)
  BY DEF Views
<1>2. /\ w.channel = r
      /\ w.proxy = IF Shown(x) THEN PushBack(p, x) ELSE p
  BY AddsView
<1> HIDE DEF w
<1>3. CASE Len(c) = Limit
  <2>1. Len(r) = Limit
    BY <1>1, <1>3, PushBackFacts
  <2> QED
    BY <1>2, <2>1 DEF PendOf, w
<1>4. CASE Len(c) # Limit
  <2>1. SameOf(u) /\ (l => LiveOf(c, n, m, t))
    BY <1>4 DEF PendOf
  <2>2. /\ Len(c) \in Nat /\ Len(p) \in Nat /\ Limit \in Nat /\ Len(c) <= Limit /\ Len(p) <= Len(c)
    BY <1>1, <2>1, QueueFacts DEF SameOf
  <2>3. Len(p) # Limit
    BY <1>4, <2>2
  <2>4. /\ Len(r) = Len(c) + 1 /\ Len(PushBack(p, x)) = Len(p) + 1
    BY <1>1, <1>4, <2>3, PushBackFacts
  <2>5. Len(w.proxy) <= Len(w.channel)
    BY <1>2, <2>2, <2>4
  <2>6. \A y : Named(y) => (y \in Known(r) <=> y \in Known(c) \/ y = x)
    BY <1>1, <1>4, PushBackFacts
  <2>7. \A y : Named(y) => (y \in Known(PushBack(p, x)) <=> y \in Known(p) \/ y = x)
    BY <1>1, <2>3, PushBackFacts
  <2>8. SameOf(w)
    BY <1>2, <2>1, <2>5, <2>6, <2>7 DEF SameOf
  <2>9. ASSUME l PROVE LiveOf(r, k, m, t)
    <3> SUFFICES ASSUME NEW z \in 1 .. k, Named(z), z \notin Known(r)
                 PROVE  IF z \in m THEN t < z => \A y \in Known(r) : y < z
                        ELSE z <= t /\ \A y \in Known(r) : z < y
      BY DEF LiveOf
    <3>1. z # x /\ z \notin Known(c) /\ z \in 1 .. n
      BY <2>6 DEF NewOf
    <3>2. \A y \in Known(r) : Named(y) /\ (y \in Known(c) \/ y = x)
      <4>1. r \in Queue(Item)
        BY <1>1, PushBackFacts
      <4>2. \A y \in Known(r) : Named(y)
        BY <4>1, KnownIs, QueueFacts
      <4> QED
        BY <2>6, <4>2
    <3>3. CASE z \in m
      <4> SUFFICES ASSUME t < z, NEW y \in Known(r) PROVE y < z
        BY <3>3
      <4>1. ~Named(x)
        BY <2>9, <3>1, <3>3
      <4> QED
        BY <2>1, <2>9, <3>1, <3>2, <3>3, <4>1 DEF LiveOf
    <3>4. CASE z \notin m
      <4>1. z <= t /\ \A y \in Known(c) : z < y
        BY <2>1, <2>9, <3>1, <3>4 DEF LiveOf
      <4>2. Named(x) => z < x
        BY <3>1 DEF NewOf
      <4> QED
        BY <3>2, <3>4, <4>1, <4>2
    <3> QED
      BY <3>3, <3>4
  <2>10. PendOf(w, l, k, m, t)
    BY <1>2, <2>8, <2>9 DEF PendOf
  <2> QED
    BY <2>10 DEF w
<1> QED
  BY <1>3, <1>4

\* A message that was missed is there, or it was dropped for newer ones.
LostOf(q, x, b) == x \in Known(q) \/ (Len(q) = Limit /\ (b \/ \A y \in Known(q) : x < y))

\* A message a queue lost for newer ones stays lost for newer ones.
LEMMA LostPush ==
    ASSUME NEW q \in Queue(Item), NEW S, NEW n \in Nat, NEW m, NEW b, NEW O,
           OrderOf(q, S, n, m, b, O), NEW x \in Item, NEW k, NewOf(x, n, k),
           NEW z \in 1 .. n, LostOf(q, z, b)
    PROVE  LostOf(PushBack(q, x), z, b)
<1> DEFINE r == PushBack(q, x)
<1>1. r \in Queue(Item) /\ (Len(q) = Limit => Len(r) = Limit)
  BY PushBackFacts
<1>2. \A y \in Known(r) : Named(y) /\ (y \in Known(q) \/ y = x)
  <2>1. \A y \in Known(r) : Named(y)
    BY <1>1, KnownIs, QueueFacts
  <2> QED
    BY <2>1, PushBackFacts
<1>3. CASE z \in Known(q) /\ z \notin Known(r)
  <2>1. Named(z)
    BY <1>3, KnownIs, QueueFacts
  <2>2. Len(q) = Limit
    BY <1>3, <2>1, PushBackFacts
  <2>3. ~b => \A y \in Known(r) : z < y
    BY <1>3, OrderDrops
  <2> QED
    BY <1>1, <2>2, <2>3 DEF LostOf
<1>4. CASE Len(q) = Limit /\ (b \/ \A y \in Known(q) : z < y)
  <2>1. ASSUME ~b, NEW y \in Known(r) PROVE z < y
    BY <1>2, <1>4, <2>1 DEF NewOf
  <2> QED
    BY <1>1, <1>4, <2>1 DEF LostOf
<1>5. CASE z \in Known(r)
  BY <1>5 DEF LostOf
<1> QED
  BY <1>3, <1>4, <1>5 DEF LostOf

--------------------------------------------------------------------------------
(* What the lists keep when no message of the server is added. *)

\* q and r differ in messages without an id only.
Renames(q, r) ==
    /\ Len(r) = Len(q)
    /\ \A i \in 1 .. Len(q) : r[i] = q[i] \/ (~Named(q[i]) /\ ~Named(r[i]))

\* It leaves messages, places and the cut as they are,
LEMMA RenamesFacts ==
    ASSUME NEW q \in Queue(Item), NEW r \in Queue(Item), Renames(q, r)
    PROVE  /\ Known(r) = Known(q) /\ Len(r) = Len(q)
           /\ \A i \in 1 .. Len(q) : Named(q[i]) \/ Named(r[i]) => r[i] = q[i]
           /\ \A c \in 0 .. Len(q) : /\ Cut(q, c) => Cut(r, c)
                                     /\ Fore(r, c) = Fore(q, c) /\ Aft(r, c) = Aft(q, c)
<1>1. /\ Len(r) = Len(q) /\ Len(q) \in Nat
      /\ \A i \in 1 .. Len(q) : Named(q[i]) \/ Named(r[i]) => r[i] = q[i]
  BY QueueFacts DEF Renames
<1>2. Known(r) = Known(q)
  <2>1. \A x : x \in Known(q) <=> Named(x) /\ \E i \in 1 .. Len(q) : q[i] = x
    BY KnownIs, QueueFacts
  <2>2. \A x : x \in Known(r) <=> Named(x) /\ \E i \in 1 .. Len(r) : r[i] = x
    BY KnownIs, QueueFacts
  <2>3. \A x : x \in Known(r) <=> x \in Known(q)
    BY <1>1, <2>1, <2>2
  <2> QED
    BY <2>3
<1>3. ASSUME NEW c \in 0 .. Len(q)
      PROVE  /\ Cut(q, c) => Cut(r, c)
             /\ Fore(r, c) = Fore(q, c) /\ Aft(r, c) = Aft(q, c)
  <2>1. Cut(q, c) => Cut(r, c)
    BY <1>1 DEF Cut
  <2>2. Fore(r, c) = Fore(q, c)
    <3>1. 1 .. c \subseteq 1 .. Len(q)
      BY <1>1
    <3> QED
      BY <1>1, <3>1 DEF Fore
  <2>3. Aft(r, c) = Aft(q, c)
    <3>1. c + 1 .. Len(q) \subseteq 1 .. Len(q)
      BY <1>1
    <3> QED
      BY <1>1, <3>1 DEF Aft
  <2> QED
    BY <2>1, <2>2, <2>3
<1> QED
  BY <1>1, <1>2, <1>3

\* and so the order.
LEMMA OrderRenames ==
    ASSUME NEW q \in Queue(Item), NEW r \in Queue(Item), Renames(q, r),
           NEW S, NEW n, NEW m, NEW b, NEW O, OrderOf(q, S, n, m, b, O)
    PROVE  OrderOf(r, S, n, m, b, O)
<1>1. PICK c \in 0 .. Len(q) :
         Cut(q, c) /\ (c # 0 => b /\ Split(q, c, YoungOf(S, n, O), HeardOf(S, n, m), O))
  BY DEF OrderOf
<1>2. /\ Known(r) = Known(q) /\ Len(r) = Len(q)
      /\ Cut(r, c) /\ Fore(r, c) = Fore(q, c) /\ Aft(r, c) = Aft(q, c)
  BY <1>1, RenamesFacts
<1>3. c # 0 => b /\ Split(r, c, YoungOf(S, n, O), HeardOf(S, n, m), O)
  BY <1>1, <1>2 DEF Split
<1>4. \A y \in Known(r) : y <= n
  BY <1>2 DEF OrderOf
<1>5. c \in 0 .. Len(r)
  BY <1>2
<1> QED
  BY <1>2, <1>3, <1>4, <1>5 DEF OrderOf

\* Whatever holds of the lists u holds of w, too.
Steady(u, w) ==
    /\ u \in Views /\ w \in Views
    /\ \A n \in Nat : \A m, b, O : Good(u, n, m, b, O) => Good(w, n, m, b, O)
    /\ \A t : FollowOf(u, t) => FollowOf(w, t)
    /\ \A l, m : \A n, t \in Nat : PendOf(u, l, n, m, t) => PendOf(w, l, n, m, t)
    /\ \A n \in Nat : \A m, b, O : Good(u, n, m, b, O) =>
          \A z \in 1 .. n : LostOf(u.channel, z, b) => LostOf(w.channel, z, b)
    /\ Known(u.channel) = {} /\ Known(u.proxy) = {} =>
          Known(w.channel) = {} /\ Known(w.proxy) = {}

\* Two steps are one.
LEMMA SteadyTwice ==
    ASSUME NEW u, NEW v, NEW w, Steady(u, v), Steady(v, w)
    PROVE  Steady(u, w)
BY DEF Steady

\* Notices change nothing that holds of messages,
LEMMA SteadyAdds ==
    ASSUME NEW u \in Views, NEW x \in {Notice, Disconnected}
    PROVE  Steady(u, Adds(u, x))
<1>1. /\ x \in Item /\ ~Named(x) /\ Shown(x) /\ \A n : NewOf(x, n, n)
  BY ItemFacts DEF NewOf
<1>2. u.channel \in Queue(Item) /\ u.proxy \in Queue(Item)
  BY DEF Views
<1>3. /\ Adds(u, x) \in Views /\ Adds(u, x).channel = PushBack(u.channel, x)
      /\ Adds(u, x).proxy = PushBack(u.proxy, x)
  BY <1>1, AddsView
<1>4. ASSUME NEW n \in Nat, NEW m, NEW b, NEW O, Good(u, n, m, b, O)
      PROVE  Good(Adds(u, x), n, m, b, O)
  BY <1>1, <1>4, GoodAdds
<1>5. ASSUME NEW t, FollowOf(u, t) PROVE FollowOf(Adds(u, x), t)
  BY <1>1, <1>5, FollowAdds
<1>6. ASSUME NEW l, NEW m, NEW n \in Nat, NEW t \in Nat, PendOf(u, l, n, m, t)
      PROVE  PendOf(Adds(u, x), l, n, m, t)
  BY <1>1, <1>6, PendAdds
<1>7. ASSUME NEW n \in Nat, NEW m, NEW b, NEW O, Good(u, n, m, b, O),
             NEW z \in 1 .. n, LostOf(u.channel, z, b)
      PROVE  LostOf(Adds(u, x).channel, z, b)
  <2>1. OrderOf(u.channel, Item, n, m, b, O)
    BY <1>7 DEF Good
  <2> QED
    BY <1>1, <1>2, <1>3, <1>7, <2>1, LostPush
<1>8. ASSUME NEW q \in Queue(Item), Known(q) = {} PROVE Known(PushBack(q, x)) = {}
  <2>1. PushBack(q, x) \in Queue(Item)
    BY <1>1, PushBackFacts
  <2>2. ASSUME NEW y \in Known(PushBack(q, x)) PROVE FALSE
    <3>1. Named(y)
      BY <2>1, <2>2, KnownIs, QueueFacts
    <3>2. y \in Known(q) \/ y = x
      BY <1>1, <2>2, <3>1, PushBackFacts
    <3> QED
      BY <1>1, <1>8, <3>1, <3>2
  <2> QED
    BY <2>2
<1>9. Known(u.channel) = {} /\ Known(u.proxy) = {} =>
         Known(Adds(u, x).channel) = {} /\ Known(Adds(u, x).proxy) = {}
  BY <1>2, <1>3, <1>8
<1> QED
  BY <1>3, <1>4, <1>5, <1>6, <1>7, <1>9 DEF Steady

\* The channel and the proxy of w differ from those of u in program messages only.
LEMMA SteadyRenames ==
    ASSUME NEW u \in Views, NEW w \in Views,
           Renames(u.channel, w.channel), Renames(u.proxy, w.proxy),
           u.cleared \/ u.layouts = u.proxy => w.cleared \/ w.layouts = w.proxy
    PROVE  Steady(u, w)
<1>1. /\ u.channel \in Queue(Item) /\ u.proxy \in Queue(Item)
      /\ w.channel \in Queue(Item) /\ w.proxy \in Queue(Item)
  BY DEF Views
<1>2. /\ Known(w.channel) = Known(u.channel) /\ Known(w.proxy) = Known(u.proxy)
      /\ Len(w.channel) = Len(u.channel) /\ Len(w.proxy) = Len(u.proxy)
  BY <1>1, RenamesFacts
<1>3. ASSUME NEW n \in Nat, NEW m, NEW b, NEW O, Good(u, n, m, b, O)
      PROVE  Good(w, n, m, b, O)
  <2>1. OrderOf(w.channel, Item, n, m, b, O)
    BY <1>1, <1>3, OrderRenames DEF Good
  <2>2. OrderOf(w.proxy, Showable, n, m, b, O)
    BY <1>1, <1>3, OrderRenames DEF Good
  <2>3. ViewOf(w, m, b)
    BY <1>2, <1>3 DEF Good, ViewOf
  <2> QED
    BY <1>3, <2>1, <2>2, <2>3 DEF Good
<1>4. ASSUME NEW t, FollowOf(u, t) PROVE FollowOf(w, t)
  <2> SUFFICES ASSUME NEW i \in 1 .. Len(w.channel), Named(w.channel[i]), Shown(w.channel[i]),
                      t < w.channel[i]
               PROVE  \E j \in 1 .. Len(w.proxy) :
                         w.proxy[j] = w.channel[i] /\ Len(w.proxy) - j <= Len(w.channel) - i
    BY DEF FollowOf
  <2>1. w.channel[i] = u.channel[i]
    BY <1>1, <1>2, RenamesFacts
  <2>2. PICK j \in 1 .. Len(u.proxy) :
           u.proxy[j] = u.channel[i] /\ Len(u.proxy) - j <= Len(u.channel) - i
    BY <1>2, <1>4, <2>1 DEF FollowOf
  <2>3. w.proxy[j] = u.proxy[j]
    BY <1>1, <2>1, <2>2, RenamesFacts
  <2> QED
    BY <1>2, <2>1, <2>2, <2>3
<1>5. ASSUME NEW l, NEW m, NEW n \in Nat, NEW t \in Nat, PendOf(u, l, n, m, t)
      PROVE  PendOf(w, l, n, m, t)
  <2>1. SameOf(u) => SameOf(w)
    BY <1>2 DEF SameOf
  <2>2. LiveOf(u.channel, n, m, t) => LiveOf(w.channel, n, m, t)
    BY <1>2 DEF LiveOf
  <2> QED
    BY <1>2, <1>5, <2>1, <2>2 DEF PendOf
<1>6. \A z, b : LostOf(u.channel, z, b) => LostOf(w.channel, z, b)
  BY <1>2 DEF LostOf
<1> QED
  BY <1>2, <1>3, <1>4, <1>5, <1>6 DEF Steady

\* nor does a notice that replaces another,
LEMMA SteadyReplaces ==
    ASSUME NEW u \in Views
    PROVE  Steady(u, Replaces(u, Disconnected, Notice))
<1> DEFINE w == Replaces(u, Disconnected, Notice)
<1>1. /\ Notice \in Item /\ ~Named(Notice) /\ ~Named(Disconnected)
      /\ u.channel \in Queue(Item) /\ u.proxy \in Queue(Item)
  BY ItemFacts DEF Views
<1>2. /\ w \in Views
      /\ w.channel = ReplaceItem(u.channel, Disconnected, Notice)
      /\ w.proxy = ReplaceItem(u.proxy, Disconnected, Notice)
      /\ w.layouts = ReplaceItem(u.layouts, Disconnected, Notice)
      /\ w.cleared = u.cleared
  BY <1>1, ReplacesView
<1>3. Renames(u.channel, w.channel) /\ Renames(u.proxy, w.proxy)
  BY <1>1, <1>2, ReplaceItemFacts DEF Renames
<1> QED
  BY <1>2, <1>3, SteadyRenames

\* nor /clear.
LEMMA SteadySame ==
    ASSUME NEW u \in Views, NEW w \in Views, w.channel = u.channel, w.proxy = u.proxy,
           w.cleared \/ (w.cleared = u.cleared /\ w.layouts = u.layouts)
    PROVE  Steady(u, w)
BY SteadyRenames DEF Renames

\* A filtered queue is a queue,
LEMMA KeepInQueue ==
    ASSUME NEW q \in Queue(Item), NEW S
    PROVE  Keep(q, S) \in Queue(Item)
BY KeepRange, KeepFacts, QueueFacts DEF Queue

\* What is kept of a queue is in two parts where the queue is.
LEMMA KeepCut ==
    ASSUME NEW q \in Queue(Item), NEW S, NEW s, s = Keep(q, S), NEW c \in 0 .. Len(q), Cut(q, c)
    PROVE  \E d \in 0 .. Len(s) : /\ Cut(s, d) /\ (d # 0 => c # 0)
                                  /\ Fore(s, d) = Fore(q, c) \cap S /\ Aft(s, d) = Aft(q, c) \cap S
<1>1. /\ q \in Seq(Item) /\ Len(q) \in Nat /\ s \in Queue(Item) /\ Len(s) \in Nat
  BY KeepInQueue, QueueFacts
<1>2. PICK g : KeptBy(g, q, S, s, Len(q))
  BY <1>1, KeepFacts DEF KeptOf
<1>3. /\ \A j \in 1 .. Len(s) : g[j] \in 1 .. Len(q) /\ s[j] = q[g[j]] /\ s[j] \in S
      /\ \A i, j \in 1 .. Len(s) : i < j => g[i] < g[j]
      /\ \A i \in 1 .. Len(q) : q[i] \in S => \E j \in 1 .. Len(s) : g[j] = i
  BY <1>2 DEF KeptBy
<1>4. \E d \in 0 .. Len(s) : \A j \in 1 .. Len(s) : j <= d <=> g[j] <= c
  <2> DEFINE D == {j \in 1 .. Len(s) : g[j] <= c}
  <2>1. CASE D = {}
    BY <1>1, <1>3, <2>1
  <2>2. CASE D # {}
    <3>1. PICK d \in D : \A j \in D : j <= d
      BY <1>1, <2>2, MaxFacts
    <3>2. ASSUME NEW j \in 1 .. Len(s) PROVE j <= d <=> g[j] <= c
      <4>1. g[d] <= c /\ d \in 1 .. Len(s) /\ g[d] \in Nat /\ g[j] \in Nat
        BY <1>1, <1>3
      <4>2. j < d => g[j] < g[d]
        BY <1>3, <4>1
      <4> QED
        BY <1>1, <3>1, <4>1, <4>2
    <3> QED
      BY <1>1, <3>1, <3>2
  <2> QED
    BY <2>1, <2>2
<1>5. PICK d \in 0 .. Len(s) : \A j \in 1 .. Len(s) : j <= d <=> g[j] <= c
  BY <1>4
<1>6. Cut(s, d)
  <2> SUFFICES ASSUME NEW i \in 1 .. Len(s), NEW j \in 1 .. Len(s), i < j, j <= d \/ d < i,
                      Named(s[i]), Named(s[j])
               PROVE  s[i] < s[j]
    BY DEF Cut
  <2>1. g[i] < g[j] /\ g[i] \in 1 .. Len(q) /\ g[j] \in 1 .. Len(q)
    BY <1>3
  <2>2. g[j] <= c \/ c < g[i]
    <3>1. j <= d => g[j] <= c
      BY <1>5
    <3>2. d < i => ~(g[i] <= c)
      BY <1>1, <1>5
    <3> QED
      BY <1>1, <2>1, <3>1, <3>2
  <2>3. s[i] = q[g[i]] /\ s[j] = q[g[j]]
    BY <1>3
  <2> QED
    BY <2>1, <2>2, <2>3 DEF Cut
<1>7. d # 0 => c # 0
  <2> SUFFICES ASSUME d # 0 PROVE c # 0
    OBVIOUS
  <2>1. d \in 1 .. Len(s) /\ g[d] <= c
    BY <1>1, <1>5
  <2> QED
    BY <1>1, <1>3, <2>1
<1>8. Fore(s, d) = Fore(q, c) \cap S
  <2>1. ASSUME NEW x \in Server, Named(x), NEW j \in 1 .. d, s[j] = x
        PROVE  x \in S /\ \E i \in 1 .. c : q[i] = x
    <3>1. j \in 1 .. Len(s) /\ g[j] <= c
      BY <1>1, <1>5
    <3> QED
      BY <1>1, <1>3, <2>1, <3>1
  <2>2. ASSUME NEW x \in S, NEW i \in 1 .. c, q[i] = x
        PROVE  \E j \in 1 .. d : s[j] = x
    <3>1. i \in 1 .. Len(q)
      BY <1>1
    <3>2. PICK j \in 1 .. Len(s) : g[j] = i
      BY <1>3, <2>2, <3>1
    <3>3. j <= d /\ s[j] = x
      BY <1>3, <1>5, <2>2, <3>2
    <3> QED
      BY <1>1, <3>3
  <2> QED
    BY <2>1, <2>2 DEF Fore
<1>9. Aft(s, d) = Aft(q, c) \cap S
  <2>1. ASSUME NEW x \in Server, Named(x), NEW j \in d + 1 .. Len(s), s[j] = x
        PROVE  x \in S /\ \E i \in c + 1 .. Len(q) : q[i] = x
    <3>1. j \in 1 .. Len(s) /\ ~(g[j] <= c)
      BY <1>1, <1>5
    <3> QED
      BY <1>1, <1>3, <2>1, <3>1
  <2>2. ASSUME NEW x \in S, NEW i \in c + 1 .. Len(q), q[i] = x
        PROVE  \E j \in d + 1 .. Len(s) : s[j] = x
    <3>1. i \in 1 .. Len(q)
      BY <1>1
    <3>2. PICK j \in 1 .. Len(s) : g[j] = i
      BY <1>3, <2>2, <3>1
    <3>3. ~(j <= d) /\ s[j] = x
      <4>1. ~(g[j] <= c)
        BY <1>1, <3>2
      <4> QED
        BY <1>3, <1>5, <2>2, <3>2, <4>1
    <3> QED
      BY <1>1, <3>3
  <2> QED
    BY <2>1, <2>2 DEF Aft
<1> QED
  BY <1>6, <1>7, <1>8, <1>9

\* in order if it was.
LEMMA OrderKeeps ==
    ASSUME NEW q \in Queue(Item), NEW S \in SUBSET Item, NEW n, NEW m, NEW b, NEW O,
           OrderOf(q, Item, n, m, b, O)
    PROVE  OrderOf(Keep(q, S), S, n, m, b, O)
<1>1. PICK c \in 0 .. Len(q) :
         Cut(q, c) /\ (c # 0 => b /\ Split(q, c, YoungOf(Item, n, O), HeardOf(Item, n, m), O))
  BY DEF OrderOf
<1> DEFINE s == Keep(q, S)
<1>2. PICK d \in 0 .. Len(s) : /\ Cut(s, d) /\ (d # 0 => c # 0)
                               /\ Fore(s, d) = Fore(q, c) \cap S /\ Aft(s, d) = Aft(q, c) \cap S
  BY <1>1, KeepCut
<1>3. Known(s) \subseteq Known(q)
  BY KeepRange, QueueFacts
<1> HIDE DEF s
<1>4. ASSUME d # 0 PROVE b /\ Split(s, d, YoungOf(S, n, O), HeardOf(S, n, m), O)
  <2>1. b /\ Split(q, c, YoungOf(Item, n, O), HeardOf(Item, n, m), O)
    BY <1>1, <1>2, <1>4
  <2>2. ASSUME NEW x \in YoungOf(S, n, O)
        PROVE  x \in Aft(s, d) \/ \A y \in Aft(s, d) \cap Fore(s, d) : y < x
    <3>1. x \in YoungOf(Item, n, O) /\ x \in S
      BY <2>2 DEF YoungOf
    <3>2. x \in Aft(q, c) \/ \A y \in Aft(q, c) \cap Fore(q, c) : y < x
      BY <2>1, <3>1 DEF Split
    <3> QED
      BY <1>2, <3>1, <3>2
  <2>3. ASSUME NEW z \in HeardOf(S, n, m)
        PROVE  z \in Aft(s, d) \/ (z \in O /\ \A y \in Aft(s, d) : z < y)
    <3>1. z \in HeardOf(Item, n, m) /\ z \in S
      BY <2>3 DEF HeardOf
    <3>2. z \in Aft(q, c) \/ (z \in O /\ \A y \in Aft(q, c) : z < y)
      BY <2>1, <3>1 DEF Split
    <3> QED
      BY <1>2, <3>1, <3>2
  <2> QED
    BY <2>1, <2>2, <2>3 DEF Split
<1>5. OrderOf(s, S, n, m, b, O)
  BY <1>2, <1>3, <1>4 DEF OrderOf
<1> QED
  BY <1>5 DEF s

\* The proxy and the layouts are built anew from the channel.
LEMMA SteadyRebuilt ==
    ASSUME NEW u \in Views, NEW w \in Views, w.channel = u.channel,
           w.proxy = Keep(u.channel, Showable), w.layouts = w.proxy
    PROVE  Steady(u, w)
<1> DEFINE q == u.channel
           s == Keep(q, Showable)
<1>1. q \in Queue(Item) /\ q \in Seq(Item) /\ Len(q) \in Nat /\ Showable \in SUBSET Item
  <2>1. q \in Queue(Item)
    BY DEF Views
  <2>2. Included \subseteq Server
    BY BoundsAssumption DEF Server
  <2> QED
    BY <2>1, <2>2, QueueFacts DEF Showable, Item
<1>2. Known(s) = Known(q) \cap Showable /\ Len(s) <= Len(q)
  BY <1>1, KeepRange
<1>3. ASSUME NEW n \in Nat, NEW m, NEW b, NEW O, Good(u, n, m, b, O)
      PROVE  Good(w, n, m, b, O)
  <2>1. OrderOf(q, Item, n, m, b, O)
    BY <1>3 DEF Good
  <2>2. OrderOf(s, Showable, n, m, b, O)
    BY <1>1, <2>1, OrderKeeps
  <2>3. ViewOf(w, m, b)
    BY <1>2 DEF ViewOf, Shown
  <2> QED
    BY <2>1, <2>2, <2>3 DEF Good
<1>4. ASSUME NEW t PROVE FollowOf(w, t)
  <2>1. PICK g : KeptBy(g, q, Showable, s, Len(q))
    BY <1>1, KeepFacts DEF KeptOf
  <2>2. ASSUME NEW i \in 1 .. Len(q), q[i] \in Showable
        PROVE  \E j \in 1 .. Len(s) : s[j] = q[i] /\ Len(s) - j <= Len(q) - i
    <3>1. PICK j \in 1 .. Len(s) : g[j] = i /\ Len(s) - j <= Len(q) - i
      BY <2>1, <2>2 DEF KeptBy
    <3>2. s[j] = q[g[j]]
      BY <2>1, <3>1 DEF KeptBy
    <3> QED
      BY <3>1, <3>2
  <2> QED
    BY <2>2 DEF FollowOf, Shown
<1>5. SameOf(w)
  <2>1. \A y : y \in Known(s) <=> y \in Known(q) /\ y \in Showable
    BY <1>2
  <2> QED
    BY <1>2, <2>1 DEF SameOf, Shown
<1>6. ASSUME NEW l, NEW m, NEW n \in Nat, NEW t \in Nat, PendOf(u, l, n, m, t)
      PROVE  PendOf(w, l, n, m, t)
  BY <1>5, <1>6 DEF PendOf
<1> QED
  BY <1>2, <1>3, <1>4, <1>6 DEF Steady

--------------------------------------------------------------------------------
(* The first load: the history goes to the front. *)

\* LiveOf, for the messages of S.
LiveFor(q, S, n, m, t) ==
    \A x \in 1 .. n : Named(x) /\ x \in S /\ x \notin Known(q) =>
        IF x \in m THEN t < x => \A y \in Known(q) : y < x
        ELSE x <= t /\ \A y \in Known(q) : x < y

\* History put in front of the live messages of a channel: the queue is in order, or
\* cut in two where the history ends.
LEMMA FrontOrder ==
    ASSUME NEW q \in Queue(Item), Cut(q, 0), NEW n \in Nat, \A y \in Known(q) : y <= n,
           NEW items \in Seq(Item), Ascending(items), \A i \in 1 .. Len(items) : items[i] \in 1 .. n,
           NEW S, NEW m, NEW t \in Nat, Fitting(q, items) # <<>> => LiveFor(q, S, n, m, t),
           NEW b, b \/ \A i \in 1 .. Len(items) : \A y \in Known(q) : items[i] < y,
           NEW O, O = {z \in 0 .. n : z <= t}
    PROVE  OrderOf(PushFront(q, items), S, n, m, b, O)
<1> DEFINE f == Fitting(q, items)
           k == Len(f)
           r == PushFront(q, items)
<1>1. /\ q \in Seq(Item) /\ Len(q) \in Nat /\ k \in Nat /\ Len(items) \in Nat /\ k <= Len(items)
      /\ r \in Queue(Item) /\ Len(r) = k + Len(q)
      /\ \A i \in 1 .. Len(r) : r[i] = IF i <= k THEN f[i] ELSE q[i - k]
      /\ \A j \in 1 .. k : f[j] = items[Len(items) - k + j]
  <2>1. q \in Seq(Item) /\ Len(q) \in Nat /\ Len(items) \in Nat
    BY QueueFacts
  <2>2. /\ k \in Nat /\ k <= Len(items)
        /\ \A j \in 1 .. k : f[j] = items[Len(items) - k + j]
    BY FittingFacts
  <2>3. /\ r \in Queue(Item) /\ Len(r) = k + Len(q)
        /\ \A i \in 1 .. Len(r) : r[i] = IF i <= k THEN f[i] ELSE q[i - k]
    BY PushFrontFacts
  <2> QED
    BY <2>1, <2>2, <2>3
<1>2. f # <<>> <=> k # 0
  <2>1. f \in Seq(Item)
    BY FittingFacts
  <2> QED
    BY <2>1
<1> HIDE DEF f, k, r
<1>3. ASSUME NEW i \in 1 .. Len(r), i <= k
      PROVE  \E j \in 1 .. Len(items) : j = Len(items) - k + i /\ r[i] = items[j] /\ r[i] \in 1 .. n
  <2>1. Len(items) - k + i \in 1 .. Len(items) /\ i \in 1 .. k
    BY <1>1, <1>3
  <2> QED
    BY <1>1, <1>3, <2>1
<1>4. ASSUME NEW i \in 1 .. Len(r), ~(i <= k)
      PROVE  i - k \in 1 .. Len(q) /\ r[i] = q[i - k]
  BY <1>1, <1>4
<1>5. \A x : x \in Known(q) <=> Named(x) /\ \E i \in 1 .. Len(q) : q[i] = x
  BY <1>1, KnownIs
<1>6. \A x \in Known(r) : x <= n
  <2> SUFFICES ASSUME NEW x \in Known(r) PROVE x <= n
    OBVIOUS
  <2>1. PICK i \in 1 .. Len(r) : r[i] = x /\ Named(x)
    BY <1>1, KnownIs, QueueFacts
  <2>2. CASE i <= k
    <3>1. x \in 1 .. n
      BY <1>3, <2>1, <2>2
    <3> QED
      BY <3>1
  <2>3. CASE ~(i <= k)
    <3>1. x \in Known(q)
      BY <1>4, <1>5, <2>1, <2>3
    <3> QED
      BY <3>1
  <2> QED
    BY <2>2, <2>3
<1>7. Aft(r, k) = Known(q)
  <2>1. ASSUME NEW x \in Aft(r, k) PROVE x \in Known(q)
    <3>1. PICK i \in k + 1 .. Len(r) : Named(x) /\ r[i] = x
      BY <2>1 DEF Aft
    <3>2. i \in 1 .. Len(r) /\ ~(i <= k)
      BY <1>1
    <3> QED
      BY <1>4, <1>5, <3>1, <3>2
  <2>2. ASSUME NEW x \in Known(q) PROVE x \in Aft(r, k)
    <3>1. PICK j \in 1 .. Len(q) : Named(x) /\ q[j] = x
      BY <1>5
    <3>2. j + k \in k + 1 .. Len(r) /\ j + k \in 1 .. Len(r) /\ ~(j + k <= k) /\ (j + k) - k = j
      BY <1>1
    <3>3. r[j + k] = x
      BY <1>1, <3>1, <3>2
    <3>4. x \in Server
      BY <3>1, NamedFacts
    <3> QED
      BY <3>1, <3>2, <3>3, <3>4 DEF Aft
  <2> QED
    BY <2>1, <2>2
<1>8. ASSUME NEW d \in {0, k}, d = k \/ \A i \in 1 .. Len(items) : \A y \in Known(q) : items[i] < y
      PROVE  Cut(r, d)
  <2> SUFFICES ASSUME NEW i \in 1 .. Len(r), NEW j \in 1 .. Len(r), i < j, j <= d \/ d < i,
                      Named(r[i]), Named(r[j])
               PROVE  r[i] < r[j]
    BY DEF Cut
  <2>1. CASE j <= k
    <3>1. i <= k
      BY <1>1, <2>1
    <3>2. PICK a \in 1 .. Len(items) : a = Len(items) - k + i /\ r[i] = items[a]
      BY <1>3, <3>1
    <3>3. PICK e \in 1 .. Len(items) : e = Len(items) - k + j /\ r[j] = items[e]
      BY <1>3, <2>1
    <3>4. a < e
      BY <1>1, <3>2, <3>3
    <3> QED
      BY <3>2, <3>3, <3>4 DEF Ascending
  <2>2. CASE ~(i <= k)
    <3>1. ~(j <= k)
      BY <1>1, <2>2
    <3>2. /\ i - k \in 1 .. Len(q) /\ r[i] = q[i - k]
          /\ j - k \in 1 .. Len(q) /\ r[j] = q[j - k] /\ i - k < j - k /\ 0 < i - k
      BY <1>1, <1>4, <2>2, <3>1
    <3> QED
      BY <3>2 DEF Cut
  <2>3. CASE i <= k /\ ~(j <= k)
    <3>1. d # k
      BY <1>1, <2>3
    <3>2. PICK a \in 1 .. Len(items) : r[i] = items[a]
      BY <1>3, <2>3
    <3>3. r[j] \in Known(q)
      BY <1>4, <1>5, <2>3
    <3> QED
      BY <1>8, <3>1, <3>2, <3>3
  <2> QED
    BY <2>1, <2>2, <2>3
<1>9. ASSUME k # 0 PROVE Split(r, k, YoungOf(S, n, O), HeardOf(S, n, m), O)
  <2>1. LiveFor(q, S, n, m, t)
    BY <1>2, <1>9 DEF f
  <2>2. ASSUME NEW x \in YoungOf(S, n, O), x \notin Known(q)
        PROVE  \A y \in Known(q) : y < x
    <3>1. x \in 1 .. n /\ Named(x) /\ x \in S /\ ~(x <= t)
      BY <2>2 DEF YoungOf
    <3> QED
      BY <2>1, <2>2, <3>1 DEF LiveFor
  <2>3. ASSUME NEW z \in HeardOf(S, n, m), z \notin Known(q)
        PROVE  z \in O /\ \A y \in Known(q) : z < y
    <3>1. z \in 1 .. n /\ Named(z) /\ z \in S /\ z \notin m
      BY <2>3 DEF HeardOf
    <3>2. z <= t /\ \A y \in Known(q) : z < y
      BY <2>1, <2>3, <3>1 DEF LiveFor
    <3> QED
      BY <3>1, <3>2
  <2> QED
    BY <1>7, <2>2, <2>3 DEF Split
<1>10. CASE b
  <2>1. k \in 0 .. Len(r) /\ Cut(r, k)
    BY <1>1, <1>8
  <2> QED
    BY <1>6, <1>9, <1>10, <2>1 DEF OrderOf, r
<1>11. CASE ~b
  <2>1. 0 \in 0 .. Len(r) /\ Cut(r, 0)
    BY <1>1, <1>8, <1>11
  <2> QED
    BY <1>6, <2>1 DEF OrderOf, r
<1> QED
  BY <1>10, <1>11

\* The newest of an ascending sequence, and what the filter leaves of one.
LEMMA AscendingPart ==
    ASSUME NEW s \in Seq(Item), Ascending(s), NEW q \in Queue(Item), NEW S
    PROVE  /\ Ascending(Fitting(q, s)) /\ Ascending(Keep(s, S))
           /\ \A i \in 1 .. Len(Fitting(q, s)) : \E j \in 1 .. Len(s) : Fitting(q, s)[i] = s[j]
           /\ \A i \in 1 .. Len(Keep(s, S)) : \E j \in 1 .. Len(s) : Keep(s, S)[i] = s[j]
<1>1. /\ Ascending(Fitting(q, s))
      /\ \A i \in 1 .. Len(Fitting(q, s)) : \E j \in 1 .. Len(s) : Fitting(q, s)[i] = s[j]
  <2> DEFINE f == Fitting(q, s)
  <2>1. /\ Len(f) \in Nat /\ Len(s) \in Nat /\ Len(f) <= Len(s)
        /\ \A j \in 1 .. Len(f) : f[j] = s[Len(s) - Len(f) + j]
    BY FittingFacts
  <2> HIDE DEF f
  <2>2. \A j \in 1 .. Len(f) : Len(s) - Len(f) + j \in 1 .. Len(s)
    BY <2>1
  <2>3. ASSUME NEW i \in 1 .. Len(f), NEW j \in 1 .. Len(f), i < j PROVE f[i] < f[j]
    <3>1. Len(s) - Len(f) + i < Len(s) - Len(f) + j
      BY <2>1, <2>3
    <3> QED
      BY <2>1, <2>2, <3>1 DEF Ascending
  <2>4. Ascending(f)
    BY <2>3 DEF Ascending
  <2> QED
    BY <2>1, <2>2, <2>4 DEF f
<1>2. /\ Ascending(Keep(s, S))
      /\ \A i \in 1 .. Len(Keep(s, S)) : \E j \in 1 .. Len(s) : Keep(s, S)[i] = s[j]
  <2> DEFINE f == Keep(s, S)
  <2>1. PICK g : KeptBy(g, s, S, f, Len(s))
    BY KeepFacts DEF KeptOf
  <2> HIDE DEF f
  <2>2. /\ \A j \in 1 .. Len(f) : g[j] \in 1 .. Len(s) /\ f[j] = s[g[j]]
        /\ \A i, j \in 1 .. Len(f) : i < j => g[i] < g[j]
    BY <2>1 DEF KeptBy
  <2>3. Ascending(f)
    BY <2>2 DEF Ascending
  <2> QED
    BY <2>2, <2>3 DEF f
<1> QED
  BY <1>1, <1>2

\* What is in front and what was there is what is known then.
LEMMA FrontKnown ==
    ASSUME NEW q \in Queue(Item), NEW items \in Seq(Item)
    PROVE  /\ Known(PushFront(q, items)) = Known(Fitting(q, items)) \cup Known(q)
           /\ Len(q) = Limit => /\ Len(PushFront(q, items)) = Limit
                                /\ Known(PushFront(q, items)) = Known(q)
           /\ Fitting(q, items) # <<>> => Len(q) # Limit
<1> DEFINE f == Fitting(q, items)
           k == Len(f)
           r == PushFront(q, items)
<1>1. q \in Seq(Item) /\ Len(q) \in Nat /\ Limit \in Nat /\ Len(q) <= Limit
  BY QueueFacts
<1>2. f \in Seq(Item) /\ k \in Nat /\ Len(q) + k <= Limit
  BY FittingFacts
<1>3. /\ r \in Queue(Item) /\ Len(r) = k + Len(q)
      /\ \A i \in 1 .. Len(r) : r[i] = IF i <= k THEN f[i] ELSE q[i - k]
  BY PushFrontFacts
<1>4. f # <<>> <=> k # 0
  BY <1>2
<1>5. k # 0 => Len(q) # Limit
  BY <1>1, <1>2
<1> HIDE DEF f, k, r
<1>6. /\ \A x : x \in Known(q) <=> Named(x) /\ \E i \in 1 .. Len(q) : q[i] = x
      /\ \A x : x \in Known(f) <=> Named(x) /\ \E i \in 1 .. k : f[i] = x
      /\ \A x : x \in Known(r) <=> Named(x) /\ \E i \in 1 .. Len(r) : r[i] = x
  <2>1. r \in Seq(Item)
    BY <1>3, QueueFacts
  <2>2. \A x : x \in Known(f) <=> Named(x) /\ \E i \in 1 .. k : f[i] = x
    BY <1>2, KnownIs DEF k
  <2> QED
    BY <1>1, <2>1, <2>2, KnownIs
<1>7. ASSUME NEW x \in Known(r) PROVE x \in Known(f) \/ (x \in Known(q) /\ ~(Len(r) = k))
  <2>1. PICK i \in 1 .. Len(r) : r[i] = x /\ Named(x)
    BY <1>6
  <2>2. CASE i <= k
    <3>1. i \in 1 .. k /\ f[i] = x
      BY <1>2, <1>3, <2>1, <2>2
    <3> QED
      BY <1>6, <2>1, <3>1
  <2>3. CASE ~(i <= k)
    <3>1. i - k \in 1 .. Len(q) /\ q[i - k] = x /\ ~(Len(r) = k)
      BY <1>1, <1>2, <1>3, <2>1, <2>3
    <3> QED
      BY <1>6, <2>1, <3>1
  <2> QED
    BY <2>2, <2>3
<1>8. ASSUME NEW x \in Known(f) PROVE x \in Known(r) /\ k # 0
  <2>1. PICK i \in 1 .. k : f[i] = x /\ Named(x)
    BY <1>6
  <2>2. i \in 1 .. Len(r) /\ r[i] = x /\ k # 0
    BY <1>1, <1>2, <1>3, <2>1
  <2> QED
    BY <1>6, <2>1, <2>2
<1>9. ASSUME NEW x \in Known(q) PROVE x \in Known(r)
  <2>1. PICK i \in 1 .. Len(q) : q[i] = x /\ Named(x)
    BY <1>6
  <2>2. i + k \in 1 .. Len(r) /\ ~(i + k <= k) /\ (i + k) - k = i
    BY <1>1, <1>2, <1>3
  <2>3. r[i + k] = x
    BY <1>3, <2>1, <2>2
  <2> QED
    BY <1>6, <2>1, <2>2, <2>3
<1>10. Known(r) = Known(f) \cup Known(q)
  BY <1>7, <1>8, <1>9
<1>11. ASSUME Len(q) = Limit PROVE Len(r) = Limit /\ Known(r) = Known(q)
  <2>1. k = 0 /\ Known(f) = {}
    BY <1>5, <1>8, <1>11
  <2>2. Len(r) = Limit
    BY <1>1, <1>3, <1>11, <2>1
  <2> QED
    BY <1>10, <2>1, <2>2
<1> QED
  BY <1>4, <1>5, <1>10, <1>11 DEF f, r

\* The first load: its messages go in front, and the lists are good, perhaps cut in two.
LEMMA FirstLoad ==
    ASSUME NEW u, NEW n \in Nat, NEW m, NEW t \in Nat, NEW O, O = {z \in 0 .. n : z <= t},
           Good(u, n, m, FALSE, O), PendOf(u, TRUE, n, m, t),
           NEW items \in Seq(Item), Ascending(items), \A i \in 1 .. Len(items) : items[i] \in 1 .. n,
           NEW b, b \/ \A i \in 1 .. Len(items) : \A y \in Known(u.channel) : items[i] < y
    PROVE  /\ Good(AddsAtStart(u, items), n, m, b, O)
           /\ \A z : LostOf(u.channel, z, FALSE) => LostOf(AddsAtStart(u, items).channel, z, b)
<1> DEFINE q == u.channel
           p == u.proxy
           f == Fitting(q, items)
           K == Keep(f, Showable)
           w == AddsAtStart(u, items)
<1>1. u \in Views /\ q \in Queue(Item) /\ p \in Queue(Item)
  BY DEF Good, Views
<1>2. /\ w \in Views /\ f \in Seq(Item) /\ K \in Seq(Item) /\ InProxy(u, items) \in Seq(Item)
      /\ w.channel = PushFront(q, items) /\ w.proxy = PushFront(p, K)
      /\ w.layouts = PushFront(u.layouts, InProxy(u, items)) /\ w.cleared = u.cleared
  BY <1>1, AddsAtStartView
<1>3. InProxy(u, items) = Fitting(p, K)
  BY DEF InProxy
<1>4. /\ Len(q) \in Nat /\ Len(p) \in Nat /\ Limit \in Nat /\ Len(q) <= Limit /\ Len(p) <= Limit
      /\ Len(f) \in Nat /\ Len(q) + Len(f) <= Limit
  BY <1>1, QueueFacts, FittingFacts
<1>5. Len(K) \in Nat /\ Len(K) <= Len(f) /\ Known(K) = Known(f) \cap Showable
  BY <1>2, KeepRange
<1>6. (f # <<>> <=> Len(f) # 0) /\ (K # <<>> => f # <<>>)
  <2>1. f # <<>> <=> Len(f) # 0
    BY <1>2
  <2>2. K # <<>> <=> Len(K) # 0
    BY <1>2
  <2> QED
    BY <1>4, <1>5, <2>1, <2>2
<1>7. ASSUME f # <<>> PROVE SameOf(u) /\ LiveOf(q, n, m, t)
  <2>1. Len(q) # Limit
    BY <1>1, <1>7, FrontKnown
  <2> QED
    BY <2>1 DEF PendOf
<1>8. /\ Ascending(f) /\ \A i \in 1 .. Len(f) : \E j \in 1 .. Len(items) : f[i] = items[j]
  BY <1>1, AscendingPart
<1>9. /\ Ascending(K) /\ \A i \in 1 .. Len(K) : \E j \in 1 .. Len(f) : K[i] = f[j]
  BY <1>1, <1>2, <1>8, AscendingPart
<1> HIDE DEF f, K, w
<1>10. \A i \in 1 .. Len(K) : \E j \in 1 .. Len(items) : K[i] = items[j]
  BY <1>8, <1>9
<1>11. Cut(q, 0) /\ Cut(p, 0) /\ (\A y \in Known(q) : y <= n) /\ (\A y \in Known(p) : y <= n)
  BY DEF Good, OrderOf
<1>12. OrderOf(w.channel, Item, n, m, b, O)
  <2>1. f # <<>> => LiveFor(q, Item, n, m, t)
    BY <1>7 DEF LiveOf, LiveFor
  <2> QED
    <3>1. OrderOf(PushFront(q, items), Item, n, m, b, O)
      BY <1>1, <1>11, <2>1, FrontOrder DEF f
    <3> QED
      BY <1>2, <3>1
<1>13. OrderOf(w.proxy, Showable, n, m, b, O)
  <2>1. ASSUME Fitting(p, K) # <<>> PROVE LiveFor(p, Showable, n, m, t)
    <3>1. K # <<>>
      <4> SUFFICES ASSUME K = <<>> PROVE FALSE
        OBVIOUS
      <4>1. Len(K) = 0
        OBVIOUS
      <4>2. Fitting(p, K) \in Seq(Item) /\ Len(Fitting(p, K)) \in Nat /\ Len(Fitting(p, K)) <= Len(K)
        BY <1>1, <1>2, FittingFacts
      <4> QED
        BY <2>1, <4>1, <4>2
    <3>2. SameOf(u) /\ LiveOf(q, n, m, t)
      BY <1>6, <1>7, <3>1
    <3>3. \A y : Named(y) => (y \in Known(p) <=> y \in Known(q) /\ y \in Showable)
      BY <3>2 DEF SameOf, Shown
    <3>4. Known(p) \subseteq Known(q)
      BY <1>1, <3>3, KnownIs, QueueFacts
    <3> QED
      BY <3>2, <3>3, <3>4 DEF LiveOf, LiveFor
  <2>2. ASSUME ~b, NEW i \in 1 .. Len(K), NEW y \in Known(p) PROVE K[i] < y
    <3>1. Len(K) # 0
      BY <1>5, <2>2
    <3>2. SameOf(u)
      BY <1>4, <1>5, <1>6, <1>7, <3>1
    <3>3. Named(y)
      BY <1>1, <2>2, KnownIs, QueueFacts
    <3>4. y \in Known(q)
      BY <2>2, <3>2, <3>3 DEF SameOf
    <3> QED
      BY <1>10, <2>2, <3>4
  <2>3. \A i \in 1 .. Len(K) : K[i] \in 1 .. n
    BY <1>10
  <2>4. b \/ \A i \in 1 .. Len(K) : \A y \in Known(p) : K[i] < y
    BY <2>2
  <2> QED
    <3>1. OrderOf(PushFront(p, K), Showable, n, m, b, O)
      BY <1>1, <1>2, <1>9, <1>11, <2>1, <2>3, <2>4, FrontOrder
    <3> QED
      BY <1>2, <3>1
<1>14. ViewOf(w, m, b)
  <2> SUFFICES ASSUME NEW x \in Known(w.channel), Shown(x)
               PROVE  x \in Known(w.proxy) \/ \A y \in Known(w.proxy) : x < y
    BY DEF ViewOf
  <2>1. x \in Known(f) \/ x \in Known(q)
    BY <1>1, <1>2, FrontKnown DEF f
  <2>2. Known(w.proxy) = Known(Fitting(p, K)) \cup Known(p)
    BY <1>1, <1>2, FrontKnown
  <2>3. CASE f # <<>>
    <3>1. SameOf(u)
      BY <1>7, <2>3
    <3>2. Len(p) + Len(K) <= Limit
      BY <1>4, <1>5, <3>1 DEF SameOf
    <3>3. Fitting(p, K) = K
      BY <1>4, <1>5, <3>2 DEF Fitting
    <3>4. x \in Known(q) => x \in Known(p)
      BY <1>1, <3>1, KnownIs, QueueFacts DEF SameOf
    <3> QED
      BY <1>5, <2>1, <2>2, <3>3, <3>4 DEF Shown
  <2>4. CASE f = <<>>
    <3>1. Len(f) = 0 /\ Len(K) = 0
      BY <1>4, <1>5, <2>4
    <3>2. x \notin Known(f) /\ Known(Fitting(p, K)) = {}
      <4>1. ASSUME NEW s \in Seq(Item), Len(s) = 0 PROVE Known(s) = {}
        <5> SUFFICES ASSUME NEW y \in Known(s) PROVE FALSE
          OBVIOUS
        <5>1. \E i \in 1 .. Len(s) : s[i] = y
          BY KnownIs
        <5> QED
          BY <4>1, <5>1
      <4>2. Fitting(p, K) \in Seq(Item) /\ Len(Fitting(p, K)) = 0
        <5>1. /\ Fitting(p, K) \in Seq(Item) /\ Len(Fitting(p, K)) \in Nat
              /\ Len(Fitting(p, K)) <= Len(K)
          BY <1>1, <1>2, FittingFacts
        <5> QED
          BY <3>1, <5>1
      <4> QED
        BY <1>2, <3>1, <4>1, <4>2
    <3>3. ViewOf(u, m, FALSE)
      BY DEF Good
    <3> QED
      BY <2>1, <2>2, <3>2, <3>3 DEF ViewOf
  <2> QED
    BY <2>3, <2>4
<1>15. w.cleared \/ w.layouts = w.proxy
  <2> SUFFICES ASSUME ~u.cleared PROVE w.layouts = w.proxy
    BY <1>2
  <2>1. w.layouts = PushFront(p, Fitting(p, K))
    BY <1>2, <1>3 DEF Good
  <2>2. Len(p) + Len(Fitting(p, K)) <= Limit /\ Len(Fitting(p, K)) \in Nat
    BY <1>1, <1>2, FittingFacts
  <2>3. Fitting(p, Fitting(p, K)) = Fitting(p, K)
    <3> DEFINE g == Fitting(p, K)
    <3>3. Len(p) + Len(g) <= Limit /\ Len(g) \in Nat
      BY <2>2
    <3> HIDE DEF g
    <3>1. Len(g) <= Limit - Len(p)
      BY <1>4, <3>3
    <3>2. Fitting(p, g) = g
      BY <3>1 DEF Fitting
    <3> QED
      BY <3>2 DEF g
  <2> QED
    BY <1>2, <2>1, <2>3 DEF PushFront
<1>16. ASSUME NEW z, LostOf(q, z, FALSE) PROVE LostOf(w.channel, z, b)
  BY <1>1, <1>2, <1>16, FrontKnown DEF LostOf
<1> QED
  BY <1>2, <1>12, <1>13, <1>14, <1>15, <1>16 DEF Good, w

--------------------------------------------------------------------------------
(* The load of a gap: the messages go where they are missing. *)

\* s is in order and holds the newest of W.
Newer(s, W) ==
    /\ Ascending(s) /\ Range(s) \subseteq W
    /\ \A x \in W : \A y \in Range(s) : y <= x => x \in Range(s)

\* The answer to a load of a gap, as a list with the filter S gets it.
FillItems(items, S, n, O) ==
    /\ items \in Seq(Server) /\ items \in Seq(Item) /\ Ascending(items)
    /\ \A j \in 1 .. Len(items) :
          /\ items[j] \in 1 .. n /\ (Named(items[j]) => items[j] \in S)
          /\ \A z \in O : z < items[j]

\* What becomes of q: it is filled, if the channel finds anything to fill in.
FillsTo(q, items, r) == r = FillIn(q, items) \/ (r = q /\ ~FillsAny(q, items))

\* No message is lost but for newer ones.
GainsFrom(q, items, S, m, b, r) ==
    /\ Known(r) \subseteq Known(q) \cup Known(items) /\ Len(q) <= Len(r)
    /\ \A z \in Known(q) \cup Known(items) :
          \/ z \in Known(r)
          \/ /\ Len(r) = Limit
             /\ ~b \/ (z \in S /\ z \notin m) => \A y \in Known(r) : z < y

\* A filled list is in order, or cut in two where it was, and lost no message but for
\* newer ones.
LEMMA FillOrder ==
    ASSUME NEW q \in Queue(Item), NEW S, NEW n \in Nat, NEW m, NEW b, NEW O,
           OrderOf(q, S, n, m, b, O), NEW items, FillItems(items, S, n, O),
           NEW r \in Queue(Item), FillsTo(q, items, r)
    PROVE  OrderOf(r, S, n, m, b, O) /\ GainsFrom(q, items, S, m, b, r)
<1> DEFINE Y == YoungOf(S, n, O)
           Z == HeardOf(S, n, m)
           more == Sofar(items, Len(items))
<1>1. PICK c \in 0 .. Len(q) : Cut(q, c) /\ (c # 0 => b /\ Split(q, c, Y, Z, O))
  BY DEF OrderOf
<1>2. /\ Known(q) \subseteq Nat /\ Known(r) \subseteq Nat /\ Len(items) \in Nat
      /\ \A y \in Known(q) : y <= n
      /\ \A y \in Known(q) : Named(y) /\ y \in 1 .. n
  <2>1. Known(q) \subseteq Nat /\ Known(r) \subseteq Nat /\ \A y \in Known(q) : y <= n
    BY CutMembers, QueueFacts DEF OrderOf
  <2>2. \A y \in Known(q) : Named(y) /\ y \in Server
    BY KnownIs, QueueFacts, NamedFacts
  <2>3. \A y \in Known(q) : Named(y) /\ y \in 1 .. n
    BY <2>1, <2>2, ItemFacts
  <2> QED
    BY <2>1, <2>3 DEF FillItems
<1>3. Known(items) = more /\ \A y \in more : \E j \in 1 .. Len(items) : y = items[j] /\ Named(y)
  <2>1. \A y : y \in Known(items) <=> Named(y) /\ \E j \in 1 .. Len(items) : items[j] = y
    BY KnownIs DEF FillItems
  <2>2. \A y \in Known(items) : y \in Server
    BY <2>1, NamedFacts
  <2> QED
    BY <2>1, <2>2 DEF Sofar
<1>4. \A y \in more : y \in 1 .. n /\ y \in S /\ Named(y) /\ y \notin O /\ \A z \in O : z < y
  <2> SUFFICES ASSUME NEW y \in more
               PROVE  y \in 1 .. n /\ y \in S /\ Named(y) /\ y \notin O /\ \A z \in O : z < y
    OBVIOUS
  <2>1. PICK j \in 1 .. Len(items) : y = items[j] /\ Named(y)
    BY <1>3
  <2>2. y \in 1 .. n /\ y \in S /\ \A z \in O : z < y
    BY <2>1 DEF FillItems
  <2>3. y \notin O
    BY <2>2
  <2> QED
    BY <2>1, <2>2, <2>3
<1>5. FillData(q, c, items, Y, Z, O)
  <2>1. \A j \in 1 .. Len(items) : Named(items[j]) => items[j] \in Y
    <3> SUFFICES ASSUME NEW j \in 1 .. Len(items), Named(items[j]) PROVE items[j] \in Y
      OBVIOUS
    <3>1. items[j] \in more
      BY NamedFacts DEF Sofar
    <3> QED
      BY <1>4, <3>1 DEF YoungOf
  <2> QED
    BY <1>1, <2>1 DEF FillData, FillItems
<1>6. FilledTo(q, c, items, Z, Len(items), r)
  BY <1>5, FillResult DEF FillsTo
<1> HIDE DEF Y, Z, more
<1>7. Known(r) \subseteq Known(q) \cup more /\ Len(q) <= Len(r)
  BY <1>6 DEF FilledTo, more
<1>8. \A y \in Known(r) : y <= n
  BY <1>2, <1>4, <1>7
<1>9. PICK d \in 0 .. Len(r) :
         /\ Cut(r, d) /\ Aft(r, d) \subseteq Aft(q, c) \cup more
         /\ d # 0 => /\ c # 0 /\ Aft(q, c) \subseteq Aft(r, d)
                     /\ Aft(r, d) \cap Fore(r, d) \subseteq Aft(q, c) \cap Fore(q, c)
  BY <1>6 DEF FilledTo, CutFrom, more
<1>10. ASSUME d # 0 PROVE b /\ Split(r, d, Y, Z, O)
  <2>1. /\ b /\ Split(q, c, Y, Z, O) /\ Aft(q, c) \subseteq Aft(r, d)
        /\ Aft(r, d) \cap Fore(r, d) \subseteq Aft(q, c) \cap Fore(q, c)
    BY <1>1, <1>9, <1>10
  <2>2. \A x \in Y : x \in Aft(r, d) \/ \A y \in Aft(r, d) \cap Fore(r, d) : y < x
    BY <2>1 DEF Split
  <2>3. ASSUME NEW z \in Z, z \notin Aft(r, d)
        PROVE  z \in O /\ \A y \in Aft(r, d) : z < y
    <3>1. z \in O /\ \A y \in Aft(q, c) : z < y
      BY <2>1, <2>3 DEF Split
    <3> QED
      BY <1>4, <1>9, <3>1
  <2> QED
    BY <2>1, <2>2, <2>3 DEF Split
<1>11. OrderOf(r, S, n, m, b, O)
  BY <1>8, <1>9, <1>10 DEF OrderOf, Y, Z
<1>12. ASSUME NEW z \in Known(q) \cup Known(items), z \notin Known(r)
       PROVE  /\ Len(r) = Limit
              /\ ~b \/ (z \in S /\ z \notin m) => \A y \in Known(r) : z < y
  <2>1. Len(r) = Limit /\ (c = 0 \/ z \in Z => \A y \in Known(r) : z < y)
    BY <1>3, <1>6, <1>12 DEF FilledTo, AllThere, more
  <2>2. ~b => c = 0
    BY <1>1
  <2>3. z \in S /\ z \notin m => z \in Z
    BY <1>2, <1>3, <1>4, <1>12 DEF HeardOf, Z
  <2> QED
    BY <2>1, <2>2, <2>3
<1> QED
  BY <1>3, <1>7, <1>11, <1>12 DEF GainsFrom

\* What is there of the messages asked for, and what the lists hold of it.
LEMMA NewerFacts ==
    ASSUME NEW n \in 0 .. MaxMessages, NEW a \in Nat, NEW e \in 0 .. n, NEW O, \A z \in O : z \in Nat /\ z <= a,
           NEW items \in Seq(Item), Newer(items, a + 1 .. e)
    PROVE  /\ FillItems(items, Item, n, O) /\ FillItems(Keep(items, Showable), Showable, n, O)
           /\ Known(Keep(items, Showable)) = Known(items) \cap Showable
           /\ Known(items) \subseteq a + 1 .. e
           /\ \A y \in Known(items) : Named(y)
           /\ \A x \in Nat : \A y \in Known(items) : Named(x) /\ y <= x /\ x <= e => x \in Known(items)
<1> DEFINE K == Keep(items, Showable)
<1>1. MaxMessages \in Nat /\ n \in Nat /\ e \in Nat /\ e <= n /\ 1 .. n \subseteq Server
  BY NumberFacts DEF Server
<1>2. /\ Ascending(items) /\ Range(items) \subseteq a + 1 .. e
      /\ \A x \in a + 1 .. e : \A y \in Range(items) : y <= x => x \in Range(items)
  BY DEF Newer
<1>3. \A j \in 1 .. Len(items) : items[j] \in Range(items)
  BY RangeIs
<1>4. \A j \in 1 .. Len(items) : items[j] \in 1 .. n /\ a < items[j]
  BY <1>1, <1>2, <1>3
<1>5. /\ Len(K) \in Nat /\ K \in Seq(Item) /\ Ascending(K)
      /\ \A i \in 1 .. Len(K) : \E j \in 1 .. Len(items) : K[i] = items[j]
  <2>1. \E q : q \in Queue(Item)
    <3>1. <<>> \in Seq(Item) /\ Len(<<>>) <= Limit
      BY LimitAssumption
    <3>2. <<>> \in Queue(Item)
      BY <3>1 DEF Queue
    <3> QED
      BY <3>2
  <2> QED
    BY <1>2, <2>1, KeepRange, KeepFacts, AscendingPart
<1>6. /\ \A i \in 1 .. Len(K) : K[i] \in Showable
      /\ Known(K) = Known(items) \cap Showable
  <2>1. Range(K) = Range(items) \cap Showable /\ Known(K) = Known(items) \cap Showable
    BY KeepRange
  <2>2. \A i \in 1 .. Len(K) : K[i] \in Range(K)
    BY <1>5, RangeIs
  <2> QED
    BY <2>1, <2>2
<1> HIDE DEF K
<1>7. FillItems(items, Item, n, O)
  <2>1. \A j \in 1 .. Len(items) : items[j] \in Server
    BY <1>1, <1>4
  <2>2. items \in Seq(Server)
    BY <2>1, SeqOfItems
  <2>3. \A j \in 1 .. Len(items) : \A z \in O : z < items[j]
    BY <1>1, <1>4
  <2>4. \A j \in 1 .. Len(items) : items[j] \in Item
    OBVIOUS
  <2> QED
    BY <1>2, <1>4, <2>2, <2>3, <2>4 DEF FillItems
<1>8. FillItems(K, Showable, n, O)
  <2>1. \A j \in 1 .. Len(K) : K[j] \in 1 .. n /\ a < K[j] /\ K[j] \in Server
    BY <1>1, <1>4, <1>5
  <2>2. K \in Seq(Server)
    BY <1>5, <2>1, SeqOfItems
  <2>3. \A j \in 1 .. Len(K) : \A z \in O : z < K[j]
    BY <1>1, <2>1
  <2> QED
    BY <1>5, <1>6, <2>1, <2>2, <2>3 DEF FillItems
<1>9. \A y : y \in Known(items) <=> Named(y) /\ y \in Range(items)
  BY DEF Known
<1>10. Known(items) \subseteq a + 1 .. e /\ \A y \in Known(items) : Named(y)
  BY <1>2, <1>9
<1>11. ASSUME NEW x \in Nat, NEW y \in Known(items), Named(x), y <= x, x <= e
       PROVE  x \in Known(items)
  <2>1. y \in Range(items) /\ y \in a + 1 .. e
    BY <1>9, <1>10
  <2>2. x \in a + 1 .. e
    BY <1>1, <1>11, <2>1
  <2>3. x \in Range(items)
    BY <1>2, <1>11, <2>1, <2>2
  <2> QED
    BY <1>9, <1>11, <2>3
<1> QED
  BY <1>6, <1>7, <1>8, <1>10, <1>11 DEF K

\* The load of a gap keeps the lists good, and each of its messages is shown or was
\* lost for newer ones, those the connection missed before included.
LEMMA GapLoad ==
    ASSUME NEW u, NEW n \in 0 .. MaxMessages, NEW m, NEW b, NEW O, Good(u, n, m, b, O),
           NEW a \in Nat, NEW e \in 0 .. n, \A z \in O : z \in Nat /\ z <= a,
           NEW items \in Seq(Item), Newer(items, a + 1 .. e), FollowOf(u, e)
    PROVE  /\ Good(Fills(u, items), n, m, b, O)
           /\ \A z \in Known(items) : LostOf(Fills(u, items).channel, z, b)
           /\ \A z \in 1 .. e : LostOf(u.channel, z, b) =>
                 z \in Known(items) \/ z \in a + 1 .. e \/ LostOf(Fills(u, items).channel, z, b)
<1> DEFINE w == Fills(u, items)
           q == u.channel
           p == u.proxy
           r == w.channel
           s == w.proxy
           K == Keep(items, Showable)
<1>1. /\ u \in Views /\ q \in Queue(Item) /\ p \in Queue(Item)
      /\ OrderOf(q, Item, n, m, b, O) /\ OrderOf(p, Showable, n, m, b, O) /\ ViewOf(u, m, b)
      /\ u.cleared \/ u.layouts = p
  BY DEF Good, Views
<1>2. n \in Nat /\ e \in Nat /\ e <= n
  BY NumberFacts
<1>3. /\ FillItems(items, Item, n, O) /\ FillItems(K, Showable, n, O)
      /\ Known(K) = Known(items) \cap Showable
      /\ Known(items) \subseteq a + 1 .. e /\ \A y \in Known(items) : Named(y)
      /\ \A x \in Nat : \A y \in Known(items) : Named(x) /\ y <= x /\ x <= e => x \in Known(items)
  BY NewerFacts
<1>4. /\ w \in Views
      /\ \/ ~FillsAny(q, items) /\ w = u
         \/ /\ r = FillIn(q, items)
            /\ \/ /\ ~FillsAny(p, K) /\ s = p
                  /\ w.layouts = u.layouts /\ w.cleared = u.cleared
               \/ s = FillIn(p, K) /\ w.layouts = s
  BY <1>1, FillsView
<1>5. r \in Queue(Item) /\ s \in Queue(Item)
  BY <1>4 DEF Views
<1> HIDE DEF w, K
<1>6. FillsTo(q, items, r) /\ (w # u => FillsTo(p, K, s))
  BY <1>4 DEF FillsTo
<1>7. OrderOf(r, Item, n, m, b, O) /\ GainsFrom(q, items, Item, m, b, r)
  BY <1>1, <1>2, <1>3, <1>5, <1>6, FillOrder
<1>13. /\ Known(r) \subseteq Known(q) \cup Known(items) /\ Len(q) <= Len(r)
      /\ \A z \in Known(q) \cup Known(items) :
            \/ z \in Known(r)
            \/ /\ Len(r) = Limit
               /\ ~b \/ (z \in Item /\ z \notin m) => \A y \in Known(r) : z < y
  BY <1>7 DEF GainsFrom
<1>8. ASSUME ~(w = u)
      PROVE  /\ OrderOf(s, Showable, n, m, b, O)
             /\ Known(s) \subseteq Known(p) \cup Known(K)
             /\ \A z \in Known(p) \cup Known(K) :
                   \/ z \in Known(s)
                   \/ ~b \/ (z \in Showable /\ z \notin m) => \A y \in Known(s) : z < y
  <2>1. OrderOf(s, Showable, n, m, b, O) /\ GainsFrom(p, K, Showable, m, b, s)
    BY <1>1, <1>2, <1>3, <1>5, <1>6, <1>8, FillOrder
  <2> QED
    BY <2>1 DEF GainsFrom
<1>9. ASSUME ~(w = u) PROVE ViewOf(w, m, b)
  <2> SUFFICES ASSUME NEW x \in Known(r), Shown(x), ~(x \in m /\ b), x \notin Known(s),
                      NEW y \in Known(s)
               PROVE  x < y
    BY DEF ViewOf
  <2>1. /\ Named(x) /\ x \in Server /\ x \in Nat /\ x \in Showable
        /\ Named(y) /\ y \in Nat /\ x # y
    BY <1>5, KnownIs, QueueFacts, NamedFacts DEF Shown
  <2>2. CASE x \in Known(p) \cup Known(K)
    BY <1>8, <1>9, <2>1, <2>2
  <2>3. CASE x \notin Known(p) \cup Known(K)
    <3>1. x \in Known(q) /\ x \notin Known(items)
      BY <1>3, <1>13, <2>1, <2>3
    <3>2. \A v \in Known(p) : x < v
      BY <1>1, <2>3, <3>1 DEF ViewOf
    <3>3. ~(e < x)
      <4> SUFFICES ASSUME e < x PROVE FALSE
        OBVIOUS
      <4>1. PICK i \in 1 .. Len(q) : q[i] = x
        BY <1>1, <3>1, KnownIs, QueueFacts
      <4>2. PICK j \in 1 .. Len(p) : p[j] = x
        BY <2>1, <4>1 DEF FollowOf, Shown
      <4>3. x \in Known(p)
        BY <1>1, <2>1, <4>2, KnownIs, QueueFacts
      <4> QED
        BY <2>3, <4>3
    <3>4. CASE y \in Known(p)
      BY <3>2, <3>4
    <3>5. CASE y \notin Known(p)
      <4>1. y \in Known(items)
        BY <1>3, <1>8, <1>9, <3>5
      <4>2. ~(y <= x)
        BY <1>2, <1>3, <2>1, <3>1, <3>3, <4>1
      <4> QED
        BY <2>1, <4>2
    <3> QED
      BY <3>4, <3>5
  <2> QED
    BY <2>2, <2>3
<1>10. Good(w, n, m, b, O)
  <2>1. CASE w = u
    BY <2>1
  <2>2. CASE ~(w = u)
    <3>1. w.cleared \/ w.layouts = s
      BY <1>1, <1>4, <2>2
    <3> QED
      BY <1>4, <1>7, <1>8, <1>9, <2>2, <3>1 DEF Good
  <2> QED
    BY <2>1, <2>2
<1>11. ASSUME NEW z \in Known(q) \cup Known(items) PROVE LostOf(r, z, b)
  BY <1>13, <1>11 DEF LostOf
<1>12. ASSUME NEW z \in 1 .. e, LostOf(q, z, b), z \notin a + 1 .. e
       PROVE  LostOf(r, z, b)
  <2>1. CASE z \in Known(q)
    BY <1>11, <2>1
  <2>2. CASE Len(q) = Limit /\ (b \/ \A y \in Known(q) : z < y)
    <3>1. Len(r) = Limit
      BY <1>1, <1>5, <1>13, <2>2, QueueFacts
    <3>2. \A y \in Known(items) : z < y
      BY <1>2, <1>3, <1>12
    <3> QED
      BY <1>13, <2>2, <3>1, <3>2 DEF LostOf
  <2> QED
    BY <1>12, <2>1, <2>2 DEF LostOf
<1> QED
  BY <1>10, <1>11, <1>12 DEF w

--------------------------------------------------------------------------------
(* The inductive invariant. *)

\* The flag is set exactly while a load is under way.
UnderWay == IF loading THEN \E l : loads = {l} ELSE loads = {}

\* What a load asks for and has been answered.
LoadInv ==
    \A l \in loads :
        /\ room
        /\ IF l.first THEN l.before = 0 /\ Ascending(l.items) /\ Ascending(l.partial)
           ELSE /\ l.after <= l.before /\ l.before <= lastConnectedAt
                /\ Newer(l.items, l.after + 1 .. l.before)
                /\ Newer(l.partial, l.after + 1 .. l.before)

\* What the connection says of the channel.
LinkInv ==
    /\ room /\ link \in {"closed", "open"} => disconnected
    /\ link = "joined" => \A x \in missed : x <= lastConnectedAt
    /\ ~room => /\ missed = {} /\ loads = {} /\ lastConnectedAt = 0 /\ ~disconnected /\ ~mixed
                /\ Known(messages) = {} /\ Known(proxy) = {}

\* The first load has not ended.
Pending == ~room \/ \E l \in loads : l.first

\* The messages no load, now or later, asks for.
Old == {z \in 0 .. log : z <= lastConnectedAt /\ \A l \in loads : l.first \/ z <= l.after}

\* The lists are good, and the first or the next load will leave them so.
ListsInv ==
    /\ Good(Lists, log, missed, mixed, Old)
    /\ Pending => ~mixed /\ PendOf(Lists, room, log, missed, lastConnectedAt)
    /\ \A l \in loads : l.first \/ FollowOf(Lists, l.before)

\* x was missed and the next load of a gap asks for it.
Away(x) == link # "joined" /\ lastConnectedAt < x

\* What was missed has a place, a load, or a cause; and what was missed after the window
\* of a load under way is still to be asked for.
LostInv ==
    \A x \in missed \ excused :
        /\ Named(x) => \/ LostOf(messages, x, mixed) \/ Away(x)
                       \/ \E l \in loads : x \in Window(l)
        /\ \A l \in loads : l.before < x => Away(x)

\* The inductive invariant.  Order alone is not inductive: a fill puts a message where it
\* belongs only because the cut, if there is one, lies before all a load may bring.
HistoryInv == TypeInv /\ UnderWay /\ LoadInv /\ LinkInv /\ ListsInv /\ LostInv

\* The loads ask for what they asked for before.
AlikeLoads ==
    /\ \A k \in loads' : \E l \in loads :
          k.first = l.first /\ k.after = l.after /\ k.before = l.before
    /\ \A l \in loads : \E k \in loads' :
          k.first = l.first /\ k.after = l.after /\ k.before = l.before

\* What the types say of numbers.
LEMMA ScalarFacts ==
    ASSUME TypeInv
    PROVE  /\ log \in Nat /\ log \in 0 .. MaxMessages /\ lastConnectedAt \in Nat
           /\ lastConnectedAt <= log /\ 1 .. log \subseteq Server
           /\ missed \subseteq 1 .. log /\ Lists \in Views
           /\ \A l \in loads : l.after \in Nat /\ l.before \in Nat /\ l.before <= log
           /\ messages \in Queue(Item) /\ proxy \in Queue(Item)
<1>1. /\ log \in Nat /\ log \in 0 .. MaxMessages /\ lastConnectedAt \in 0 .. log
      /\ missed \subseteq 1 .. log /\ Lists \in Views /\ 1 .. log \subseteq Server
  BY NumberFacts DEF TypeInv, ScalarTypes, ViewTypes, Server
<1>2. lastConnectedAt \in Nat /\ lastConnectedAt <= log
  BY <1>1
<1>3. \A l \in loads : l.after \in 0 .. log /\ l.before \in 0 .. log
  BY DEF TypeInv, LoadTypes, Record
<1> QED
  BY <1>1, <1>2, <1>3, ListsIs

\* A later time of the last connection is as good.
LEMMA PendLater ==
    ASSUME NEW u, NEW l, NEW n \in Nat, NEW m, NEW t \in Nat, PendOf(u, l, n, m, t),
           NEW t2 \in Nat, t <= t2
    PROVE  PendOf(u, l, n, m, t2)
<1>1. LiveOf(u.channel, n, m, t) => LiveOf(u.channel, n, m, t2)
  <2> SUFFICES ASSUME LiveOf(u.channel, n, m, t), NEW x \in 1 .. n, Named(x), x \notin Known(u.channel)
               PROVE  IF x \in m THEN t2 < x => \A y \in Known(u.channel) : y < x
                      ELSE x <= t2 /\ \A y \in Known(u.channel) : x < y
    BY DEF LiveOf
  <2>1. IF x \in m THEN t < x => \A y \in Known(u.channel) : y < x
        ELSE x <= t /\ \A y \in Known(u.channel) : x < y
    BY DEF LiveOf
  <2> QED
    BY <2>1
<1> QED
  BY <1>1 DEF PendOf

\* A step that leaves messages and loads alone keeps the lists' invariant,
LEMMA QuietLists ==
    ASSUME TypeInv, TypeInv', ListsInv, Steady(Lists, Lists'), UNCHANGED <<log, missed, room, mixed>>,
           AlikeLoads, lastConnectedAt <= lastConnectedAt'
    PROVE  ListsInv'
<1>1. /\ log \in Nat /\ lastConnectedAt \in Nat /\ lastConnectedAt' \in Nat
      /\ log' = log /\ missed' = missed /\ room' = room /\ mixed' = mixed
  <2>1. lastConnectedAt' \in 0 .. log' /\ log' \in 0 .. MaxMessages
    BY DEF TypeInv, ScalarTypes
  <2> QED
    BY <2>1, ScalarFacts
<1>2. Old \subseteq Old'
  <2> SUFFICES ASSUME NEW z \in 0 .. log, z <= lastConnectedAt,
                      \A l \in loads : l.first \/ z <= l.after
               PROVE  z \in 0 .. log' /\ z <= lastConnectedAt' /\ \A k \in loads' : k.first \/ z <= k.after
    BY DEF Old
  <2>1. z <= lastConnectedAt'
    BY <1>1
  <2> QED
    BY <1>1, <2>1 DEF AlikeLoads
<1>3. Good(Lists', log', missed', mixed', Old')
  <2>1. Good(Lists', log, missed, mixed, Old)
    BY <1>1 DEF ListsInv, Steady
  <2>2. \A z \in log + 1 .. log : z \in missed
    BY <1>1
  <2>3. log <= log
    BY <1>1
  <2> QED
    BY <1>1, <1>2, <2>1, <2>2, <2>3, GoodChange
<1>4. Pending' => Pending
  BY <1>1 DEF Pending, AlikeLoads
<1>5. Pending => ~mixed /\ PendOf(Lists', room, log, missed, lastConnectedAt')
  <2> SUFFICES ASSUME Pending PROVE ~mixed /\ PendOf(Lists', room, log, missed, lastConnectedAt')
    OBVIOUS
  <2>1. ~mixed /\ PendOf(Lists', room, log, missed, lastConnectedAt)
    BY <1>1 DEF ListsInv, Steady
  <2> QED
    BY <1>1, <2>1, PendLater
<1>6. ASSUME NEW k \in loads' PROVE k.first \/ FollowOf(Lists', k.before)
  <2>1. PICK l \in loads : k.first = l.first /\ k.before = l.before
    BY DEF AlikeLoads
  <2>2. l.first \/ FollowOf(Lists, l.before)
    BY DEF ListsInv
  <2> QED
    BY <2>1, <2>2 DEF Steady
<1> QED
  BY <1>1, <1>3, <1>4, <1>5, <1>6 DEF ListsInv

\* and the whole one.
LEMMA QuietStep ==
    ASSUME HistoryInv, TypeInv', UnderWay', LoadInv', LinkInv', Steady(Lists, Lists'),
           UNCHANGED <<log, missed, room, mixed>>, AlikeLoads, lastConnectedAt <= lastConnectedAt',
           excused \subseteq excused', \A x \in missed \ excused' : Away(x) => Away(x)'
    PROVE  HistoryInv'
<1>1. ListsInv'
  BY QuietLists DEF HistoryInv
<1>2. LostInv'
  <2> SUFFICES ASSUME NEW x \in missed \ excused'
               PROVE  /\ Named(x) => \/ LostOf(messages', x, mixed') \/ Away(x)'
                                     \/ \E k \in loads' : x \in Window(k)'
                      /\ \A k \in loads' : k.before < x => Away(x)'
    BY DEF LostInv
  <2>1. /\ Named(x) => \/ LostOf(messages, x, mixed) \/ Away(x) \/ \E l \in loads : x \in Window(l)
        /\ \A l \in loads : l.before < x => Away(x)
    BY DEF HistoryInv, LostInv
  <2>2. LostOf(messages, x, mixed) => LostOf(messages', x, mixed')
    <3>1. x \in 1 .. log /\ log \in Nat
      BY ScalarFacts DEF HistoryInv
    <3>2. Good(Lists, log, missed, mixed, Old)
      BY DEF HistoryInv, ListsInv
    <3>3. LostOf(Lists.channel, x, mixed) => LostOf(Lists'.channel, x, mixed)
      BY <3>1, <3>2 DEF Steady
    <3>4. Lists.channel = messages /\ Lists'.channel = messages'
      BY DEF Lists
    <3> QED
      BY <3>3, <3>4
  <2>3. (\E l \in loads : x \in Window(l)) => \E k \in loads' : x \in Window(k)'
    BY DEF AlikeLoads, Window
  <2>4. \A k \in loads' : k.before < x => Away(x)'
    BY <2>1 DEF AlikeLoads
  <2> QED
    BY <2>1, <2>2, <2>3, <2>4
<1> QED
  BY <1>1, <1>2 DEF HistoryInv

\* The channel starts empty and unknown.
LEMMA InitInv == Init => HistoryInv
<1> SUFFICES ASSUME Init PROVE HistoryInv
  OBVIOUS
<1>1. TypeInv
  BY InitType
<1>2. /\ log = 0 /\ missed = {} /\ link = "closed" /\ room = FALSE /\ disconnected = FALSE
      /\ lastConnectedAt = 0 /\ loading = FALSE /\ loads = {}
      /\ messages = <<>> /\ proxy = <<>> /\ layouts = <<>> /\ mixed = FALSE
  BY DEF Init
<1>3. Known(<<>>) = {} /\ Len(<<>>) = 0 /\ <<>> \in Queue(Item)
  <2>1. <<>> \in Seq(Item) /\ Len(<<>>) = 0
    OBVIOUS
  <2>2. ASSUME NEW x \in Known(<<>>) PROVE FALSE
    <3>1. \E i \in 1 .. Len(<<>>) : <<>>[i] = x
      BY <2>1, <2>2, KnownIs
    <3> QED
      BY <2>1, <3>1
  <2> QED
    BY <2>1, <2>2, LimitAssumption DEF Queue
<1>4. LinkInv
  BY <1>2, <1>3 DEF LinkInv
<1>5. ListsInv
  <2>1. /\ Lists.channel = <<>> /\ Lists.proxy = <<>> /\ Lists.layouts = Lists.proxy /\ Lists \in Views
    BY <1>1, <1>2 DEF Lists, TypeInv, ViewTypes
  <2>2. \A S, n, m, b, O : OrderOf(<<>>, S, n, m, b, O)
    <3>1. Cut(<<>>, 0)
      BY <1>3 DEF Cut
    <3> QED
      BY <1>3, <3>1 DEF OrderOf
  <2>3. Good(Lists, log, missed, mixed, Old)
    BY <1>3, <2>1, <2>2 DEF Good, ViewOf
  <2>4. PendOf(Lists, room, log, missed, lastConnectedAt)
    BY <1>2, <1>3, <2>1 DEF PendOf, SameOf
  <2> QED
    BY <1>2, <2>3, <2>4 DEF ListsInv
<1> QED
  BY <1>1, <1>2, <1>4, <1>5 DEF HistoryInv, UnderWay, LoadInv, LostInv

\* Steps that leave the loads alone.
LEMMA LoadsStay ==
    ASSUME HistoryInv, TypeInv', UNCHANGED <<loading, loads, room>>,
           lastConnectedAt <= lastConnectedAt'
    PROVE  UnderWay' /\ LoadInv' /\ AlikeLoads
<1>1. UnderWay' /\ AlikeLoads
  BY DEF HistoryInv, UnderWay, AlikeLoads
<1>2. lastConnectedAt \in Nat /\ lastConnectedAt' \in Nat /\ \A l \in loads : l.before \in Nat
  <2>1. lastConnectedAt' \in 0 .. log' /\ log' \in 0 .. MaxMessages
    BY DEF TypeInv, ScalarTypes
  <2> QED
    BY <2>1, ScalarFacts DEF HistoryInv
<1>3. ASSUME NEW l \in loads, l.before <= lastConnectedAt PROVE l.before <= lastConnectedAt'
  BY <1>2, <1>3
<1>4. LoadInv'
  BY <1>3 DEF HistoryInv, LoadInv
<1> QED
  BY <1>1, <1>4

\* Steps of the connection that send nothing.
LEMMA QuietConnection ==
    ASSUME HistoryInv, TypeInv', Steady(Lists, Lists'),
           UNCHANGED <<log, missed, room, mixed, loading, loads>>,
           lastConnectedAt <= lastConnectedAt', excused \subseteq excused',
           lastConnectedAt' = lastConnectedAt \/ (room /\ missed \subseteq excused'),
           room /\ link' \in {"closed", "open"} => disconnected', ~room => ~disconnected',
           link' = "joined" => link = "joined"
    PROVE  HistoryInv'
<1>1. UnderWay' /\ LoadInv' /\ AlikeLoads
  BY LoadsStay
<1>2. /\ lastConnectedAt \in Nat /\ lastConnectedAt' \in Nat /\ missed \subseteq Nat
  <2>1. lastConnectedAt' \in 0 .. log' /\ log' \in 0 .. MaxMessages
    BY DEF TypeInv, ScalarTypes
  <2>2. lastConnectedAt \in Nat /\ missed \subseteq 1 .. log
    BY ScalarFacts DEF HistoryInv
  <2> QED
    BY <2>1, <2>2
<1>3. LinkInv'
  <2>1. ASSUME link' = "joined", NEW x \in missed PROVE x <= lastConnectedAt'
    <3>1. x <= lastConnectedAt
      BY <2>1 DEF HistoryInv, LinkInv
    <3> QED
      BY <1>2, <3>1
  <2>2. ASSUME ~room
        PROVE  /\ missed = {} /\ loads = {} /\ lastConnectedAt' = 0 /\ ~mixed
               /\ Known(messages') = {} /\ Known(proxy') = {}
    <3>1. /\ missed = {} /\ loads = {} /\ lastConnectedAt = 0 /\ ~mixed
          /\ Known(messages) = {} /\ Known(proxy) = {}
      BY <2>2 DEF HistoryInv, LinkInv
    <3>2. /\ Lists.channel = messages /\ Lists.proxy = proxy
          /\ Lists'.channel = messages' /\ Lists'.proxy = proxy'
      BY DEF Lists
    <3> QED
      BY <2>2, <3>1, <3>2 DEF Steady
  <2> QED
    BY <2>1, <2>2 DEF LinkInv
<1>4. ASSUME NEW x \in missed \ excused', Away(x) PROVE Away(x)'
  BY <1>4 DEF Away
<1> QED
  BY <1>1, <1>3, <1>4, QuietStep

\* The lists as they are.
LEMMA SteadyLists ==
    ASSUME TypeInv
    PROVE  Lists \in Views /\ mixed \in BOOLEAN /\ Steady(Lists, Lists)
<1>1. Lists \in Views /\ mixed \in BOOLEAN
  BY DEF TypeInv, ViewTypes, ScalarTypes
<1> QED
  BY <1>1, SteadySame

\* The steps of the connection, one by one.
LEMMA ReadConnectedInv == ASSUME HistoryInv, TypeInv', ReadConnected PROVE HistoryInv'
<1>1. Lists \in Views /\ mixed \in BOOLEAN /\ lastConnectedAt \in Nat
  BY SteadyLists, ScalarFacts DEF HistoryInv
<1>2. Lists' = Replaces(Lists, Disconnected, Notice) \/ Lists' = Adds(Lists, Notice)
  <2>1. Replaces(Lists, Disconnected, Notice) \in Views /\ Adds(Lists, Notice) \in Views
    BY <1>1, ItemFacts, ReplacesView, AddsView
  <2> QED
    BY <1>1, <2>1, DisplayTypes DEF ReadConnected
<1>3. Steady(Lists, Lists')
  BY <1>1, <1>2, SteadyReplaces, SteadyAdds
<1>4. /\ UNCHANGED <<log, missed, room, mixed, loading, loads, excused, lastConnectedAt, disconnected>>
      /\ link = "closed" /\ link' = "open"
  BY DEF ReadConnected, Display, history, server
<1>5. room => disconnected
  BY <1>4 DEF HistoryInv, LinkInv
<1>6. ~room => ~disconnected
  BY DEF HistoryInv, LinkInv
<1> QED
  BY <1>1, <1>3, <1>4, <1>5, <1>6, QuietConnection

\* A break nobody notices keeps the invariant,
LEMMA BreakInv == ASSUME HistoryInv, TypeInv', Break PROVE HistoryInv'
<1>1. Lists' = Lists /\ Steady(Lists, Lists) /\ lastConnectedAt \in Nat
  BY SteadyLists, ScalarFacts DEF HistoryInv, Break, shown, Lists
<1>2. /\ UNCHANGED <<log, missed, room, mixed, loading, loads, excused, lastConnectedAt, disconnected>>
      /\ link' = "silent"
  BY DEF Break, shown, history, server
<1>3. ~room => ~disconnected
  BY DEF HistoryInv, LinkInv
<1> QED
  BY <1>1, <1>2, <1>3, QuietConnection

\* one that is noticed,
LEMMA OnDisconnectedInv == ASSUME HistoryInv, TypeInv', OnDisconnected PROVE HistoryInv'
<1>1. Lists \in Views /\ mixed \in BOOLEAN /\ lastConnectedAt \in Nat
  BY SteadyLists, ScalarFacts DEF HistoryInv
<1>2. Lists' = Adds(Lists, Disconnected)
  <2>1. Adds(Lists, Disconnected) \in Views
    BY <1>1, ItemFacts, AddsView
  <2> QED
    BY <1>1, <2>1, DisplayTypes DEF OnDisconnected
<1>3. Steady(Lists, Lists')
  BY <1>1, <1>2, SteadyAdds
<1>4. /\ UNCHANGED <<log, missed, room, mixed, loading, loads, excused, lastConnectedAt>>
      /\ link' = "closed" /\ disconnected' = (disconnected \/ room)
  BY DEF OnDisconnected, Display, history, server
<1>5. room => disconnected'
  BY <1>4
<1>6. ~room => ~disconnected'
  <2>1. ~room => ~disconnected
    BY DEF HistoryInv, LinkInv
  <2> QED
    BY <1>4, <2>1
<1>7. link' # "joined" /\ lastConnectedAt <= lastConnectedAt'
  BY <1>1, <1>4
<1> QED
  BY <1>3, <1>4, <1>5, <1>6, <1>7, QuietConnection

\* Setting lastConnectedAt_ may forget what was missed: what it forgets is excused.
LEMMA MarkConnectedInv ==
    ASSUME HistoryInv, TypeInv', MarkConnected
    PROVE  /\ lastConnectedAt <= lastConnectedAt' /\ excused \subseteq excused'
           /\ lastConnectedAt' = lastConnectedAt \/ (room /\ missed \subseteq excused')
<1>1. lastConnectedAt \in Nat /\ lastConnectedAt <= log
  BY ScalarFacts DEF HistoryInv
<1> QED
  BY <1>1 DEF MarkConnected

\* a reconnect that is asked for,
LEMMA ReconnectAskedInv == ASSUME HistoryInv, TypeInv', ReconnectAsked PROVE HistoryInv'
<1>1. Lists \in Views /\ mixed \in BOOLEAN
  BY SteadyLists DEF HistoryInv
<1>2. Adds(Lists, Notice) \in Views /\ Adds(Adds(Lists, Notice), Disconnected) \in Views
  BY <1>1, ItemFacts, AddsView
<1>3. Lists' = Adds(Adds(Lists, Notice), Disconnected)
  BY <1>1, <1>2, DisplayTypes DEF ReconnectAsked
<1>4. Steady(Lists, Lists')
  BY <1>1, <1>2, <1>3, SteadyAdds, SteadyTwice
<1>5. /\ UNCHANGED <<log, missed, room, mixed, loading, loads>>
      /\ link' = "closed" /\ disconnected' = (disconnected \/ room)
  BY DEF ReconnectAsked, Display, history, server
<1>6. ~room => ~disconnected
  BY DEF HistoryInv, LinkInv
<1>7. /\ lastConnectedAt <= lastConnectedAt' /\ excused \subseteq excused'
      /\ lastConnectedAt' = lastConnectedAt \/ (room /\ missed \subseteq excused')
  BY MarkConnectedInv DEF ReconnectAsked
<1> QED
  BY <1>4, <1>5, <1>6, <1>7, QuietConnection

\* the heartbeat, which excuses what it skips,
LEMMA PingTimerInv ==
    ASSUME HistoryInv, TypeInv', NEW late \in BOOLEAN, PingTimer(late) PROVE HistoryInv'
<1>1. Lists' = Lists /\ Steady(Lists, Lists) /\ lastConnectedAt \in Nat
  BY SteadyLists, ScalarFacts DEF HistoryInv, PingTimer, shown, Lists
<1>2. UNCHANGED <<log, missed, room, mixed, loading, loads, disconnected, link>>
  BY DEF PingTimer, shown, history, server
<1>3. /\ ~room => ~disconnected
      /\ room /\ link \in {"closed", "open"} => disconnected
  BY DEF HistoryInv, LinkInv
<1>4. /\ lastConnectedAt <= lastConnectedAt' /\ excused \subseteq excused'
      /\ lastConnectedAt' = lastConnectedAt \/ (room /\ missed \subseteq excused')
  <2>1. CASE late
    BY <1>1, <2>1 DEF PingTimer
  <2>2. CASE ~late
    BY <2>2, MarkConnectedInv DEF PingTimer
  <2> QED
    BY <2>1, <2>2
<1> QED
  BY <1>1, <1>2, <1>3, <1>4, QuietConnection

\* and what the user does with the view.
LEMMA ViewStepInv == ASSUME HistoryInv, TypeInv', ClearView \/ SetChannel PROVE HistoryInv'
<1>1. Lists \in Views /\ Lists' \in Views /\ lastConnectedAt \in Nat
  BY SteadyLists, ScalarFacts DEF HistoryInv, TypeInv, ViewTypes
<1>2. /\ Lists.channel = messages /\ Lists.proxy = proxy
      /\ Lists'.channel = messages' /\ Lists'.proxy = proxy'
      /\ Lists'.layouts = layouts' /\ Lists'.cleared = cleared'
  BY DEF Lists
<1>3. Steady(Lists, Lists')
  <2>1. CASE ClearView
    BY <1>1, <1>2, <2>1, SteadySame DEF ClearView
  <2>2. CASE SetChannel
    BY <1>1, <1>2, <2>2, SteadyRebuilt DEF SetChannel
  <2> QED
    BY <2>1, <2>2
<1>4. UNCHANGED <<log, missed, room, mixed, loading, loads, excused, lastConnectedAt, disconnected, link>>
  BY DEF ClearView, SetChannel, connection, history, server
<1>5. /\ ~room => ~disconnected
      /\ room /\ link \in {"closed", "open"} => disconnected
  BY DEF HistoryInv, LinkInv
<1> QED
  BY <1>1, <1>3, <1>4, <1>5, QuietConnection

\* A service that gives at most HistoryLimit messages gives the newest.
LEMMA NewestFacts ==
    ASSUME NEW n \in Nat, NEW W \in SUBSET (1 .. n)
    PROVE  /\ Newest(W) \subseteq W
           /\ \A x \in W : \A y \in Newest(W) : y <= x => x \in Newest(W)
<1>1. ASSUME NEW x \in W, NEW y \in Newest(W), y <= x PROVE x \in Newest(W)
  <2> DEFINE A == {z \in W : x < z}
             B == {z \in W : y < z}
  <2>1. x \in Nat /\ y \in Nat /\ W \subseteq Nat
    BY DEF Newest
  <2>2. A \subseteq B
    <3> SUFFICES ASSUME NEW z \in W, x < z PROVE y < z
      OBVIOUS
    <3>1. z \in Nat
      BY <2>1
    <3> QED
      BY <1>1, <2>1, <3>1
  <2>3. IsFiniteSet(B)
    <3>1. IsFiniteSet(1 .. n)
      BY FS_Interval
    <3>2. B \subseteq 1 .. n
      OBVIOUS
    <3> QED
      BY <3>1, <3>2, FS_Subset
  <2>4. Cardinality(A) <= Cardinality(B) /\ IsFiniteSet(A)
    BY <2>2, <2>3, FS_Subset
  <2>5. Cardinality(A) \in Nat /\ Cardinality(B) \in Nat /\ HistoryLimit \in Nat
    BY <2>3, <2>4, FS_CardinalityType, NumberFacts
  <2>6. Cardinality(B) < HistoryLimit
    BY DEF Newest
  <2>7. Cardinality(A) < HistoryLimit
    BY <2>4, <2>5, <2>6
  <2> QED
    BY <2>7 DEF Newest
<1> QED
  BY <1>1 DEF Newest

\* An empty answer.
LEMMA NoItems ==
    /\ <<>> \in Seq(Item) /\ Ascending(<<>>) /\ \A W : Newer(<<>>, W)
<1>1. <<>> \in Seq(Item) /\ Len(<<>>) = 0
  OBVIOUS
<1>2. Ascending(<<>>)
  BY <1>1 DEF Ascending
<1>3. Range(<<>>) = {}
  <2> SUFFICES ASSUME NEW x \in Range(<<>>) PROVE FALSE
    OBVIOUS
  <2>1. \E i \in 1 .. Len(<<>>) : <<>>[i] = x
    BY <1>1, RangeIs
  <2> QED
    BY <1>1, <2>1
<1> QED
  BY <1>1, <1>2, <1>3 DEF Newer

\* The load under way is replaced by one that asks for the same.
LEMMA LoadGoesOn ==
    ASSUME HistoryInv, TypeInv', Steady(Lists, Lists'), NEW l \in loads, NEW k,
           loads' = {k}, k.first = l.first, k.after = l.after, k.before = l.before,
           UNCHANGED <<loading, connection, server, mixed, excused>>,
           IF l.first THEN Ascending(k.items) /\ Ascending(k.partial)
           ELSE /\ Newer(k.items, l.after + 1 .. l.before)
                /\ Newer(k.partial, l.after + 1 .. l.before)
    PROVE  HistoryInv'
<1>1. loading /\ loads = {l}
  BY DEF HistoryInv, UnderWay
<1>2. UnderWay' /\ AlikeLoads
  BY <1>1 DEF UnderWay, AlikeLoads
<1>3. /\ UNCHANGED <<link, room, disconnected, lastConnectedAt, log, missed, mixed, excused>>
      /\ lastConnectedAt \in Nat
  BY ScalarFacts DEF connection, server, HistoryInv
<1>4. room /\ (l.first => l.before = 0) /\ (~l.first => l.after <= l.before /\ l.before <= lastConnectedAt)
  BY DEF HistoryInv, LoadInv
<1>5. LoadInv'
  BY <1>3, <1>4 DEF LoadInv
<1>6. LinkInv'
  BY <1>3, <1>4 DEF HistoryInv, LinkInv
<1>7. \A x \in missed \ excused' : Away(x) => Away(x)'
  BY <1>3 DEF Away
<1>8. lastConnectedAt <= lastConnectedAt' /\ excused \subseteq excused'
  BY <1>3
<1> QED
  BY <1>2, <1>3, <1>5, <1>6, <1>7, <1>8, QuietStep

\* A service answers.
LEMMA AnswerInv ==
    ASSUME HistoryInv, TypeInv', NEW l \in loads, NEW phase \in {"complete", "partial"},
           NEW S \in SUBSET Window(l), \A x \in Window(l) : \A y \in S : y <= x => x \in S,
           Answer(l, phase, S)
    PROVE  HistoryInv'
<1> DEFINE k == [l EXCEPT !.phase = phase, !.items = InTime(S)]
<1>1. loads = {l}
  BY DEF HistoryInv, UnderWay
<1>2. /\ l \in Record(log) /\ Window(l) \subseteq 1 .. log /\ 1 .. log \subseteq Server
  BY WindowTypes DEF HistoryInv
<1>3. /\ k.first = l.first /\ k.after = l.after /\ k.before = l.before
      /\ k.items = InTime(S) /\ k.partial = l.partial
  BY <1>2 DEF Record
<1>4. loads' = {k} /\ UNCHANGED <<loading, connection, server, mixed, excused>>
  BY <1>1 DEF Answer, shown
<1>5. Lists' = Lists /\ Steady(Lists, Lists)
  BY SteadyLists DEF Answer, shown, Lists, HistoryInv
<1>6. /\ Ascending(InTime(S)) /\ Range(InTime(S)) = S
  BY <1>2, InTimeFacts
<1>7. IF l.first THEN Ascending(k.items) /\ Ascending(k.partial)
      ELSE /\ Newer(k.items, l.after + 1 .. l.before)
           /\ Newer(k.partial, l.after + 1 .. l.before)
  <2>1. IF l.first THEN Ascending(l.partial) ELSE Newer(l.partial, l.after + 1 .. l.before)
    BY DEF HistoryInv, LoadInv
  <2>2. ~l.first => Window(l) = l.after + 1 .. l.before
    BY DEF Window
  <2>3. ~l.first => Newer(InTime(S), l.after + 1 .. l.before)
    BY <1>6, <2>2 DEF Newer
  <2> QED
    BY <1>3, <1>6, <2>1, <2>3
<1> HIDE DEF k
<1> QED
  BY <1>3, <1>4, <1>5, <1>7, LoadGoesOn

\* What a load has kept of a partial answer is of its window.
LEMMA KeptFacts ==
    ASSUME HistoryInv, NEW l \in loads
    PROVE  /\ l \in Record(log) /\ Kept(l) \in Seq(Item) /\ l.items \in Seq(Item)
           /\ IF l.first
              THEN /\ Ascending(Kept(l)) /\ Ascending(l.items)
                   /\ \A i \in 1 .. Len(Kept(l)) : Kept(l)[i] \in 1 .. log
                   /\ \A i \in 1 .. Len(l.items) : l.items[i] \in 1 .. log
              ELSE /\ Newer(Kept(l), l.after + 1 .. l.before)
                   /\ Newer(l.items, l.after + 1 .. l.before)
<1>1. /\ l \in Record(log)
      /\ l.items \in Seq(1 .. log) /\ l.partial \in Seq(1 .. log)
      /\ l.items \in Seq(Item) /\ l.partial \in Seq(Item)
  BY WindowTypes DEF HistoryInv
<1>2. IF l.first THEN Ascending(l.items) /\ Ascending(l.partial)
      ELSE Newer(l.items, l.after + 1 .. l.before) /\ Newer(l.partial, l.after + 1 .. l.before)
  BY DEF HistoryInv, LoadInv
<1>3. /\ \A i \in 1 .. Len(l.items) : l.items[i] \in 1 .. log
      /\ \A i \in 1 .. Len(l.partial) : l.partial[i] \in 1 .. log
  <2>1. ASSUME NEW T, NEW s \in Seq(T), NEW i \in 1 .. Len(s) PROVE s[i] \in T
    OBVIOUS
  <2> QED
    BY <1>1, <2>1
<1>4. CASE Kept(l) = l.items
  BY <1>1, <1>2, <1>3, <1>4
<1>5. CASE Kept(l) = l.partial
  BY <1>1, <1>2, <1>3, <1>5
<1> QED
  BY <1>4, <1>5 DEF Kept

\* When a service fails or answers in part, the next is asked for the same messages.
LEMMA AskNextInv == ASSUME HistoryInv, TypeInv', NEW l \in loads, AskNext(l) PROVE HistoryInv'
<1> DEFINE k == [l EXCEPT !.phase = "asked", !.provider = @ + 1, !.partial = Kept(l), !.items = <<>>]
<1>1. loads = {l} /\ Lists \in Views /\ mixed \in BOOLEAN
  BY SteadyLists DEF HistoryInv, UnderWay
<1>2. l \in Record(log)
  BY KeptFacts
<1>3. /\ k.first = l.first /\ k.after = l.after /\ k.before = l.before
      /\ k.items = <<>> /\ k.partial = Kept(l)
  BY <1>2 DEF Record
<1>4. loads' = {k} /\ UNCHANGED <<loading, connection, server, mixed, excused>>
  BY <1>1 DEF AskNext, Display
<1>5. Steady(Lists, Lists')
  <2>1. Adds(Lists, Notice) \in Views
    BY <1>1, ItemFacts, AddsView
  <2>2. Lists' = Adds(Lists, Notice)
    BY <1>1, <2>1, DisplayTypes DEF AskNext
  <2> QED
    BY <1>1, <2>2, SteadyAdds
<1>6. IF l.first THEN Ascending(k.items) /\ Ascending(k.partial)
      ELSE /\ Newer(k.items, l.after + 1 .. l.before)
           /\ Newer(k.partial, l.after + 1 .. l.before)
  BY <1>3, KeptFacts, NoItems
<1> HIDE DEF k
<1> QED
  BY <1>3, <1>4, <1>5, <1>6, LoadGoesOn

\* The room becomes known, and the first load begins.
LEMMA NoteRoomInv ==
    ASSUME HistoryInv, TypeInv', ~room, NoteRoom(log'), log <= log', link' = "joined",
           UNCHANGED <<missed, mixed>>, Good(Lists', log', missed, mixed, Old),
           PendOf(Lists', FALSE, log', missed, lastConnectedAt),
           \A x \in 1 .. log' : Named(x) /\ x \notin Known(messages') =>
               \A y \in Known(messages') : x < y
    PROVE  HistoryInv'
<1>1. /\ missed = {} /\ missed' = {} /\ loads = {} /\ ~mixed /\ ~mixed' /\ ~loading
  BY DEF HistoryInv, LinkInv, UnderWay
<1>2. /\ log \in Nat /\ log' \in Nat /\ lastConnectedAt' = log' /\ lastConnectedAt \in Nat
      /\ room' = TRUE /\ disconnected' = FALSE
  <2>1. log' \in 0 .. MaxMessages
    BY DEF TypeInv, ScalarTypes
  <2> QED
    BY <2>1, ScalarFacts DEF NoteRoom, HistoryInv
<1> DEFINE k == Load(TRUE, 0, 0)
<1>3. loading' = TRUE /\ loads' = {k}
  BY <1>1 DEF NoteRoom, StartLoad
<1>4. k.first = TRUE /\ k.before = 0 /\ k.items = <<>> /\ k.partial = <<>>
  BY DEF Load
<1> HIDE DEF k
<1>5. UnderWay'
  BY <1>3 DEF UnderWay
<1>6. LoadInv'
  BY <1>2, <1>3, <1>4, NoItems DEF LoadInv
<1>7. LinkInv'
  BY <1>1, <1>2 DEF LinkInv
<1>8. Old \subseteq Old'
  <2> SUFFICES ASSUME NEW z \in 0 .. log
               PROVE  z \in 0 .. log' /\ z <= lastConnectedAt' /\ \A l \in loads' : l.first \/ z <= l.after
    BY DEF Old
  <2> QED
    BY <1>2, <1>3, <1>4
<1>9. Good(Lists', log', missed', mixed', Old')
  <2>1. log' <= log'
    BY <1>2
  <2> QED
    BY <1>1, <1>2, <1>8, <2>1, GoodChange
<1>10. PendOf(Lists', room', log', missed', lastConnectedAt')
  <2>1. Lists'.channel = messages'
    BY DEF Lists
  <2>2. LiveOf(Lists'.channel, log', missed', log')
    <3> SUFFICES ASSUME NEW x \in 1 .. log', Named(x), x \notin Known(messages')
                 PROVE  x <= log' /\ \A y \in Known(messages') : x < y
      BY <1>1, <2>1 DEF LiveOf
    <3> QED
      BY <1>2
  <2> QED
    BY <1>2, <2>2 DEF PendOf
<1>11. ListsInv'
  BY <1>1, <1>3, <1>4, <1>9, <1>10 DEF ListsInv
<1>12. LostInv'
  BY <1>1 DEF LostInv
<1> QED
  BY <1>5, <1>6, <1>7, <1>11, <1>12 DEF HistoryInv

\* The ROOMSTATE of a channel starts its first load.
LEMMA RoomStateInv == ASSUME HistoryInv, TypeInv', RoomState PROVE HistoryInv'
<1>1. Lists' = Lists /\ UNCHANGED <<log, missed, mixed>> /\ log \in Nat /\ log <= log'
  BY ScalarFacts DEF RoomState, shown, server, Lists, HistoryInv
<1>2. ~room /\ link' = "joined" /\ NoteRoom(log')
  BY <1>1 DEF RoomState
<1>3. Good(Lists', log', missed, mixed, Old) /\ PendOf(Lists', FALSE, log', missed, lastConnectedAt)
  BY <1>1, <1>2 DEF HistoryInv, ListsInv, Pending, PendOf
<1>4. Known(messages') = {}
  BY <1>2 DEF HistoryInv, LinkInv, RoomState, shown
<1> QED
  BY <1>1, <1>2, <1>3, <1>4, NoteRoomInv

\* A message sent while nobody listens.
LEMMA PendGrows ==
    ASSUME NEW u \in Views, NEW l, NEW n \in Nat, NEW m, NEW t \in Nat, PendOf(u, l, n, m, t),
           \A y \in Known(u.channel) : y <= n, NEW m2, l => m2 = m \cup {n + 1}
    PROVE  PendOf(u, l, n + 1, m2, t)
<1>1. ASSUME l, LiveOf(u.channel, n, m, t) PROVE LiveOf(u.channel, n + 1, m2, t)
  <2> SUFFICES ASSUME NEW x \in 1 .. n + 1, Named(x), x \notin Known(u.channel)
               PROVE  IF x \in m2 THEN t < x => \A y \in Known(u.channel) : y < x
                      ELSE x <= t /\ \A y \in Known(u.channel) : x < y
    BY DEF LiveOf
  <2>1. Known(u.channel) \subseteq Nat /\ m2 = m \cup {n + 1}
    BY <1>1, CutMembers, QueueFacts DEF Views
  <2>2. CASE x = n + 1
    BY <2>1, <2>2
  <2>3. CASE x # n + 1
    <3>1. x \in 1 .. n /\ (x \in m2 <=> x \in m)
      BY <2>1, <2>3
    <3> QED
      BY <1>1, <3>1 DEF LiveOf
  <2> QED
    BY <2>2, <2>3
<1> QED
  BY <1>1 DEF PendOf

\* Only the number of messages sent has grown.
LEMMA ChatOld ==
    ASSUME HistoryInv, TypeInv', log' = log + 1, UNCHANGED <<room, loading, loads, lastConnectedAt>>
    PROVE  /\ log \in Nat /\ lastConnectedAt \in Nat /\ UnderWay' /\ LoadInv'
           /\ Old \subseteq Old' /\ Pending' = Pending
           /\ \A l \in loads : \A x : x \in Window(l) => x \in Window(l)'
<1>1. log \in Nat /\ lastConnectedAt \in Nat /\ lastConnectedAt <= lastConnectedAt'
  BY ScalarFacts DEF HistoryInv
<1>2. UnderWay' /\ LoadInv'
  BY <1>1, LoadsStay
<1>3. Old \subseteq Old'
  BY <1>1 DEF Old
<1>4. \A l \in loads : \A x : x \in Window(l) => x \in Window(l)'
  BY <1>1 DEF Window
<1> QED
  BY <1>1, <1>2, <1>3, <1>4 DEF Pending

\* A message that does not get here is missed from now on.
LEMMA ChatMissedInv == ASSUME HistoryInv, TypeInv', Chat, link # "joined" PROVE HistoryInv'
<1>1. /\ log' = log + 1 /\ missed' = IF room THEN missed \cup {log + 1} ELSE missed
      /\ UNCHANGED <<room, disconnected, lastConnectedAt, loading, loads, link, excused,
                     messages, proxy, layouts, cleared, mixed>>
  BY DEF Chat, shown
<1>2. /\ log \in Nat /\ lastConnectedAt \in Nat /\ UnderWay' /\ LoadInv'
      /\ Old \subseteq Old' /\ Pending' = Pending
      /\ \A l \in loads : \A x : x \in Window(l) => x \in Window(l)'
  BY <1>1, ChatOld
<1>3. LinkInv'
  BY <1>1 DEF HistoryInv, LinkInv
<1>4. Lists' = Lists /\ Lists \in Views
  BY <1>1, SteadyLists DEF Lists, HistoryInv
<1>5. Good(Lists', log', missed', mixed', Old')
  <2>1. mixed => room
    BY DEF HistoryInv, LinkInv
  <2>2. missed \subseteq missed' /\ (mixed => \A z \in log + 1 .. log + 1 : z \in missed')
    BY <1>1, <1>2, <2>1
  <2>3. Good(Lists, log, missed, mixed, Old)
    BY DEF HistoryInv, ListsInv
  <2>4. log + 1 \in Nat /\ log <= log + 1
    BY <1>2
  <2> QED
    BY <1>1, <1>2, <1>4, <2>2, <2>3, <2>4, GoodChange
<1>6. ASSUME Pending PROVE ~mixed' /\ PendOf(Lists', room', log', missed', lastConnectedAt')
  <2>1. ~mixed /\ PendOf(Lists, room, log, missed, lastConnectedAt)
    BY <1>6 DEF HistoryInv, ListsInv
  <2>2. \A y \in Known(Lists.channel) : y <= log
    BY DEF HistoryInv, ListsInv, Good, OrderOf
  <2> QED
    BY <1>1, <1>2, <1>4, <2>1, <2>2, PendGrows
<1>7. ListsInv'
  BY <1>1, <1>2, <1>4, <1>5, <1>6 DEF HistoryInv, ListsInv
<1>8. LostInv'
  <2> SUFFICES ASSUME NEW x \in missed' \ excused
               PROVE  /\ Named(x) => \/ LostOf(messages', x, mixed') \/ Away(x)'
                                     \/ \E l \in loads' : x \in Window(l)'
                      /\ \A l \in loads' : l.before < x => Away(x)'
    BY <1>1 DEF LostInv
  <2>1. CASE x \in missed
    <3>1. /\ Named(x) => \/ LostOf(messages, x, mixed) \/ Away(x)
                         \/ \E l \in loads : x \in Window(l)
          /\ \A l \in loads : l.before < x => Away(x)
      BY <2>1, <1>1 DEF HistoryInv, LostInv
    <3>2. Away(x) => Away(x)'
      BY <1>1 DEF Away
    <3> QED
      BY <1>1, <1>2, <3>1, <3>2
  <2>2. CASE x \notin missed
    <3>1. x = log + 1 /\ lastConnectedAt <= log
      BY <1>1, <2>2, ScalarFacts DEF HistoryInv
    <3>2. Away(x)'
      BY <1>1, <1>2, <3>1 DEF Away
    <3> QED
      BY <3>2
  <2> QED
    BY <2>1, <2>2
<1> QED
  BY <1>2, <1>3, <1>7, <1>8 DEF HistoryInv

\* A message without an id at the end.
LEMMA PushUnnamed ==
    ASSUME NEW q \in Queue(Item), Known(q) = {}, NEW x \in Item
    PROVE  \A y \in Known(PushBack(q, x)) : y = x /\ Named(x)
<1>1. PushBack(q, x) \in Queue(Item)
  BY PushBackFacts
<1> SUFFICES ASSUME NEW y \in Known(PushBack(q, x)) PROVE y = x /\ Named(x)
  OBVIOUS
<1>2. Named(y)
  BY <1>1, KnownIs, QueueFacts
<1> QED
  BY <1>2, PushBackFacts

\* A message received by a channel that is known,
LEMMA ChatReceivedInv ==
    ASSUME HistoryInv, TypeInv', Chat, link = "joined", room \/ ~Named(log + 1)
    PROVE  HistoryInv'
<1>1. /\ log' = log + 1
      /\ UNCHANGED <<missed, room, disconnected, lastConnectedAt, loading, loads, link, excused, mixed>>
  BY DEF Chat, Display
<1>2. /\ log \in Nat /\ lastConnectedAt \in Nat /\ UnderWay' /\ LoadInv'
      /\ Old \subseteq Old' /\ Pending' = Pending
      /\ \A l \in loads : \A x : x \in Window(l) => x \in Window(l)'
  BY <1>1, ChatOld
<1>3. /\ log + 1 \in Item /\ log + 1 \in Nat /\ Lists \in Views /\ mixed \in BOOLEAN
      /\ NewOf(log + 1, log, log + 1)
  <2>1. log' \in 0 .. MaxMessages
    BY DEF TypeInv, ScalarTypes
  <2>2. log + 1 \in Server
    BY <1>1, <1>2, <2>1, NumberFacts DEF Server
  <2> QED
    BY <1>2, <2>2, ItemFacts, SteadyLists DEF NewOf, HistoryInv
<1>4. Lists' = Adds(Lists, log + 1)
  <2>1. Adds(Lists, log + 1) \in Views
    BY <1>3, AddsView
  <2> QED
    BY <1>3, <2>1, DisplayTypes DEF Chat
<1>5. /\ Lists.channel = messages /\ Lists.proxy = proxy
      /\ Lists'.channel = messages' /\ Lists'.proxy = proxy'
      /\ messages \in Queue(Item) /\ proxy \in Queue(Item)
  BY ScalarFacts DEF Lists, HistoryInv
<1>6. /\ messages' = PushBack(messages, log + 1)
      /\ proxy' = IF Shown(log + 1) THEN PushBack(proxy, log + 1) ELSE proxy
  BY <1>3, <1>4, <1>5, AddsView
<1>7. Good(Lists, log, missed, mixed, Old)
  BY DEF HistoryInv, ListsInv
<1>8. Good(Lists', log', missed', mixed', Old')
  <2>1. Good(Lists', log + 1, missed, mixed, Old)
    BY <1>2, <1>3, <1>4, <1>7, GoodAdds
  <2>2. log + 1 <= log + 1 /\ \A z \in log + 1 + 1 .. log + 1 : z \in missed
    BY <1>2
  <2> QED
    BY <1>1, <1>2, <1>3, <2>1, <2>2, GoodChange
<1>9. ASSUME Pending PROVE ~mixed' /\ PendOf(Lists', room', log', missed', lastConnectedAt')
  <2>1. ~mixed /\ PendOf(Lists, room, log, missed, lastConnectedAt)
    BY <1>9 DEF HistoryInv, ListsInv
  <2>2. \A y \in missed : y <= lastConnectedAt
    BY DEF HistoryInv, LinkInv
  <2>3. PendOf(Adds(Lists, log + 1), room, log + 1, missed, lastConnectedAt)
    BY <1>2, <1>3, <2>1, <2>2, PendAdds
  <2> QED
    BY <1>1, <1>4, <2>1, <2>3
<1>10. ASSUME NEW l \in loads PROVE l.first \/ FollowOf(Lists', l.before)
  <2>1. l.first \/ FollowOf(Lists, l.before)
    BY DEF HistoryInv, ListsInv
  <2> QED
    BY <1>3, <1>4, <2>1, FollowAdds
<1>11. ListsInv'
  BY <1>1, <1>2, <1>8, <1>9, <1>10 DEF ListsInv
<1>12. LinkInv'
  <2>1. ASSUME ~room PROVE Known(messages') = {} /\ Known(proxy') = {}
    <3>1. Known(messages) = {} /\ Known(proxy) = {} /\ ~Named(log + 1)
      BY <2>1 DEF HistoryInv, LinkInv
    <3>2. \A y : y \notin Known(PushBack(messages, log + 1)) /\ y \notin Known(PushBack(proxy, log + 1))
      BY <1>3, <1>5, <3>1, PushUnnamed
    <3> QED
      BY <1>6, <3>1, <3>2
  <2> QED
    BY <1>1, <2>1 DEF HistoryInv, LinkInv
<1>13. LostInv'
  <2> SUFFICES ASSUME NEW x \in missed \ excused
               PROVE  /\ Named(x) => \/ LostOf(messages', x, mixed') \/ Away(x)'
                                     \/ \E l \in loads' : x \in Window(l)'
                      /\ \A l \in loads' : l.before < x => Away(x)'
    BY <1>1 DEF LostInv
  <2>1. /\ Named(x) => \/ LostOf(messages, x, mixed) \/ Away(x) \/ \E l \in loads : x \in Window(l)
        /\ \A l \in loads : l.before < x => Away(x)
    BY DEF HistoryInv, LostInv
  <2>2. Away(x) => Away(x)'
    BY <1>1 DEF Away
  <2>3. LostOf(messages, x, mixed) => LostOf(messages', x, mixed')
    <3>1. OrderOf(messages, Item, log, missed, mixed, Old) /\ x \in 1 .. log
      BY <1>5, <1>7, ScalarFacts DEF Good, HistoryInv
    <3> QED
      BY <1>1, <1>2, <1>3, <1>5, <1>6, <3>1, LostPush
  <2> QED
    BY <1>1, <1>2, <2>1, <2>2, <2>3
<1> QED
  BY <1>2, <1>11, <1>12, <1>13 DEF HistoryInv

\* and one that makes it known.
LEMMA ChatFirstInv ==
    ASSUME HistoryInv, TypeInv', Chat, link = "joined", ~room, Named(log + 1)
    PROVE  HistoryInv'
<1>1. /\ log' = log + 1 /\ NoteRoom(log') /\ UNCHANGED <<missed, mixed, link>>
      /\ missed = {} /\ link' = "joined"
  BY DEF Chat, Display, HistoryInv, LinkInv
<1>2. log \in Nat /\ log <= log' /\ lastConnectedAt \in Nat
  BY <1>1, ScalarFacts DEF HistoryInv
<1>3. /\ log + 1 \in Item /\ log + 1 \in Nat /\ Lists \in Views /\ mixed \in BOOLEAN
      /\ NewOf(log + 1, log, log + 1)
  BY <1>2, NamedFacts, SteadyLists DEF NewOf, HistoryInv
<1>4. Lists' = Adds(Lists, log + 1)
  <2>1. Adds(Lists, log + 1) \in Views
    BY <1>3, AddsView
  <2> QED
    BY <1>3, <2>1, DisplayTypes DEF Chat
<1>5. Good(Lists', log', missed, mixed, Old)
  <2>1. Good(Lists, log, missed, mixed, Old)
    BY DEF HistoryInv, ListsInv
  <2> QED
    BY <1>1, <1>2, <1>3, <1>4, <2>1, GoodAdds
<1>6. PendOf(Lists', FALSE, log', missed, lastConnectedAt)
  <2>1. PendOf(Lists, FALSE, log, missed, lastConnectedAt)
    BY DEF HistoryInv, ListsInv, Pending, PendOf
  <2>2. PendOf(Adds(Lists, log + 1), FALSE, log + 1, missed, lastConnectedAt)
    BY <1>2, <1>3, <2>1, PendAdds
  <2> QED
    BY <1>1, <1>4, <2>2
<1>7. ASSUME NEW x \in 1 .. log', Named(x), x \notin Known(messages'), NEW y \in Known(messages')
      PROVE  x < y
  <2>1. messages \in Queue(Item) /\ Known(messages) = {} /\ messages' = PushBack(messages, log + 1)
    <3>1. Lists.channel = messages /\ Lists'.channel = messages'
      BY DEF Lists
    <3> QED
      BY <1>3, <1>4, <3>1, AddsView, ScalarFacts DEF HistoryInv, LinkInv
  <2>2. y = log + 1
    BY <1>3, <1>7, <2>1, PushUnnamed
  <2>3. log + 1 \in Known(messages')
    BY <1>3, <2>1, PushBackFacts
  <2> QED
    BY <1>1, <1>2, <1>7, <2>2, <2>3
<1> QED
  BY <1>1, <1>2, <1>5, <1>6, <1>7, NoteRoomInv

\* So a message of the server keeps the invariant, got here or not.
LEMMA ChatInv == ASSUME HistoryInv, TypeInv', Chat PROVE HistoryInv'
BY ChatMissedInv, ChatReceivedInv, ChatFirstInv

\* The JOIN after a break starts the load of its gap, or excuses what none will bring.
LEMMA JoinMessageInv == ASSUME HistoryInv, TypeInv', JoinMessage PROVE HistoryInv'
<1>1. /\ link = "open" /\ link' = "joined"
      /\ UNCHANGED <<room, log, missed, mixed>>
      /\ room <=> disconnected
  BY DEF JoinMessage, Display, server, HistoryInv, LinkInv
<1>2. /\ log \in Nat /\ lastConnectedAt \in Nat /\ lastConnectedAt <= log
      /\ missed \subseteq 1 .. log /\ Lists \in Views /\ mixed \in BOOLEAN
      /\ lastConnectedAt' \in Nat /\ lastConnectedAt <= lastConnectedAt'
  BY ScalarFacts, SteadyLists DEF HistoryInv, JoinMessage
<1>3. Steady(Lists, Lists')
  <2>1. Adds(Lists, Notice) \in Views
    BY <1>2, ItemFacts, AddsView
  <2>2. Lists' = Adds(Lists, Notice)
    BY <1>2, <2>1, DisplayTypes DEF JoinMessage
  <2> QED
    BY <1>2, <2>2, SteadyAdds
<1>4. CASE ~disconnected
  <2>1. UNCHANGED <<loading, loads, excused, lastConnectedAt, disconnected>> /\ ~room
    BY <1>1, <1>4 DEF JoinMessage
  <2>2. /\ missed = {} /\ loads = {} /\ lastConnectedAt = 0 /\ ~mixed
        /\ Known(messages) = {} /\ Known(proxy) = {}
    BY <2>1 DEF HistoryInv, LinkInv
  <2>3. UnderWay' /\ LoadInv' /\ AlikeLoads
    BY <1>1, <1>2, <2>1, LoadsStay
  <2>4. Known(messages') = {} /\ Known(proxy') = {}
    <3>1. /\ Lists.channel = messages /\ Lists.proxy = proxy
          /\ Lists'.channel = messages' /\ Lists'.proxy = proxy'
      BY DEF Lists
    <3> QED
      BY <1>3, <2>2, <3>1 DEF Steady
  <2>5. LinkInv'
    BY <1>1, <1>4, <2>1, <2>2, <2>4 DEF LinkInv
  <2> QED
    BY <1>1, <1>2, <1>3, <2>1, <2>2, <2>3, <2>5, QuietStep
<1>5. ASSUME disconnected PROVE LinkInv' /\ lastConnectedAt' = log /\ room
  <2>1. room /\ lastConnectedAt' = log
    BY <1>1, <1>5 DEF JoinMessage
  <2>2. \A x \in missed : x <= log
    BY <1>2
  <2> QED
    BY <1>1, <2>1, <2>2 DEF LinkInv
<1>6. CASE disconnected /\ loading
  <2>1. /\ UNCHANGED <<loading, loads>>
        /\ excused' = excused \cup (missed \cap lastConnectedAt + 1 .. log)
    BY <1>6 DEF JoinMessage, LoadGap, StartLoad
  <2>2. UnderWay' /\ LoadInv' /\ AlikeLoads
    BY <1>1, <1>2, <2>1, LoadsStay
  <2>3. \A x \in missed \ excused' : ~Away(x)
    BY <1>2, <2>1 DEF Away
  <2> QED
    BY <1>1, <1>2, <1>3, <1>5, <1>6, <2>1, <2>2, <2>3, QuietStep
<1>7. CASE disconnected /\ ~loading
  <2> DEFINE k == Load(FALSE, lastConnectedAt, log)
  <2>1. loads = {}
    BY <1>7 DEF HistoryInv, UnderWay
  <2>2. loading' = TRUE /\ loads' = {k} /\ excused' = excused
    BY <1>7, <2>1 DEF JoinMessage, LoadGap, StartLoad
  <2>3. /\ loads' = {k} /\ k.first = FALSE /\ k.after = lastConnectedAt /\ k.before = log
        /\ k.items = <<>> /\ k.partial = <<>>
    BY <2>2 DEF Load
  <2> HIDE DEF k
  <2>4. PICK l : /\ loads' = {l} /\ l.first = FALSE /\ l.after = lastConnectedAt /\ l.before = log
                 /\ l.items = <<>> /\ l.partial = <<>>
    BY <2>3
  <2>5. UnderWay'
    BY <2>2, <2>4 DEF UnderWay
  <2>6. LoadInv'
    <3>1. room' /\ lastConnectedAt' = log
      BY <1>1, <1>5, <1>7
    <3> QED
      <4>1. l.after <= l.before /\ l.before <= lastConnectedAt'
        BY <1>2, <2>4, <3>1
      <4>2. Newer(l.items, l.after + 1 .. l.before) /\ Newer(l.partial, l.after + 1 .. l.before)
        BY <2>4, NoItems
      <4> QED
        BY <2>4, <3>1, <4>1, <4>2 DEF LoadInv
  <2>7. Old \subseteq Old'
    <3> SUFFICES ASSUME NEW z \in 0 .. log, z <= lastConnectedAt
                 PROVE  z \in 0 .. log' /\ z <= lastConnectedAt' /\ \A j \in loads' : j.first \/ z <= j.after
      BY DEF Old
    <3>1. z \in 0 .. log' /\ z <= lastConnectedAt'
      BY <1>1, <1>2, <1>5, <1>7
    <3> QED
      BY <2>4, <3>1
  <2>8. Good(Lists', log', missed', mixed', Old')
    <3>1. Good(Lists', log, missed, mixed, Old)
      BY <1>2, <1>3 DEF HistoryInv, ListsInv, Steady
    <3>2. log <= log /\ \A z \in log + 1 .. log : z \in missed
      BY <1>2
    <3> QED
      BY <1>1, <1>2, <2>7, <3>1, <3>2, GoodChange
  <2>9. FollowOf(Lists', log)
    <3>1. \A y \in Known(Lists'.channel) : y <= log
      BY <1>1, <2>8 DEF Good, OrderOf
    <3>2. Lists'.channel \in Queue(Item)
      BY <2>8 DEF Good, Views
    <3>3. \A i \in 1 .. Len(Lists'.channel) : Named(Lists'.channel[i]) =>
              Lists'.channel[i] \in Known(Lists'.channel)
      BY <3>2, KnownIs, QueueFacts
    <3> SUFFICES ASSUME NEW i \in 1 .. Len(Lists'.channel), Named(Lists'.channel[i]),
                        log < Lists'.channel[i]
                 PROVE  FALSE
      BY DEF FollowOf
    <3>4. Lists'.channel[i] <= log /\ Lists'.channel[i] \in Nat
      BY <3>1, <3>3, NamedFacts
    <3> QED
      BY <1>2, <3>4
  <2>10. ~Pending'
    BY <1>1, <1>5, <1>7, <2>4 DEF Pending
  <2>11. ListsInv'
    BY <2>4, <2>8, <2>9, <2>10 DEF ListsInv
  <2>12. LostInv'
    <3> SUFFICES ASSUME NEW x \in missed \ excused
                 PROVE  /\ Named(x) => LostOf(messages', x, mixed') \/ x \in Window(l)'
                        /\ ~(l.before < x)
      BY <1>1, <2>2, <2>4 DEF LostInv
    <3>1. Named(x) => LostOf(messages, x, mixed) \/ Away(x)
      BY <2>1 DEF HistoryInv, LostInv
    <3>2. x \in 1 .. log
      BY <1>2
    <3>3. Away(x) => x \in Window(l)'
      BY <1>2, <2>4, <3>2 DEF Away, Window
    <3>4. LostOf(messages, x, mixed) => LostOf(messages', x, mixed')
      <4>1. Good(Lists, log, missed, mixed, Old)
        BY DEF HistoryInv, ListsInv
      <4>2. LostOf(Lists.channel, x, mixed) => LostOf(Lists'.channel, x, mixed)
        BY <1>2, <1>3, <3>2, <4>1 DEF Steady
      <4>3. Lists.channel = messages /\ Lists'.channel = messages'
        BY DEF Lists
      <4> QED
        BY <1>1, <4>2, <4>3
    <3> QED
      BY <1>2, <2>4, <3>1, <3>2, <3>3, <3>4
  <2> QED
    BY <1>5, <1>7, <2>5, <2>6, <2>11, <2>12 DEF HistoryInv
<1> QED
  BY <1>4, <1>6, <1>7

\* The load ends, and its messages go where they belong.
LEMMA FinishFirstInv ==
    ASSUME HistoryInv, TypeInv', NEW l \in loads, l.first, NEW u, Steady(Lists, u), NEW items,
           items \in Seq(Item), Ascending(items), \A i \in 1 .. Len(items) : items[i] \in 1 .. log,
           Finish(l, u, items), UNCHANGED <<connection, server>>
    PROVE  HistoryInv'
<1>1. /\ loads = {l} /\ room /\ Pending /\ l.before = 0
      /\ loads' = {} /\ loading' = FALSE /\ excused' = excused
      /\ UNCHANGED <<link, room, disconnected, lastConnectedAt, log, missed>>
  BY DEF HistoryInv, UnderWay, LoadInv, Pending, Finish, connection, server
<1>2. /\ log \in Nat /\ lastConnectedAt \in Nat /\ Lists \in Views
  BY ScalarFacts DEF HistoryInv
<1>3. /\ u \in Views /\ Good(u, log, missed, mixed, Old) /\ ~mixed
      /\ PendOf(u, room, log, missed, lastConnectedAt)
  BY <1>1, <1>2 DEF HistoryInv, ListsInv, Steady
<1>4. /\ Show(AddsAtStart(u, items))
      /\ mixed' = (items # <<>> /\ \E x \in Known(u.channel) : x <= Last(items))
  BY <1>3 DEF Finish
<1>5. Lists' = AddsAtStart(u, items)
  BY <1>3, <1>4, AddsAtStartView, ShowIs
<1>6. Old = {z \in 0 .. log : z <= lastConnectedAt} /\ Old' = {z \in 0 .. log : z <= lastConnectedAt}
  BY <1>1 DEF Old
<1>7. ASSUME ~mixed', NEW i \in 1 .. Len(items), NEW y \in Known(u.channel) PROVE items[i] < y
  <2>1. items # <<>> /\ Len(items) \in Nat
    BY <1>7
  <2>2. ~(y <= Last(items))
    BY <1>4, <1>7, <2>1
  <2>3. Last(items) = items[Len(items)]
    BY DEF Last
  <2>4. y \in Nat
    BY <1>3, <1>7, CutMembers, QueueFacts DEF Views
  <2>5. items[i] \in Nat /\ items[Len(items)] \in Nat
    BY <1>7, <2>1
  <2>6. i = Len(items) \/ items[i] < items[Len(items)]
    BY <1>7, <2>1 DEF Ascending
  <2> QED
    BY <2>2, <2>3, <2>4, <2>5, <2>6
<1>8. Good(Lists', log', missed', mixed', Old')
  <2>1. mixed' \/ \A i \in 1 .. Len(items) : \A y \in Known(u.channel) : items[i] < y
    BY <1>7
  <2>2. PendOf(u, TRUE, log, missed, lastConnectedAt)
    BY <1>1, <1>3 DEF PendOf
  <2>5. mixed = FALSE
    BY <1>3, SteadyLists DEF HistoryInv
  <2>3. Good(u, log, missed, FALSE, Old)
    BY <1>3, <2>5
  <2>4. Good(AddsAtStart(u, items), log, missed, mixed', Old)
    BY <1>2, <1>6, <2>1, <2>2, <2>3, FirstLoad
  <2> QED
    BY <1>1, <1>5, <1>6, <2>4
<1>9. ListsInv'
  BY <1>1, <1>8 DEF ListsInv, Pending
<1>10. LinkInv'
  BY <1>1 DEF HistoryInv, LinkInv
<1>11. LostInv'
  <2> SUFFICES ASSUME NEW x \in missed \ excused PROVE Away(x)'
    BY <1>1 DEF LostInv
  <2>1. x \in 1 .. log
    BY ScalarFacts DEF HistoryInv
  <2>2. Away(x)
    BY <1>1, <1>2, <2>1 DEF HistoryInv, LostInv
  <2> QED
    BY <1>1, <2>2 DEF Away
<1>12. UnderWay' /\ LoadInv'
  BY <1>1 DEF UnderWay, LoadInv
<1> QED
  BY <1>9, <1>10, <1>11, <1>12 DEF HistoryInv

\* The load of a gap ends.
LEMMA FinishGapInv ==
    ASSUME HistoryInv, TypeInv', NEW l \in loads, ~l.first, NEW u, Steady(Lists, u), NEW items,
           items \in Seq(Item), Newer(items, l.after + 1 .. l.before),
           Finish(l, u, items), UNCHANGED <<connection, server>>
    PROVE  HistoryInv'
<1>1. /\ loads = {l} /\ room /\ loads' = {} /\ loading' = FALSE
      /\ excused' = excused \cup ((missed \cap Window(l)) \ Range(items))
      /\ Window(l) = l.after + 1 .. l.before
      /\ UNCHANGED <<link, room, disconnected, lastConnectedAt, log, missed>>
  BY DEF HistoryInv, UnderWay, LoadInv, Finish, connection, server, Window
<1>2. /\ log \in Nat /\ log \in 0 .. MaxMessages /\ lastConnectedAt \in Nat /\ Lists \in Views
      /\ l.after \in Nat /\ l.before \in Nat /\ l.before <= log /\ missed \subseteq 1 .. log
      /\ mixed \in BOOLEAN
  BY ScalarFacts, SteadyLists DEF HistoryInv
<1>3. u \in Views /\ Good(u, log, missed, mixed, Old) /\ FollowOf(u, l.before)
  BY <1>2 DEF HistoryInv, ListsInv, Steady
<1> DEFINE w == Fills(u, items)
<1>4. Show(w) /\ mixed' = mixed
  BY <1>2 DEF Finish
<1>5. Lists' = w
  BY <1>3, <1>4, FillsView, ShowIs
<1>6. (\A z \in Old : z \in Nat /\ z <= l.after) /\ Old \subseteq Old'
  <2>1. \A z \in Old : z \in 0 .. log /\ z <= lastConnectedAt /\ z <= l.after
    BY DEF Old
  <2>2. \A z \in Old : z \in Old'
    BY <1>1, <2>1 DEF Old
  <2> QED
    BY <1>2, <2>1, <2>2
<1>7. /\ Good(w, log, missed, mixed, Old)
      /\ \A z \in Known(items) : LostOf(w.channel, z, mixed)
      /\ \A z \in 1 .. l.before : LostOf(u.channel, z, mixed) =>
            z \in Known(items) \/ z \in l.after + 1 .. l.before \/ LostOf(w.channel, z, mixed)
  <2>1. l.before \in 0 .. log
    BY <1>2
  <2> QED
    BY <1>2, <1>3, <1>6, <2>1, GapLoad
<1> HIDE DEF w
<1>8. Good(Lists', log', missed', mixed', Old')
  <2>1. log <= log /\ \A z \in log + 1 .. log : z \in missed
    BY <1>2
  <2> QED
    BY <1>1, <1>2, <1>4, <1>5, <1>6, <1>7, <2>1, GoodChange
<1>9. ListsInv'
  BY <1>1, <1>8 DEF ListsInv, Pending
<1>10. LinkInv'
  BY <1>1 DEF HistoryInv, LinkInv
<1>11. LostInv'
  <2> SUFFICES ASSUME NEW x \in missed \ excused', Named(x)
               PROVE  LostOf(messages', x, mixed) \/ Away(x)'
    BY <1>1, <1>4 DEF LostInv
  <2>1. /\ x \in 1 .. log /\ x \in missed \ excused
        /\ (x \in Window(l) => x \in Range(items))
    BY <1>1, <1>2
  <2>2. Away(x) => Away(x)'
    BY <1>1 DEF Away
  <2>3. messages' = w.channel /\ Lists.channel = messages
    BY <1>5 DEF Lists
  <2>4. CASE x \in Window(l)
    <3>1. x \in Known(items)
      BY <2>1, <2>4 DEF Known
    <3> QED
      BY <1>7, <2>3, <3>1
  <2>5. CASE x \notin Window(l) /\ l.before < x
    BY <2>1, <2>2, <2>5 DEF HistoryInv, LostInv
  <2>6. CASE x \notin Window(l) /\ ~(l.before < x)
    <3>1. LostOf(messages, x, mixed) \/ Away(x)
      BY <1>1, <2>1, <2>6 DEF HistoryInv, LostInv
    <3>2. ASSUME LostOf(messages, x, mixed) PROVE LostOf(w.channel, x, mixed)
      <4>1. Good(Lists, log, missed, mixed, Old)
        BY DEF HistoryInv, ListsInv
      <4>2. LostOf(u.channel, x, mixed)
        BY <1>2, <2>1, <2>3, <3>2, <4>1 DEF Steady
      <4>3. x \in 1 .. l.before
        BY <1>2, <2>1, <2>6
      <4> QED
        BY <1>1, <1>7, <2>6, <4>2, <4>3
    <3> QED
      BY <2>2, <2>3, <3>1, <3>2
  <2> QED
    BY <2>4, <2>5, <2>6
<1>12. UnderWay' /\ LoadInv'
  BY <1>1 DEF UnderWay, LoadInv
<1> QED
  BY <1>9, <1>10, <1>11, <1>12 DEF HistoryInv

\* A load ends, with the messages it has kept.
LEMMA FinishInv ==
    ASSUME HistoryInv, TypeInv', NEW l \in loads, NEW u, Steady(Lists, u),
           NEW items \in {l.items, Kept(l)}, Finish(l, u, items), UNCHANGED <<connection, server>>
    PROVE  HistoryInv'
<1>1. /\ items \in Seq(Item)
      /\ IF l.first THEN Ascending(items) /\ \A i \in 1 .. Len(items) : items[i] \in 1 .. log
         ELSE Newer(items, l.after + 1 .. l.before)
  BY KeptFacts
<1>2. CASE l.first
  BY <1>1, <1>2, FinishFirstInv
<1>3. CASE ~l.first
  BY <1>1, <1>3, FinishGapInv
<1> QED
  BY <1>2, <1>3

\* Every step of a load keeps the invariant.
LEMMA LoadStepInv ==
    ASSUME HistoryInv, TypeInv', NEW l \in loads, LoadStep(l)
    PROVE  HistoryInv'
<1>1. Lists \in Views /\ Steady(Lists, Lists) /\ Steady(Lists, Adds(Lists, Notice))
      /\ Steady(Lists, Adds(Adds(Lists, Notice), Notice))
  <2>1. Lists \in Views /\ Steady(Lists, Lists)
    BY SteadyLists DEF HistoryInv
  <2>2. Adds(Lists, Notice) \in Views
    BY <2>1, ItemFacts, AddsView
  <2> QED
    BY <2>1, <2>2, SteadyAdds, SteadyTwice
<1>2. /\ log \in Nat /\ Window(l) \subseteq 1 .. log
  BY WindowTypes DEF HistoryInv
<1>3. /\ Newest(Window(l)) \subseteq Window(l)
      /\ \A x \in Window(l) : \A y \in Newest(Window(l)) : y <= x => x \in Newest(Window(l))
  BY <1>2, NewestFacts
<1>4. CASE AnswerComplete(l)
  BY <1>3, <1>4, AnswerInv DEF AnswerComplete
<1>5. CASE AnswerPartial(l)
  <2>1. PICK oldest \in Newest(Window(l)) :
           Answer(l, "partial", {x \in Newest(Window(l)) : oldest <= x})
    BY <1>5 DEF AnswerPartial
  <2> DEFINE T == {x \in Newest(Window(l)) : oldest <= x}
  <2>2. T \subseteq Window(l)
    BY <1>3
  <2>3. ASSUME NEW x \in Window(l), NEW y \in T, y <= x PROVE x \in T
    <3>1. x \in Nat /\ y \in Nat /\ oldest \in Nat /\ oldest <= y
      BY <1>2, <1>3
    <3>2. oldest <= x
      BY <2>3, <3>1
    <3> QED
      BY <1>3, <2>3, <3>2
  <2> HIDE DEF T
  <2>4. Answer(l, "partial", T)
    BY <2>1 DEF T
  <2> QED
    BY <2>2, <2>3, <2>4, AnswerInv
<1>6. CASE FinishComplete(l)
  BY <1>1, <1>6, FinishInv DEF FinishComplete
<1>7. CASE FinishLast(l)
  BY <1>1, <1>7, FinishInv DEF FinishLast
<1>8. CASE AskNext(l)
  BY <1>8, AskNextInv
<1> QED
  BY <1>4, <1>5, <1>6, <1>7, <1>8 DEF LoadStep

\* Every step keeps the invariant.
LEMMA NextInv == ASSUME HistoryInv, [Next]_vars PROVE HistoryInv'
<1>1. TypeInv'
  BY NextTypes DEF HistoryInv
<1>2. CASE Connection
  BY <1>1, <1>2, ChatInv, RoomStateInv, JoinMessageInv, ReadConnectedInv, BreakInv,
     OnDisconnectedInv, ReconnectAskedInv, PingTimerInv DEF Connection
<1>3. CASE \E l \in loads : LoadStep(l)
  BY <1>1, <1>3, LoadStepInv
<1>4. CASE ClearView \/ SetChannel
  BY <1>1, <1>4, ViewStepInv
<1>5. CASE UNCHANGED vars
  <2>1. /\ UNCHANGED <<log, missed, link, room, disconnected, lastConnectedAt, loading, loads>>
        /\ UNCHANGED <<messages, proxy, layouts, cleared, mixed, excused>>
    BY <1>5 DEF vars, connection, history, shown, server
  <2>2. Lists' = Lists /\ Steady(Lists, Lists) /\ lastConnectedAt \in Nat
    BY <2>1, SteadyLists, ScalarFacts DEF Lists, HistoryInv
  <2>3. /\ room /\ link \in {"closed", "open"} => disconnected
        /\ ~room => ~disconnected
    BY DEF HistoryInv, LinkInv
  <2> QED
    BY <1>1, <2>1, <2>2, <2>3, QuietConnection
<1> QED
  BY <1>2, <1>3, <1>4, <1>5 DEF Next

\* So it always holds.
LEMMA HistoryInvHolds == Spec => []HistoryInv
<1>1. HistoryInv /\ [Next]_vars => HistoryInv'
  BY NextInv
<1> QED
  BY InitInv, <1>1, PTL DEF Spec

--------------------------------------------------------------------------------

\* loadingRecentMessages_ is set exactly while one load is under way: no order of joins,
\* breaks, answers and failing services starts a second one or leaves the flag behind.
THEOREM LoadingIsUnderWayHolds == Spec => []LoadingIsUnderWay
<1>1. HistoryInv => LoadingIsUnderWay
  <2> SUFFICES ASSUME HistoryInv PROVE LoadingIsUnderWay
    OBVIOUS
  <2>1. Cardinality({}) = 0 /\ \A l : Cardinality({l}) = 1
    BY FS_EmptySet, FS_Singleton
  <2> QED
    BY <2>1 DEF HistoryInv, UnderWay, LoadingIsUnderWay
<1> QED
  BY HistoryInvHolds, <1>1, PTL

\* A queue in two parts, each in order, falls where the parts meet and nowhere else.
LEMMA FallsOf ==
    ASSUME NEW q \in Queue(Item), NEW c \in 0 .. Len(q), Cut(q, c)
    PROVE  Cardinality(Falls(q)) <= IF c = 0 THEN 0 ELSE 1
<1>1. Len(q) \in Nat /\ DOMAIN q = 1 .. Len(q)
  BY QueueFacts
<1>2. ASSUME NEW i \in Falls(q)
      PROVE  /\ i \in 1 .. Len(q) /\ Named(q[i]) /\ c < i
             /\ \E j \in 1 .. i - 1 : j <= c /\ \A k \in j + 1 .. i - 1 : ~Named(q[k])
  <2>1. /\ i \in 1 .. Len(q) /\ Named(q[i])
        /\ \E j \in 1 .. i - 1 : /\ Named(q[j]) /\ q[i] <= q[j]
                                 /\ \A k \in j + 1 .. i - 1 : ~Named(q[k])
    BY <1>1 DEF Falls
  <2>2. PICK j \in 1 .. i - 1 : /\ Named(q[j]) /\ q[i] <= q[j]
                                /\ \A k \in j + 1 .. i - 1 : ~Named(q[k])
    BY <2>1
  <2>3. j \in 1 .. Len(q) /\ j < i
    BY <1>1, <2>1
  <2>4. q[i] \in Nat /\ q[j] \in Nat
    BY <2>1, <2>2, NamedFacts
  <2>5. ~(i <= c \/ c < j)
    BY <2>1, <2>2, <2>3, <2>4 DEF Cut
  <2> QED
    BY <1>1, <2>1, <2>2, <2>3, <2>5
<1>3. ASSUME NEW a \in Falls(q), NEW b \in Falls(q), a < b PROVE FALSE
  <2>1. PICK j \in 1 .. b - 1 : j <= c /\ \A k \in j + 1 .. b - 1 : ~Named(q[k])
    BY <1>2
  <2>2. a \in j + 1 .. b - 1 /\ Named(q[a])
    BY <1>1, <1>2, <1>3, <2>1
  <2> QED
    BY <2>1, <2>2
<1>4. CASE Falls(q) = {}
  BY <1>4, FS_EmptySet
<1>5. CASE Falls(q) # {}
  <2>1. PICK a : a \in Falls(q)
    BY <1>5
  <2>2. ASSUME NEW b \in Falls(q) PROVE b = a
    <3>1. a \in Nat /\ b \in Nat
      BY <1>1, <1>2, <2>1
    <3> QED
      BY <1>3, <2>1, <3>1
  <2>3. Falls(q) = {a}
    BY <2>1, <2>2
  <2>4. c # 0
    BY <1>2, <2>1
  <2>5. Cardinality(Falls(q)) = 1
    BY <2>3, FS_Singleton
  <2> QED
    BY <2>4, <2>5
<1> QED
  BY <1>4, <1>5

\* The messages with an id are in the order the server sent them and each is there once,
\* in the channel and in the view's proxy, whatever live messages, filled gaps, evictions
\* and lost connections come together; only the first load can break it, once, where it ends.
THEOREM InOrderHolds == Spec => []InOrder
<1>1. HistoryInv => InOrder
  <2> SUFFICES ASSUME HistoryInv, NEW q \in {messages, proxy}
               PROVE  Cardinality(Falls(q)) <= IF mixed THEN 1 ELSE 0
    BY DEF InOrder
  <2>1. q \in Queue(Item)
    BY ScalarFacts DEF HistoryInv
  <2>2. \E S : OrderOf(q, S, log, missed, mixed, Old)
    BY DEF HistoryInv, ListsInv, Good, Lists
  <2>3. PICK c \in 0 .. Len(q) : Cut(q, c) /\ (c # 0 => mixed)
    BY <2>2 DEF OrderOf
  <2>4. Cardinality(Falls(q)) <= IF c = 0 THEN 0 ELSE 1
    BY <2>1, <2>3, FallsOf
  <2>5. CASE c = 0 /\ mixed
    <3>3. Len(q) \in Nat /\ DOMAIN q = 1 .. Len(q)
      BY <2>1, QueueFacts
    <3>4. Falls(q) \subseteq 1 .. Len(q)
      BY <3>3 DEF Falls
    <3>1. IsFiniteSet(1 .. Len(q)) /\ Falls(q) \subseteq 1 .. Len(q)
      BY <3>3, <3>4, FS_Interval
    <3>2. Cardinality(Falls(q)) \in Nat
      BY <3>1, FS_Subset, FS_CardinalityType
    <3> QED
      BY <2>4, <2>5, <3>2
  <2> QED
    BY <2>3, <2>4, <2>5
<1> QED
  BY HistoryInvHolds, <1>1, PTL

\* The view shows what the channel shows of its messages, back to the oldest one it holds,
\* through additions at both ends, fills, a channel that is set anew and /clear.
THEOREM ViewFollowsChannelHolds == Spec => []ViewFollowsChannel
<1>1. HistoryInv => ViewFollowsChannel
  <2> SUFFICES ASSUME HistoryInv PROVE ViewFollowsChannel
    OBVIOUS
  <2>1. /\ ViewOf(Lists, missed, mixed) /\ (cleared \/ layouts = proxy)
        /\ Lists.channel = messages /\ Lists.proxy = proxy
    BY DEF HistoryInv, ListsInv, Good, Lists
  <2>2. ASSUME NEW x \in Range(messages) \ (IF mixed THEN missed ELSE {}), NEW y \in Range(proxy),
               Named(x), Shown(x), Named(y), y < x
        PROVE  x \in Range(proxy)
    <3>1. x \in Known(messages) /\ y \in Known(proxy) /\ ~(x \in missed /\ mixed)
      BY <2>2 DEF Known
    <3>2. x \in Nat /\ y \in Nat
      BY <2>2, NamedFacts
    <3>3. x \in Known(proxy)
      BY <2>1, <2>2, <3>1, <3>2 DEF ViewOf
    <3> QED
      BY <3>3 DEF Known
  <2> QED
    BY <2>1, <2>2 DEF ViewFollowsChannel
<1> QED
  BY HistoryInvHolds, <1>1, PTL

\* A message the connection missed is shown, will be asked for or is being asked for, or
\* there is a cause: it was excused, or a full channel dropped it for newer ones.
THEOREM LostForAReasonHolds == Spec => []LostForAReason
<1>1. HistoryInv => LostForAReason
  <2> SUFFICES ASSUME HistoryInv, NEW x \in missed \ excused, Named(x)
               PROVE  \/ x \in Range(messages)
                      \/ link # "joined" /\ x > lastConnectedAt
                      \/ \E l \in loads : x \in Window(l)
                      \/ /\ Len(messages) = Limit
                         /\ mixed \/ \A y \in Range(messages) : Named(y) => x < y
    BY DEF LostForAReason
  <2>1. \/ LostOf(messages, x, mixed) \/ Away(x)
        \/ \E l \in loads : x \in Window(l)
    BY DEF HistoryInv, LostInv
  <2>2. CASE LostOf(messages, x, mixed)
    BY <2>2 DEF LostOf, Known
  <2>3. x \in Nat /\ lastConnectedAt \in Nat
    BY NamedFacts, ScalarFacts DEF HistoryInv
  <2> QED
    BY <2>1, <2>2, <2>3 DEF Away
<1> QED
  BY HistoryInvHolds, <1>1, PTL

--------------------------------------------------------------------------------
(* A fill merges, whatever is in the queue. *)

\* The concatenation of sequences as a function of its steps.
LEMMA FlattenStep ==
    ASSUME NEW T, NEW seqs \in Seq(Seq(T))
    PROVE  \E g \in [0 .. Len(seqs) -> Seq(T)] :
              /\ g[0] = <<>> /\ FlattenSeq(seqs) = g[Len(seqs)]
              /\ \A i \in 1 .. Len(seqs) : g[i] = g[i - 1] \o seqs[i]
<1> DEFINE n == Len(seqs)
           X == Seq(T)
           a == <<>>
           G == [p \in (1 .. n) \X X |-> p[2] \o seqs[p[1]]]
           Is(f) == f = [i \in 1 .. n |-> IF i = 1 THEN seqs[i] ELSE f[i - 1] \o seqs[i]]
           flatten == CHOOSE f : Is(f)
<1>1. n \in Nat /\ \A i \in 1 .. n : seqs[i] \in Seq(T)
  BY LenProperties, ElementOfSeq
<1>2. a \in X
  OBVIOUS
<1>3. Steps(G, n, X)
  <2>1. \A i \in 1 .. n : \A s \in X : s \o seqs[i] \in X
    BY <1>1, ConcatProperties
  <2> QED
    BY <2>1 DEF Steps
<1>4. \A i \in 1 .. n : \A s \in X : G[<<i, s>>] = s \o seqs[i]
  OBVIOUS
<1> HIDE DEF G
<1>5. PICK g : Recursive(g, a, G, n, X)
  <2> HIDE DEF n, X, a
  <2> QED
    BY <1>1, <1>2, <1>3, Recursion
<1>6. g \in [0 .. n -> X] /\ g[0] = <<>> /\ \A i \in 1 .. n : g[i] = g[i - 1] \o seqs[i]
  <2>1. g \in [0 .. n -> X] /\ g[0] = <<>> /\ \A i \in 1 .. n : g[i] = G[<<i, g[i - 1]>>]
    BY <1>5 DEF Recursive
  <2>2. ASSUME NEW i \in 1 .. n PROVE g[i] = g[i - 1] \o seqs[i]
    <3>1. i - 1 \in 0 .. n
      BY <1>1
    <3>2. g[i - 1] \in X
      BY <2>1, <3>1
    <3> QED
      BY <1>4, <2>1, <3>2
  <2> QED
    BY <2>1, <2>2
<1>7. CASE n = 0
  <2>1. seqs = <<>>
    BY <1>7, EmptySeq
  <2>2. FlattenSeq(seqs) = <<>>
    BY <1>7, <2>1 DEF FlattenSeq
  <2> QED
    BY <1>6, <1>7, <2>2
<1>8. CASE n # 0
  <2> DEFINE h == [i \in 1 .. n |-> g[i]]
             h2 == [i \in 1 .. n |-> IF i = 1 THEN seqs[i] ELSE h[i - 1] \o seqs[i]]
  <2>1. g[1] = seqs[1]
    <3>1. 1 \in 1 .. n /\ 1 - 1 = 0
      BY <1>1, <1>8
    <3>2. g[1] = <<>> \o seqs[1] /\ seqs[1] \in Seq(T)
      BY <1>1, <1>6, <3>1
    <3> QED
      BY <3>2, ConcatEmptySeq
  <2>2. \A i \in 1 .. n : h[i] = h2[i]
    <3> TAKE i \in 1 .. n
    <3>1. CASE i = 1
      BY <2>1, <3>1
    <3>2. CASE i # 1
      <4>1. i - 1 \in 1 .. n
        BY <1>1, <3>2
      <4> QED
        BY <1>6, <3>2, <4>1
    <3> QED
      BY <3>1, <3>2
  <2>3. DOMAIN h = 1 .. n /\ h = [i \in 1 .. n |-> h[i]]
    OBVIOUS
  <2>4. DOMAIN h2 = 1 .. n /\ h2 = [i \in 1 .. n |-> h2[i]]
    OBVIOUS
  <2>5. h = h2
    <3> HIDE DEF h, h2
    <3> QED
      BY <2>2, <2>3, <2>4
  <2>6. Is(h)
    <3> HIDE DEF h
    <3> QED
      BY <2>5
  <2>7. Is(flatten)
    <3> HIDE DEF Is, h
    <3> QED
      BY <2>6
  <2>8. FlattenSeq(seqs) = flatten[n]
    BY <1>8 DEF FlattenSeq
  <2> HIDE DEF flatten
  <2>9. \A i \in 1 .. n : flatten[i] = IF i = 1 THEN seqs[i] ELSE flatten[i - 1] \o seqs[i]
    <3> HIDE DEF n, h, h2
    <3> QED
      BY <2>7
  <2> DEFINE P == {k \in 0 .. n : k = 0 \/ flatten[k] = g[k]}
  <2>10. 0 \in P
    BY <1>1
  <2>11. ASSUME NEW k \in 1 .. n, k - 1 \in P PROVE k \in P
    <3>1. CASE k = 1
      BY <1>1, <2>1, <2>9, <3>1
    <3>2. CASE k # 1
      <4>1. flatten[k - 1] = g[k - 1]
        BY <2>11, <3>2
      <4>2. flatten[k] = flatten[k - 1] \o seqs[k]
        BY <2>9, <3>2
      <4>3. g[k] = g[k - 1] \o seqs[k]
        BY <1>6
      <4>4. flatten[k] = g[k]
        BY <4>1, <4>2, <4>3
      <4> QED
        BY <1>1, <4>4
    <3> QED
      BY <3>1, <3>2
  <2>12. \A k \in 0 .. n : k \in P
    <3> HIDE DEF P, n, h, h2
    <3> QED
      BY <1>1, <2>10, <2>11, UpTo
  <2>13. flatten[n] = g[n]
    <3>1. n \in 0 .. n
      BY <1>1
    <3> QED
      BY <1>8, <2>12, <3>1
  <2> QED
    BY <1>6, <2>8, <2>13
<1> QED
  BY <1>7, <1>8

\* The first place of q with a message later than x, or the one behind its last.
PlaceIn(q, x) == IF Later(q, x) = {} THEN Len(q) + 1 ELSE Min(Later(q, x))

\* It is one of them, and the first such.
LEMMA PlaceInFacts ==
    ASSUME NEW q \in Queue(Item), NEW x \in Item
    PROVE  /\ PlaceIn(q, x) \in 1 .. Len(q) + 1
           /\ PlaceIn(q, x) = Len(q) + 1 => \A i \in 1 .. Len(q) : ~(Named(q[i]) /\ x < q[i])
           /\ PlaceIn(q, x) # Len(q) + 1 => FirstLater(q, x, PlaceIn(q, x))
<1> DEFINE later == Later(q, x)
           p == PlaceIn(q, x)
<1>1. /\ Len(q) \in Nat /\ later = {i \in 1 .. Len(q) : Named(q[i]) /\ x < q[i]}
  BY QueueFacts DEF Later
<1>2. CASE later = {}
  <2>1. p = Len(q) + 1
    BY <1>2 DEF PlaceIn
  <2> QED
    BY <1>1, <1>2, <2>1
<1>3. CASE later # {}
  <2>1. p = Min(later)
    BY <1>3 DEF PlaceIn
  <2>2. p \in later /\ \A j \in later : p <= j
    <3>1. later \in SUBSET Nat
      BY <1>1
    <3> HIDE DEF later
    <3> QED
      BY <1>3, <2>1, <3>1, MinFacts
  <2> HIDE DEF p, later
  <2>3. p \in 1 .. Len(q) /\ Named(q[p]) /\ x < q[p] /\ p # Len(q) + 1
    BY <1>1, <2>2
  <2>4. ASSUME NEW j \in 1 .. p - 1, Named(q[j]), x < q[j] PROVE FALSE
    <3>1. j \in later
      BY <1>1, <2>3, <2>4
    <3> QED
      BY <1>1, <2>2, <2>3, <3>1
  <2>5. FirstLater(q, x, p)
    BY <2>3, <2>4 DEF FirstLater
  <2> QED
    BY <1>1, <2>3, <2>5 DEF p
<1> QED
  BY <1>2, <1>3

\* A later message does not belong farther in front.
LEMMA PlaceInGrows ==
    ASSUME NEW q \in Queue(Item), NEW x \in Server, NEW y \in Server, x <= y
    PROVE  PlaceIn(q, x) <= PlaceIn(q, y)
<1> DEFINE i == PlaceIn(q, x)
           j == PlaceIn(q, y)
<1>1. x \in Item /\ y \in Item /\ x \in Nat /\ y \in Nat
  BY ItemFacts
<1>2. i \in 1 .. Len(q) + 1 /\ j \in 1 .. Len(q) + 1 /\ Len(q) \in Nat
  BY <1>1, PlaceInFacts, QueueFacts
<1>3. j # Len(q) + 1 => FirstLater(q, y, j)
  BY <1>1, PlaceInFacts
<1>4. i # Len(q) + 1 => FirstLater(q, x, i)
  BY <1>1, PlaceInFacts
<1>5. i = Len(q) + 1 => \A k \in 1 .. Len(q) : ~(Named(q[k]) /\ x < q[k])
  BY <1>1, PlaceInFacts
<1> HIDE DEF i, j
<1>6. CASE j # Len(q) + 1
  <2>1. j \in 1 .. Len(q) /\ Named(q[j]) /\ y < q[j]
    BY <1>3, <1>6 DEF FirstLater
  <2>2. x < q[j]
    BY <1>1, <2>1, NamedFacts
  <2>3. i # Len(q) + 1
    BY <1>5, <2>1, <2>2
  <2>4. \A k \in 1 .. i - 1 : ~(Named(q[k]) /\ x < q[k])
    BY <1>4, <2>3 DEF FirstLater
  <2> QED
    BY <1>2, <2>1, <2>2, <2>4 DEF i, j
<1>7. CASE j = Len(q) + 1
  BY <1>2, <1>7 DEF i, j
<1> QED
  BY <1>6, <1>7

\* r holds the newest items of m, Limit at most.
TailOf(m, r) ==
    /\ r \in Queue(Item)
    /\ Len(r) = IF Len(m) <= Limit THEN Len(m) ELSE Limit
    /\ \A j \in 1 .. Len(r) : r[j] = m[Len(m) - Len(r) + j]

\* So it does after x was put in front of the same item of both.
LEMMA TailPlaced ==
    ASSUME NEW A \in Seq(Item), NEW R \in Seq(Item), NEW x \in Item,
           NEW r, TailOf(A \o R, r), NEW i \in 1 .. Len(r) + 1,
           i = Len(A) + 1 - (Len(A) + Len(R) - Len(r)), NEW r2 \in Queue(Item), Placed(r, i, x, r2)
    PROVE  TailOf(Append(A, x) \o R, r2)
<1> DEFINE m == A \o R
           B == Append(A, x)
           m2 == B \o R
           lost == IF Len(r) = Limit THEN 1 ELSE 0
<1>0. Len(A) \in Nat /\ Len(R) \in Nat
  BY LenProperties
<1>1. /\ Len(m) = Len(A) + Len(R)
      /\ \A t \in 1 .. Len(A) + Len(R) : m[t] = IF t <= Len(A) THEN A[t] ELSE R[t - Len(A)]
  BY ConcatProperties, LenProperties
<1>2. /\ B \in Seq(Item) /\ Len(B) = Len(A) + 1 /\ B[Len(A) + 1] = x
      /\ \A t \in 1 .. Len(A) : B[t] = A[t]
  BY AppendProperties
<1> HIDE DEF B
<1>3. /\ Len(m2) = Len(B) + Len(R)
      /\ \A t \in 1 .. Len(B) + Len(R) : m2[t] = IF t <= Len(B) THEN B[t] ELSE R[t - Len(B)]
  BY <1>2, ConcatProperties
<1> HIDE DEF m, m2
<1>4. /\ Len(m2) = Len(A) + 1 + Len(R)
      /\ \A t \in 1 .. Len(A) + 1 + Len(R) : m2[t] = IF t <= Len(A) + 1 THEN B[t] ELSE R[t - (Len(A) + 1)]
  BY <1>0, <1>1, <1>2, <1>3
<1>5. \A t \in 1 .. Len(A) + 1 + Len(R) :
         m2[t] = IF t <= Len(A) THEN m[t] ELSE IF t = Len(A) + 1 THEN x ELSE m[t - 1]
  <2> TAKE t \in 1 .. Len(A) + 1 + Len(R)
  <2>1. CASE t <= Len(A)
    <3>1. t \in 1 .. Len(A) /\ t \in 1 .. Len(A) + Len(R)
      BY <1>0, <1>1, <2>1
    <3> QED
      BY <1>0, <1>1, <1>2, <1>4, <2>1, <3>1
  <2>2. CASE t = Len(A) + 1
    BY <1>0, <1>1, <1>2, <1>4, <2>2
  <2>3. CASE t > Len(A) + 1
    <3>1. t - 1 \in 1 .. Len(A) + Len(R) /\ ~(t - 1 <= Len(A)) /\ t - 1 - Len(A) = t - (Len(A) + 1)
      BY <1>0, <1>1, <2>3
    <3> QED
      BY <1>0, <1>1, <1>4, <2>3, <3>1
  <2>4. t <= Len(A) \/ t = Len(A) + 1 \/ t > Len(A) + 1
    BY <1>0
  <2> QED
    BY <2>1, <2>2, <2>3, <2>4, <1>0
<1>6. /\ r \in Queue(Item) /\ Len(r) = (IF Len(m) <= Limit THEN Len(m) ELSE Limit)
      /\ \A j \in 1 .. Len(r) : r[j] = m[Len(m) - Len(r) + j]
  BY DEF TailOf, m
<1>7. Len(r) \in Nat /\ Limit \in Nat /\ Limit > 0 /\ Len(r2) \in Nat
  BY <1>6, QueueFacts
<1>8. /\ Len(r2) = Len(r) + 1 - lost
      /\ \A j \in 1 .. Len(r2) : r2[j] = IF j + lost < i THEN r[j + lost]
                                         ELSE IF j + lost = i THEN x ELSE r[j + lost - 1]
  BY DEF Placed
<1> DEFINE d == Len(m) - Len(r)
<1>9. /\ Len(m) = Len(A) + Len(R) /\ Len(m2) = Len(A) + 1 + Len(R)
      /\ Len(r) = (IF Len(m) <= Limit THEN Len(m) ELSE Limit) /\ Len(r2) = Len(r) + 1 - lost
      /\ lost \in {0, 1} /\ (lost = 1 <=> Len(r) = Limit)
  BY <1>1, <1>4, <1>6, <1>8
<1> HIDE DEF lost
<1>10. /\ Len(r2) = IF Len(m2) <= Limit THEN Len(m2) ELSE Limit
       /\ Len(m2) - Len(r2) = d + lost /\ d \in Nat /\ i = Len(A) + 1 - d
  BY <1>0, <1>7, <1>9
<1>11. d = Len(m) - Len(r) /\ Len(r2) \in Nat /\ Len(r) \in Nat
  BY <1>7
<1> HIDE DEF d
<1>12. ASSUME NEW j \in 1 .. Len(r2) PROVE r2[j] = m2[Len(m2) - Len(r2) + j]
  <2> DEFINE t == d + lost + j
  <2>0. /\ d \in Nat /\ lost \in Nat /\ j \in Nat /\ j >= 1 /\ j <= Len(r2)
        /\ Len(m2) \in Nat /\ i = Len(A) + 1 - d /\ Len(m2) - Len(r2) = d + lost
        /\ Len(m2) = Len(A) + 1 + Len(R)
    <3>1. lost \in Nat
      BY <1>9
    <3>2. Len(m2) = Len(A) + 1 + Len(R) /\ Len(m2) \in Nat
      BY <1>0, <1>9
    <3>3. j \in Nat /\ j >= 1 /\ j <= Len(r2)
      BY <1>11
    <3> QED
      BY <1>10, <3>1, <3>2, <3>3
  <2>1. t \in 1 .. Len(A) + 1 + Len(R) /\ t = Len(m2) - Len(r2) + j /\ t \in Nat
    BY <1>0, <1>7, <2>0
  <2>2. CASE j + lost < i
    <3>1. j + lost \in 1 .. Len(r)
      BY <1>0, <1>7, <1>9, <2>2
    <3>2. r2[j] = r[j + lost] /\ r[j + lost] = m[Len(m) - Len(r) + (j + lost)]
      BY <1>6, <1>8, <2>2, <3>1
    <3>3. Len(m) - Len(r) + (j + lost) = t /\ t <= Len(A)
      BY <1>0, <1>7, <1>9, <1>10, <1>11, <2>2
    <3>4. m2[t] = m[t]
      BY <1>5, <2>1, <3>3
    <3> QED
      BY <2>1, <3>2, <3>3, <3>4
  <2>3. CASE j + lost = i
    <3>1. t = Len(A) + 1
      BY <1>0, <2>0, <2>3
    <3>2. r2[j] = x
      BY <1>7, <1>8, <1>9, <2>3
    <3>3. ~(t <= Len(A))
      BY <1>0, <3>1
    <3>4. m2[t] = x
      BY <1>5, <2>1, <3>1, <3>3
    <3> QED
      BY <2>1, <3>2, <3>4
  <2>4. CASE j + lost > i
    <3>1. j + lost - 1 \in 1 .. Len(r) /\ ~(j + lost < i) /\ j + lost # i
      BY <1>0, <1>7, <1>9, <2>4
    <3>2. r2[j] = r[j + lost - 1] /\ r[j + lost - 1] = m[Len(m) - Len(r) + (j + lost - 1)]
      BY <1>6, <1>8, <3>1
    <3>3. Len(m) - Len(r) + (j + lost - 1) = t - 1 /\ ~(t <= Len(A)) /\ t # Len(A) + 1
      BY <1>0, <1>7, <1>11, <2>0, <2>4
    <3>4. m2[t] = m[t - 1]
      BY <1>5, <2>1, <3>3
    <3> QED
      BY <2>1, <3>2, <3>3, <3>4
  <2>5. j + lost < i \/ j + lost = i \/ j + lost > i
    BY <1>0, <1>7, <1>9
  <2> QED
    BY <2>2, <2>3, <2>4, <2>5
<1> QED
  BY <1>10, <1>12 DEF TailOf, m2, B

\* Concatenation by a name that the provers do not expand.
Cat(s, t) == s \o t

\* What is known of concatenation, by that name.
LEMMA CatFacts ==
    ASSUME NEW T
    PROVE  /\ \A a, b \in Seq(T) : Cat(a, b) \in Seq(T)
           /\ \A a, b, c \in Seq(T) : Cat(Cat(a, b), c) = Cat(a, Cat(b, c))
           /\ \A a \in Seq(T) : Cat(a, <<>>) = a /\ Cat(<<>>, a) = a
<1>1. \A a, b \in Seq(T) : Cat(a, b) \in Seq(T)
  BY ConcatProperties DEF Cat
<1>2. ASSUME NEW a \in Seq(T), NEW b \in Seq(T), NEW c \in Seq(T)
      PROVE  Cat(Cat(a, b), c) = Cat(a, Cat(b, c))
  BY ConcatAssociative DEF Cat
<1>3. \A a \in Seq(T) : Cat(a, <<>>) = a /\ Cat(<<>>, a) = a
  BY ConcatEmptySeq DEF Cat
<1> QED
  BY <1>1, <1>2, <1>3

\* The messages of the answer that go in front of the j-th item of q.
PutAt(q, items, j) == {x \in Range(items) \ Known(q) : PlaceIn(q, x) = j}

\* F[j][k] has those of the first k, and g[i] is what is merged up to the i-th item.
Sorted(q, items, F) ==
    \A j \in 1 .. Len(q) + 1 :
        /\ F[j] \in [0 .. Len(items) -> Seq(Item)] /\ F[j][0] = <<>>
        /\ F[j][Len(items)] = Keep(items, PutAt(q, items, j))
        /\ \A k \in 1 .. Len(items) :
              F[j][k] = IF items[k] \in PutAt(q, items, j) THEN Append(F[j][k - 1], items[k])
                        ELSE F[j][k - 1]
Fronts(q, items, F, g) ==
    /\ g \in [0 .. Len(q) -> Seq(Item)] /\ g[0] = <<>>
    /\ \A i \in 1 .. Len(q) : g[i] = g[i - 1] \o Append(F[i][Len(items)], q[i])

\* f has the steps of Keep.
StepsOf(f, T, q, S) ==
    /\ f \in [0 .. Len(q) -> Seq(T)] /\ f[0] = <<>> /\ Keep(q, S) = f[Len(q)]
    /\ \A k \in 1 .. Len(q) : f[k] = IF q[k] \in S THEN Append(f[k - 1], q[k]) ELSE f[k - 1]

\* Such a function exists.
LEMMA KeepSteps ==
    ASSUME NEW T, NEW q \in Seq(T), NEW S
    PROVE  \E f : StepsOf(f, T, q, S)
  BY KeepStep DEF StepsOf

\* The parts exist,
LEMMA SortedExists ==
    ASSUME NEW q \in Queue(Item), NEW items \in Seq(Item)
    PROVE  \E F : Sorted(q, items, F)
<1> DEFINE n == Len(q) + 1
           F == [j \in 1 .. n |-> CHOOSE f : StepsOf(f, Item, items, PutAt(q, items, j))]
<1>1. ASSUME NEW j \in 1 .. n PROVE \E f : StepsOf(f, Item, items, PutAt(q, items, j))
  BY KeepSteps
<1>2. ASSUME NEW j \in 1 .. n PROVE StepsOf(F[j], Item, items, PutAt(q, items, j))
  <2>1. F[j] = CHOOSE f : StepsOf(f, Item, items, PutAt(q, items, j))
    OBVIOUS
  <2> HIDE DEF F
  <2> QED
    BY <1>1, <2>1
<1>3. Sorted(q, items, F)
  <2> HIDE DEF F
  <2> QED
    BY <1>2 DEF Sorted, StepsOf
<1> QED
  BY <1>3

\* and what is merged is their concatenation with the items between them.
LEMMA FrontsExist ==
    ASSUME NEW q \in Queue(Item), NEW items \in Seq(Item), NEW F, Sorted(q, items, F)
    PROVE  \E g : /\ Fronts(q, items, F, g)
                  /\ Merged(q, items) = g[Len(q)] \o F[Len(q) + 1][Len(items)]
<1> DEFINE n == Len(q)
           K == Len(items)
           part == [i \in 1 .. n |-> Append(Keep(items, PutAt(q, items, i)), q[i])]
<1>1. n \in Nat /\ K \in Nat /\ \A i \in 1 .. n : q[i] \in Item
  BY QueueFacts, LenProperties
<1>2. \A i \in 1 .. n + 1 : F[i][K] = Keep(items, PutAt(q, items, i)) /\ F[i][K] \in Seq(Item)
  <2> TAKE i \in 1 .. n + 1
  <2>1. K \in 0 .. K /\ F[i] \in [0 .. K -> Seq(Item)] /\ F[i][K] = Keep(items, PutAt(q, items, i))
    BY <1>1 DEF Sorted
  <2>2. F[i][K] \in Seq(Item)
    BY <2>1
  <2> QED
    BY <2>1, <2>2
<1>3. \A i \in 1 .. n : part[i] = Append(F[i][K], q[i]) /\ part[i] \in Seq(Item)
  <2> TAKE i \in 1 .. n
  <2>1. i \in 1 .. n + 1
    BY <1>1
  <2>2. F[i][K] = Keep(items, PutAt(q, items, i)) /\ F[i][K] \in Seq(Item) /\ q[i] \in Item
    BY <1>1, <1>2, <2>1
  <2>3. Append(F[i][K], q[i]) \in Seq(Item)
    BY <2>2, AppendProperties
  <2> QED
    BY <2>2, <2>3
<1>4. part \in Seq(Seq(Item)) /\ Len(part) = n
  <2>1. part \in [1 .. n -> Seq(Item)]
    BY <1>3
  <2> HIDE DEF part, n
  <2> QED
    BY <1>1, <2>1
<1>5. Merged(q, items) = FlattenSeq(part) \o Keep(items, PutAt(q, items, n + 1))
  BY DEF Merged, PlaceIn, PutAt
<1> HIDE DEF part
<1>6. PICK g \in [0 .. Len(part) -> Seq(Item)] :
         /\ g[0] = <<>> /\ FlattenSeq(part) = g[Len(part)]
         /\ \A i \in 1 .. Len(part) : g[i] = g[i - 1] \o part[i]
  BY <1>4, FlattenStep
<1>7. Fronts(q, items, F, g)
  <2>1. \A i \in 1 .. n : g[i] = g[i - 1] \o Append(F[i][K], q[i])
    BY <1>3, <1>4, <1>6
  <2> QED
    BY <1>4, <1>6, <2>1 DEF Fronts
<1>8. n + 1 \in 1 .. n + 1
  BY <1>1
<1> QED
  BY <1>2, <1>4, <1>5, <1>6, <1>7, <1>8

\* A fill as the proof sees it.
Merging(q, items, F, g) ==
    /\ q \in Queue(Item) /\ items \in Seq(Server) /\ Ascending(items)
    /\ Sorted(q, items, F) /\ Fronts(q, items, F, g)

\* What the fill has come to after k messages, if those that are left belong in front
\* of the p-th item or behind it, and those that are done before or there.
Halfway(q, F, g, k, p) == Cat(Cat(g[p - 1], F[p][k]), SubSeq(q, p, Len(q)))
Ready(q, items, k, p) ==
    /\ \A j \in 1 .. k : items[j] \notin Known(q) => PlaceIn(q, items[j]) <= p
    /\ \A j \in k + 1 .. Len(items) : items[j] \notin Known(q) => p <= PlaceIn(q, items[j])

\* The types of all that.
LEMMA MergingFacts ==
    ASSUME NEW q, NEW items, NEW F, NEW g, Merging(q, items, F, g)
    PROVE  /\ q \in Queue(Item) /\ q \in Seq(Item) /\ Len(q) \in Nat /\ Len(q) <= Limit
           /\ \A i \in 1 .. Len(q) : q[i] \in Item
           /\ items \in Seq(Item) /\ Len(items) \in Nat
           /\ \A k \in 1 .. Len(items) : items[k] \in Server /\ items[k] \in Item /\ items[k] \in Nat
           /\ \A k \in 1 .. Len(items) : \A j \in 1 .. Len(q) + 1 :
                 items[k] \in PutAt(q, items, j) <=>
                    items[k] \notin Known(q) /\ PlaceIn(q, items[k]) = j
           /\ \A p \in 1 .. Len(q) + 1 : \A k \in 0 .. Len(items) :
                 g[p - 1] \in Seq(Item) /\ F[p][k] \in Seq(Item) /\ SubSeq(q, p, Len(q)) \in Seq(Item)
<1>1. /\ q \in Queue(Item) /\ items \in Seq(Server)
      /\ Sorted(q, items, F) /\ Fronts(q, items, F, g)
  BY DEF Merging
<1>2. q \in Seq(Item) /\ Len(q) \in Nat /\ Len(q) <= Limit /\ \A i \in 1 .. Len(q) : q[i] \in Item
  BY <1>1, QueueFacts
<1>3. /\ Server \subseteq Item /\ Server \subseteq Nat
  BY ItemFacts
<1>4. /\ items \in Seq(Item) /\ Len(items) \in Nat
      /\ \A k \in 1 .. Len(items) : items[k] \in Server /\ items[k] \in Item /\ items[k] \in Nat
  BY <1>1, <1>3, SeqMonotonic, LenProperties, ElementOfSeq
<1>5. \A k \in 1 .. Len(items) : items[k] \in Range(items)
  BY <1>4, RangeIs
<1>6. ASSUME NEW p \in 1 .. Len(q) + 1, NEW k \in 0 .. Len(items)
      PROVE  g[p - 1] \in Seq(Item) /\ F[p][k] \in Seq(Item) /\ SubSeq(q, p, Len(q)) \in Seq(Item)
  <2>1. p - 1 \in 0 .. Len(q) /\ p \in Int /\ Len(q) \in Int /\ \A i \in p .. Len(q) : i \in 1 .. Len(q)
    BY <1>2
  <2>2. g[p - 1] \in Seq(Item)
    BY <1>1, <2>1 DEF Fronts
  <2>3. F[p] \in [0 .. Len(items) -> Seq(Item)]
    BY <1>1 DEF Sorted
  <2>4. SubSeq(q, p, Len(q)) \in Seq(Item)
    BY <1>2, <2>1, SubSeqProperties
  <2> QED
    BY <2>2, <2>3, <2>4
<1> QED
  BY <1>1, <1>2, <1>4, <1>5, <1>6 DEF PutAt

\* A part grows by messages that go there only.
LEMMA PartsStay ==
    ASSUME NEW q, NEW items, NEW F, NEW g, Merging(q, items, F, g),
           NEW p \in 1 .. Len(q) + 1, NEW k \in 0 .. Len(items)
    PROVE  /\ (\A j \in 1 .. k : items[j] \notin PutAt(q, items, p)) => F[p][k] = <<>>
           /\ (\A j \in k + 1 .. Len(items) : items[j] \notin PutAt(q, items, p)) =>
                 F[p][k] = F[p][Len(items)]
<1> DEFINE n == Len(items)
           S == PutAt(q, items, p)
<1>1. n \in Nat /\ n \in 0 .. n
  BY MergingFacts
<1>2. /\ F[p][0] = <<>>
      /\ \A m \in 1 .. n : F[p][m] = IF items[m] \in S THEN Append(F[p][m - 1], items[m])
                                     ELSE F[p][m - 1]
  BY DEF Merging, Sorted
<1> HIDE DEF n, S
<1>3. ASSUME \A j \in 1 .. k : items[j] \notin S PROVE F[p][k] = <<>>
  <2> DEFINE P == {m \in 0 .. n : m <= k => F[p][m] = <<>>}
  <2>1. 0 \in P
    BY <1>1, <1>2
  <2>2. ASSUME NEW m \in 1 .. n, m - 1 \in P PROVE m \in P
    BY <1>1, <1>2, <1>3, <2>2 DEF n
  <2>3. \A m \in 0 .. n : m \in P
    <3> HIDE DEF P
    <3> QED
      BY <1>1, <2>1, <2>2, UpTo
  <2> QED
    BY <2>3 DEF n
<1>4. ASSUME \A j \in k + 1 .. n : items[j] \notin S PROVE F[p][k] = F[p][n]
  <2> DEFINE P == {m \in 0 .. n : m >= k => F[p][m] = F[p][k]}
  <2>1. 0 \in P
    BY <1>1 DEF n
  <2>2. ASSUME NEW m \in 1 .. n, m - 1 \in P PROVE m \in P
    <3>1. CASE m >= k + 1
      <4>1. items[m] \notin S /\ m - 1 >= k
        BY <1>1, <1>4, <3>1 DEF n
      <4> QED
        BY <1>1, <1>2, <2>2, <4>1
    <3>2. CASE ~(m >= k + 1)
      <4>1. m >= k => m = k
        BY <1>1, <3>2 DEF n
      <4> QED
        BY <1>1, <4>1
    <3> QED
      BY <3>1, <3>2
  <2>3. \A m \in 0 .. n : m \in P
    <3> HIDE DEF P
    <3> QED
      BY <1>1, <2>1, <2>2, UpTo
  <2> QED
    BY <1>1, <2>3 DEF n
<1> QED
  BY <1>3, <1>4 DEF n, S

\* When nothing is left to go in front of the p-th item and nothing has gone behind it,
LEMMA HalfwayNext ==
    ASSUME NEW q, NEW items, NEW F, NEW g, Merging(q, items, F, g),
           NEW k \in 0 .. Len(items), NEW p \in 1 .. Len(q),
           Ready(q, items, k, p), Ready(q, items, k, p + 1)
    PROVE  Halfway(q, F, g, k, p) = Halfway(q, F, g, k, p + 1)
<1> DEFINE n == Len(items)
           a == g[p - 1]
           b == F[p][k]
           y == <<q[p]>>
           s == SubSeq(q, p + 1, Len(q))
<1>1. /\ Len(q) \in Nat /\ n \in Nat /\ p \in 1 .. Len(q) + 1 /\ p + 1 \in 1 .. Len(q) + 1
      /\ q \in Seq(Item) /\ q[p] \in Item /\ p \in p .. Len(q) /\ p + 1 - 1 = p
      /\ Len(q) \in p .. Len(q)
  BY MergingFacts
<1>2. /\ a \in Seq(Item) /\ b \in Seq(Item) /\ s \in Seq(Item) /\ y \in Seq(Item)
      /\ g[p] \in Seq(Item)
  <2>1. /\ g[p - 1] \in Seq(Item) /\ F[p][k] \in Seq(Item)
        /\ g[p + 1 - 1] \in Seq(Item) /\ SubSeq(q, p + 1, Len(q)) \in Seq(Item)
    BY <1>1, MergingFacts
  <2> QED
    BY <1>1, <2>1
<1>3. \A j \in 1 .. n : \A i \in 1 .. Len(q) + 1 :
         items[j] \in PutAt(q, items, i) <=> items[j] \notin Known(q) /\ PlaceIn(q, items[j]) = i
  BY MergingFacts
<1>4. F[p][k] = F[p][n]
  <2>1. ASSUME NEW j \in k + 1 .. n, items[j] \in PutAt(q, items, p) PROVE FALSE
    <3>1. j \in 1 .. n
      BY <1>1
    <3>2. items[j] \notin Known(q) /\ PlaceIn(q, items[j]) = p
      BY <1>1, <1>3, <2>1, <3>1
    <3>3. p + 1 <= PlaceIn(q, items[j])
      BY <3>2 DEF Ready
    <3> QED
      BY <1>1, <3>2, <3>3
  <2> QED
    BY <1>1, <2>1, PartsStay
<1>5. F[p + 1][k] = <<>>
  <2>1. ASSUME NEW j \in 1 .. k, items[j] \in PutAt(q, items, p + 1) PROVE FALSE
    <3>1. j \in 1 .. n
      BY <1>1
    <3>2. items[j] \notin Known(q) /\ PlaceIn(q, items[j]) = p + 1
      BY <1>1, <1>3, <2>1, <3>1
    <3>3. PlaceIn(q, items[j]) <= p
      BY <3>2 DEF Ready
    <3> QED
      BY <1>1, <3>2, <3>3
  <2>2. \A i \in 1 .. Len(q) + 1 :
           (\A j \in 1 .. k : items[j] \notin PutAt(q, items, i)) => F[i][k] = <<>>
    BY PartsStay
  <2> QED
    BY <1>1, <2>1, <2>2
<1>6. g[p] = Cat(a, Cat(b, y))
  <2>1. g[p] = g[p - 1] \o Append(F[p][n], q[p])
    BY DEF Merging, Fronts
  <2>2. Append(b, q[p]) = b \o y
    BY <1>1, <1>2, AppendIsConcat
  <2> QED
    BY <1>4, <2>1, <2>2 DEF Cat
<1>7. SubSeq(q, p, Len(q)) = Cat(y, s)
  BY <1>1, SubSeqRecursiveFirst DEF Cat
<1>8. Halfway(q, F, g, k, p + 1) = Cat(g[p], s)
  <2>1. Cat(g[p], <<>>) = g[p]
    BY <1>2, CatFacts
  <2>2. Halfway(q, F, g, k, p + 1) = Cat(Cat(g[p + 1 - 1], F[p + 1][k]), s)
    BY DEF Halfway
  <2>3. p + 1 - 1 = p
    BY <1>1
  <2> HIDE DEF s
  <2> QED
    BY <1>5, <2>1, <2>2, <2>3
<1>9. Halfway(q, F, g, k, p) = Cat(Cat(a, b), Cat(y, s))
  BY <1>7 DEF Halfway
<1> HIDE DEF a, b, y, s
<1>10. Cat(a, b) \in Seq(Item) /\ Cat(b, y) \in Seq(Item)
  BY <1>2, CatFacts
<1>11. Cat(Cat(a, b), Cat(y, s)) = Cat(Cat(Cat(a, b), y), s)
  BY <1>2, <1>10, CatFacts
<1>12. Cat(Cat(a, b), y) = Cat(a, Cat(b, y))
  BY <1>2, CatFacts
<1> QED
  BY <1>6, <1>8, <1>9, <1>11, <1>12

\* the fill may be seen from the next item, and so from any it is ready for.
LEMMA HalfwaySame ==
    ASSUME NEW q, NEW items, NEW F, NEW g, Merging(q, items, F, g),
           NEW k \in 0 .. Len(items), NEW p \in 1 .. Len(q) + 1, NEW p2 \in 1 .. Len(q) + 1, p <= p2,
           Ready(q, items, k, p), Ready(q, items, k, p2)
    PROVE  Halfway(q, F, g, k, p) = Halfway(q, F, g, k, p2)
<1> DEFINE n == Len(items)
           d == p2 - p
           P == {m \in 0 .. d : Halfway(q, F, g, k, p) = Halfway(q, F, g, k, p + m)}
<1>1. Len(q) \in Nat /\ n \in Nat /\ d \in Nat /\ d \in 0 .. d /\ p + d = p2 /\ p + 0 = p
  BY MergingFacts
<1>2. ASSUME NEW m \in 0 .. d PROVE Ready(q, items, k, p + m) /\ p + m \in 1 .. Len(q) + 1
  <2>1. /\ \A j \in 1 .. n : items[j] \in Item
    BY MergingFacts
  <2>2. \A j \in 1 .. n : PlaceIn(q, items[j]) \in 1 .. Len(q) + 1
    BY <2>1, MergingFacts, PlaceInFacts
  <2>3. p <= p + m /\ p + m <= p2 /\ p + m \in 1 .. Len(q) + 1
    BY <1>1
  <2>4. ASSUME NEW j \in 1 .. k, items[j] \notin Known(q) PROVE PlaceIn(q, items[j]) <= p + m
    <3>1. j \in 1 .. n /\ PlaceIn(q, items[j]) <= p
      BY <1>1, <2>4 DEF Ready
    <3> QED
      BY <1>1, <2>2, <2>3, <3>1
  <2>5. ASSUME NEW j \in k + 1 .. n, items[j] \notin Known(q) PROVE p + m <= PlaceIn(q, items[j])
    <3>1. j \in 1 .. n /\ p2 <= PlaceIn(q, items[j])
      BY <1>1, <2>5 DEF Ready
    <3> QED
      BY <1>1, <2>2, <2>3, <3>1
  <2> QED
    BY <2>3, <2>4, <2>5 DEF Ready
<1>3. 0 \in P
  BY <1>1
<1>4. ASSUME NEW m \in 1 .. d, m - 1 \in P PROVE m \in P
  <2>1. m - 1 \in 0 .. d /\ m \in 0 .. d /\ p + (m - 1) \in 1 .. Len(q) /\ p + (m - 1) + 1 = p + m
    BY <1>1
  <2>2. Ready(q, items, k, p + (m - 1)) /\ Ready(q, items, k, p + (m - 1) + 1)
    BY <1>2, <2>1
  <2>3. Halfway(q, F, g, k, p + (m - 1)) = Halfway(q, F, g, k, p + (m - 1) + 1)
    BY <2>1, <2>2, HalfwayNext
  <2> QED
    BY <1>4, <2>1, <2>3
<1>5. \A m \in 0 .. d : m \in P
  <2> HIDE DEF P, d
  <2> QED
    BY <1>1, <1>3, <1>4, UpTo
<1>6. d \in P
  BY <1>1, <1>5
<1> QED
  BY <1>1, <1>6

\* A message of q that is farther behind is not in a part in front of it.
LEMMA NotInFront ==
    ASSUME NEW q, NEW items, NEW F, NEW g, Merging(q, items, F, g), NEW k \in 0 .. Len(items),
           NEW p \in 1 .. Len(q), Named(q[p]), \A j \in 1 .. p - 1 : q[j] # q[p]
    PROVE  Cat(g[p - 1], F[p][k]) \in Seq(Item \ {q[p]})
<1> DEFINE n == Len(items)
           U == Item \ {q[p]}
<1>1. /\ Len(q) \in Nat /\ n \in Nat /\ \A i \in 1 .. Len(q) : q[i] \in Item
      /\ q \in Queue(Item)
  BY MergingFacts
<1>2. ASSUME NEW j \in 1 .. n, NEW i \in 1 .. Len(q) + 1, items[j] \in PutAt(q, items, i)
      PROVE  items[j] \in U
  <2>1. items[j] \in Item /\ items[j] \notin Known(q)
    BY <1>2, MergingFacts
  <2>2. q[p] \in Known(q)
    BY <1>1, KnownIs, QueueFacts
  <2> QED
    BY <2>1, <2>2
<1>3. /\ \A i \in 1 .. Len(q) + 1 : F[i][0] = <<>>
      /\ \A i \in 1 .. Len(q) + 1 : \A m \in 1 .. n :
            F[i][m] = IF items[m] \in PutAt(q, items, i) THEN Append(F[i][m - 1], items[m])
                      ELSE F[i][m - 1]
  BY DEF Merging, Sorted
<1>10. <<>> \in Seq(U)
  <2> HIDE DEF U
  <2> QED
    OBVIOUS
<1>4. ASSUME NEW i \in 1 .. Len(q) + 1 PROVE \A m \in 0 .. n : F[i][m] \in Seq(U)
  <2> DEFINE P == {m \in 0 .. n : F[i][m] \in Seq(U)}
  <2>1. 0 \in P
    <3>1. F[i][0] = <<>> /\ 0 \in 0 .. n
      BY <1>1, <1>3
    <3> HIDE DEF U
    <3> QED
      BY <1>10, <3>1
  <2>2. ASSUME NEW m \in 1 .. n, m - 1 \in P PROVE m \in P
    <3>1. F[i][m - 1] \in Seq(U) /\ m \in 0 .. n
      BY <2>2
    <3>2. items[m] \in PutAt(q, items, i) => items[m] \in U
      BY <1>2
    <3> HIDE DEF U
    <3>3. items[m] \in U => Append(F[i][m - 1], items[m]) \in Seq(U)
      BY <3>1, AppendProperties
    <3>4. F[i][m] = IF items[m] \in PutAt(q, items, i) THEN Append(F[i][m - 1], items[m])
                    ELSE F[i][m - 1]
      BY <1>3
    <3> QED
      BY <3>1, <3>2, <3>3, <3>4
  <2>3. \A m \in 0 .. n : m \in P
    <3> HIDE DEF P, n
    <3> QED
      BY <1>1, <2>1, <2>2, UpTo
  <2> QED
    BY <2>3
<1> DEFINE P == {i \in 0 .. p - 1 : g[i] \in Seq(U)}
<1>5. 0 \in P
  <2>1. g[0] = <<>> /\ 0 \in 0 .. p - 1
    BY <1>1 DEF Merging, Fronts
  <2> HIDE DEF U
  <2> QED
    BY <1>10, <2>1
<1>6. ASSUME NEW i \in 1 .. p - 1, i - 1 \in P PROVE i \in P
  <2>1. i \in 1 .. Len(q) /\ i \in 1 .. Len(q) + 1 /\ i \in 0 .. p - 1 /\ n \in 0 .. n
    BY <1>1
  <2>2. g[i] = g[i - 1] \o Append(F[i][n], q[i])
    BY <2>1 DEF Merging, Fronts
  <2>3. q[i] \in U
    BY <1>1, <2>1
  <2>4. F[i][n] \in Seq(U) /\ g[i - 1] \in Seq(U)
    BY <1>4, <1>6, <2>1
  <2> HIDE DEF U
  <2>5. Append(F[i][n], q[i]) \in Seq(U)
    BY <2>3, <2>4, AppendProperties
  <2>6. g[i - 1] \o Append(F[i][n], q[i]) \in Seq(U)
    BY <2>4, <2>5, ConcatProperties
  <2> QED
    BY <2>1, <2>2, <2>6
<1>7. \A i \in 0 .. p - 1 : i \in P
  <2>1. p - 1 \in Nat
    BY <1>1
  <2> HIDE DEF P
  <2> QED
    BY <1>5, <1>6, <2>1, UpTo
<1>8. g[p - 1] \in Seq(U) /\ F[p][k] \in Seq(U)
  <2>1. p - 1 \in 0 .. p - 1 /\ p \in 1 .. Len(q) + 1
    BY <1>1
  <2> QED
    BY <1>4, <1>7, <2>1
<1> HIDE DEF U
<1>9. Cat(g[p - 1], F[p][k]) \in Seq(U)
  BY <1>8, CatFacts
<1> QED
  BY <1>9 DEF U

\* Of a + b items the newest r are there, and of the b at the end all.
LEMMA TailNumbers ==
    ASSUME NEW a \in Nat, NEW b \in Nat, NEW r \in Nat, NEW l \in Nat, NEW m, NEW i, b <= l,
           m = a + b, r = (IF m <= l THEN m ELSE l), i = a + 1 - (a + b - r)
    PROVE  /\ i \in 1 .. r + 1 /\ i = r - b + 1 /\ m - r + i = a + 1
           /\ \A j \in 1 .. i - 1 : m - r + j \in 1 .. a /\ j \in 1 .. r
  OBVIOUS

\* An item is put in front of R, the part from the p-th item on, whatever was dropped.
LEMMA InsertedInFront ==
    ASSUME NEW q \in Queue(Item), NEW x \in Item, x \notin Known(q), NEW p, p = PlaceIn(q, x),
           NEW A \in Seq(Item), NEW R \in Seq(Item), R = SubSeq(q, p, Len(q)),
           p # Len(q) + 1 => A \in Seq(Item \ {q[p]}),
           NEW r, TailOf(A \o R, r)
    PROVE  TailOf(Append(A, x) \o R, InsertMissing(q, r, x))
<1> DEFINE r2 == InsertMissing(q, r, x)
           m == A \o R
           i == Len(A) + 1 - (Len(A) + Len(R) - Len(r))
<1>1. /\ r \in Queue(Item) /\ Len(r) \in Nat /\ Len(q) \in Nat /\ Len(q) <= Limit
      /\ q \in Seq(Item) /\ Limit \in Nat
      /\ Len(A) \in Nat /\ Len(R) \in Nat
  BY QueueFacts, LenProperties DEF TailOf
<1>2. r2 \in Queue(Item) /\ AtItsPlace(q, r, x, r2)
  BY <1>1, InsertMissingPlaces
<1>3. /\ Len(r) = (IF Len(m) <= Limit THEN Len(m) ELSE Limit)
      /\ \A j \in 1 .. Len(r) : r[j] = m[Len(m) - Len(r) + j]
  BY DEF TailOf
<1>4. /\ Len(m) = Len(A) + Len(R)
      /\ \A t \in 1 .. Len(A) + Len(R) : m[t] = IF t <= Len(A) THEN A[t] ELSE R[t - Len(A)]
  BY ConcatProperties
<1>5. /\ p \in 1 .. Len(q) + 1
      /\ p = Len(q) + 1 => \A j \in 1 .. Len(q) : ~(Named(q[j]) /\ x < q[j])
      /\ p # Len(q) + 1 => FirstLater(q, x, p)
  BY PlaceInFacts
<1>6. /\ Len(R) = Len(q) - p + 1
      /\ \A j \in 1 .. Len(R) : R[j] = q[p + j - 1]
  <2>1. \A j \in p .. Len(q) : q[j] \in Item
    BY <1>1, <1>5, ElementOfSeq
  <2>2. p \in Int /\ Len(q) \in Int
    BY <1>1, <1>5
  <2>3. /\ Len(SubSeq(q, p, Len(q))) = IF p <= Len(q) THEN Len(q) - p + 1 ELSE 0
        /\ \A j \in 1 .. Len(q) - p + 1 : SubSeq(q, p, Len(q))[j] = q[p + j - 1]
    BY <2>1, <2>2, SubSeqProperties
  <2>4. Len(R) = Len(q) - p + 1
    BY <1>1, <1>5, <2>3
  <2> QED
    BY <2>3, <2>4
<1> HIDE DEF m, r2
<1>7. /\ i \in 1 .. Len(r) + 1 /\ i = Len(r) - Len(R) + 1 /\ Len(m) - Len(r) + i = Len(A) + 1
      /\ \A j \in 1 .. i - 1 : Len(m) - Len(r) + j \in 1 .. Len(A) /\ j \in 1 .. Len(r)
  <2>1. Len(r) = (IF Len(m) <= Limit THEN Len(m) ELSE Limit) /\ Len(m) = Len(A) + Len(R)
    BY <1>3, <1>4
  <2>2. Len(R) <= Limit /\ Len(R) \in Nat /\ Len(A) \in Nat /\ Limit \in Nat /\ Len(r) \in Nat
    <3>1. Len(R) = Len(q) - p + 1 /\ p \in 1 .. Len(q) + 1
      BY <1>5, <1>6
    <3>2. Len(q) \in Nat /\ Len(q) <= Limit /\ Limit \in Nat
      BY <1>1
    <3>3. Len(R) <= Limit
      BY <3>1, <3>2
    <3> QED
      BY <1>1, <3>3
  <2>3. i = Len(A) + 1 - (Len(A) + Len(R) - Len(r))
    OBVIOUS
  <2> HIDE DEF i
  <2>4. \A a, b, s, l \in Nat : b <= l /\ Len(m) = a + b /\ s = (IF Len(m) <= l THEN Len(m) ELSE l)
                                 /\ i = a + 1 - (a + b - s) =>
           /\ i \in 1 .. s + 1 /\ i = s - b + 1 /\ Len(m) - s + i = a + 1
           /\ \A j \in 1 .. i - 1 : Len(m) - s + j \in 1 .. a /\ j \in 1 .. s
    BY TailNumbers
  <2> QED
    BY <2>1, <2>2, <2>3, <2>4
<1> HIDE DEF i
<1>8. CASE p = Len(q) + 1
  <2>1. Placed(r, Len(r) + 1, x, r2)
    <3>1. \A p2 : ~FirstLater(q, x, p2)
      BY <1>5, <1>8 DEF FirstLater
    <3> QED
      BY <1>2, <3>1 DEF AtItsPlace
  <2>2. i = Len(r) + 1
    BY <1>1, <1>6, <1>7, <1>8
  <2> QED
    BY <1>2, <1>7, <2>1, <2>2, TailPlaced DEF m, i, r2
<1>9. CASE p # Len(q) + 1
  <2> DEFINE y == q[p]
  <2>1. /\ p \in 1 .. Len(q) /\ Named(y) /\ x < y
        /\ \A j \in 1 .. p - 1 : ~(Named(q[j]) /\ x < q[j])
    BY <1>5, <1>9 DEF FirstLater
  <2>2. \A p2 : FirstLater(q, x, p2) => p2 = p
    <3> SUFFICES ASSUME NEW p2, FirstLater(q, x, p2) PROVE p2 = p
      OBVIOUS
    <3>1. /\ p2 \in 1 .. Len(q) /\ Named(q[p2]) /\ x < q[p2]
          /\ \A j \in 1 .. p2 - 1 : ~(Named(q[j]) /\ x < q[j])
      BY DEF FirstLater
    <3>2. p \notin 1 .. p2 - 1 /\ p2 \notin 1 .. p - 1
      BY <2>1, <3>1
    <3> QED
      BY <1>1, <2>1, <3>1, <3>2
  <2> HIDE DEF y
  <2>3. i \in 1 .. Len(r)
    <3>1. Len(R) >= 1
      BY <1>1, <1>6, <2>1
    <3> QED
      BY <1>1, <1>7, <3>1
  <2>4. r[i] = y
    <3>1. Len(A) + 1 \in 1 .. Len(A) + Len(R) /\ ~(Len(A) + 1 <= Len(A)) /\ Len(A) + 1 - Len(A) = 1
          /\ 1 \in 1 .. Len(R) /\ p + 1 - 1 = p
      BY <1>1, <1>6, <2>1
    <3>2. m[Len(A) + 1] = R[1]
      BY <1>4, <3>1
    <3>3. R[1] = q[p]
      BY <1>6, <3>1
    <3>4. r[i] = m[Len(A) + 1]
      BY <1>3, <1>7, <2>3
    <3> QED
      BY <3>2, <3>3, <3>4 DEF y
  <2>5. \A j \in 1 .. i - 1 : r[j] # y
    <3> TAKE j \in 1 .. i - 1
    <3> DEFINE t == Len(m) - Len(r) + j
    <3>1. j \in 1 .. Len(r) /\ t \in 1 .. Len(A) /\ t \in 1 .. Len(A) + Len(R)
      <4>1. t = Len(m) - Len(r) + j /\ j \in 1 .. Len(r) /\ t \in 1 .. Len(A)
        BY <1>7
      <4> HIDE DEF t
      <4> QED
        BY <1>1, <4>1
    <3>2. r[j] = m[t]
      BY <1>3, <3>1
    <3> HIDE DEF t
    <3>3. m[t] = A[t]
      BY <1>1, <1>4, <3>1
    <3>4. A[t] \in Item \ {q[p]}
      BY <1>9, <3>1, ElementOfSeq
    <3> QED
      BY <3>2, <3>3, <3>4 DEF y
  <2>6. Placed(r, i, x, r2)
    <3>1. \/ r2 = r /\ \A j \in 1 .. Len(r) : r[j] # y
          \/ \E j \in 1 .. Len(r) :
                /\ r[j] = y /\ \A j2 \in 1 .. j - 1 : r[j2] # y
                /\ Placed(r, j, x, r2)
      <4>1. \E p2 : /\ FirstLater(q, x, p2)
                    /\ \/ r2 = r /\ \A j \in 1 .. Len(r) : r[j] # q[p2]
                       \/ \E j \in 1 .. Len(r) :
                             /\ r[j] = q[p2] /\ \A j2 \in 1 .. j - 1 : r[j2] # q[p2]
                             /\ Placed(r, j, x, r2)
        BY <1>2, <2>1 DEF AtItsPlace, y
      <4> QED
        BY <2>2, <4>1 DEF y
    <3>2. PICK j \in 1 .. Len(r) : /\ r[j] = y /\ \A j2 \in 1 .. j - 1 : r[j2] # y
                                   /\ Placed(r, j, x, r2)
      BY <2>3, <2>4, <3>1
    <3>3. j \notin 1 .. i - 1 /\ i \notin 1 .. j - 1
      BY <2>4, <2>5, <3>2
    <3>4. j = i
      BY <1>1, <2>3, <3>2, <3>3
    <3> QED
      BY <3>2, <3>4
  <2> QED
    BY <1>2, <1>7, <2>6, TailPlaced DEF m, i, r2
<1> QED
  BY <1>8, <1>9

\* The queue after k messages is the newest part of what is merged by then.
Done(q, items, F, g, k, r) ==
    \E p \in 1 .. Len(q) + 1 : Ready(q, items, k, p) /\ TailOf(Halfway(q, F, g, k, p), r)

\* A queue is the newest part of itself.
LEMMA TailWhole ==
    ASSUME NEW q \in Queue(Item)
    PROVE  TailOf(q, q)
<1>1. Len(q) \in Nat /\ Len(q) <= Limit
  BY QueueFacts
<1>2. \A j \in 1 .. Len(q) : Len(q) - Len(q) + j = j
  BY <1>1
<1> QED
  BY <1>1, <1>2 DEF TailOf

\* So it is before the first message,
LEMMA DoneFirst ==
    ASSUME NEW q, NEW items, NEW F, NEW g, Merging(q, items, F, g)
    PROVE  Done(q, items, F, g, 0, q)
<1>1. /\ q \in Queue(Item) /\ q \in Seq(Item) /\ Len(q) \in Nat /\ Len(items) \in Nat
      /\ \A j \in 1 .. Len(items) : items[j] \in Item
  BY MergingFacts
<1>2. 1 \in 1 .. Len(q) + 1 /\ 1 - 1 = 0
  BY <1>1
<1>3. Ready(q, items, 0, 1)
  <2>1. ASSUME NEW j \in 0 + 1 .. Len(items) PROVE 1 <= PlaceIn(q, items[j])
    <3>1. PlaceIn(q, items[j]) \in 1 .. Len(q) + 1
      BY <1>1, <2>1, PlaceInFacts
    <3> QED
      BY <3>1
  <2> QED
    BY <2>1 DEF Ready
<1>4. Halfway(q, F, g, 0, 1) = q
  <2>1. g[0] = <<>> /\ F[1][0] = <<>>
    BY <1>2 DEF Merging, Sorted, Fronts
  <2>2. SubSeq(q, 1, Len(q)) = q
    BY <1>1, SubSeqFull
  <2>3. Halfway(q, F, g, 0, 1) = Cat(Cat(g[0], F[1][0]), q)
    BY <1>2, <2>2 DEF Halfway
  <2>4. <<>> \in Seq(Item)
    OBVIOUS
  <2>5. Cat(<<>>, <<>>) = <<>> /\ Cat(<<>>, q) = q
    BY <1>1, <2>4, CatFacts
  <2> QED
    BY <2>1, <2>3, <2>5
<1> QED
  BY <1>1, <1>2, <1>3, <1>4, TailWhole DEF Done

\* after each one,
LEMMA DoneNext ==
    ASSUME NEW q, NEW items, NEW F, NEW g, Merging(q, items, F, g),
           NEW k \in 1 .. Len(items), NEW r, Done(q, items, F, g, k - 1, r)
    PROVE  Done(q, items, F, g, k, InsertMissing(q, r, items[k]))
<1> DEFINE x == items[k]
           K == Len(items)
           n == Len(q)
<1>1. /\ q \in Queue(Item) /\ q \in Seq(Item) /\ n \in Nat /\ K \in Nat
      /\ k - 1 \in 0 .. K /\ k \in 0 .. K /\ k - 1 + 1 = k /\ k \in k - 1 + 1 .. K
      /\ x \in Item /\ x \in Server
      /\ \A j \in 1 .. K : items[j] \in Server /\ items[j] \in Item
      /\ \A p \in 1 .. n + 1 : x \in PutAt(q, items, p) <=> x \notin Known(q) /\ PlaceIn(q, x) = p
  BY MergingFacts
<1>2. PICK p1 \in 1 .. n + 1 : /\ Ready(q, items, k - 1, p1)
                               /\ TailOf(Halfway(q, F, g, k - 1, p1), r)
  BY DEF Done
<1>3. \A p \in 1 .. n + 1 : F[p][k] = IF x \in PutAt(q, items, p) THEN Append(F[p][k - 1], x)
                                      ELSE F[p][k - 1]
  BY DEF Merging, Sorted
<1>4. CASE x \in Known(q)
  <2>1. InsertMissing(q, r, x) = r
    BY <1>4 DEF InsertMissing
  <2>2. F[p1][k] = F[p1][k - 1]
    BY <1>1, <1>3, <1>4
  <2>3. Halfway(q, F, g, k, p1) = Halfway(q, F, g, k - 1, p1)
    BY <2>2 DEF Halfway
  <2>4. Ready(q, items, k, p1)
    <3>1. ASSUME NEW j \in 1 .. k, items[j] \notin Known(q) PROVE PlaceIn(q, items[j]) <= p1
      <4>1. j \in 1 .. k - 1
        BY <1>1, <1>4, <3>1
      <4> QED
        BY <1>2, <3>1, <4>1 DEF Ready
    <3>2. ASSUME NEW j \in k + 1 .. K, items[j] \notin Known(q) PROVE p1 <= PlaceIn(q, items[j])
      <4>1. j \in k - 1 + 1 .. K
        BY <1>1
      <4> QED
        BY <1>2, <3>2, <4>1 DEF Ready
    <3> QED
      BY <3>1, <3>2 DEF Ready
  <2> QED
    BY <1>2, <2>1, <2>3, <2>4 DEF Done
<1>5. CASE x \notin Known(q)
  <2> DEFINE p == PlaceIn(q, x)
             A == Cat(g[p - 1], F[p][k - 1])
             R == SubSeq(q, p, n)
  <2>1. p \in 1 .. n + 1
    BY <1>1, PlaceInFacts
  <2>2. ASSUME NEW i \in 1 .. K, NEW j \in 1 .. K, i <= j
        PROVE  PlaceIn(q, items[i]) <= PlaceIn(q, items[j])
    <3>1. items[i] \in Server /\ items[j] \in Server /\ items[i] \in Nat /\ items[j] \in Nat
      BY <1>1, ItemFacts
    <3>2. items[i] <= items[j]
      <4>1. Ascending(items)
        BY DEF Merging
      <4>2. CASE i = j
        BY <3>1, <4>2
      <4>3. CASE i # j
        <5>1. i < j
          BY <2>2, <4>3
        <5>2. items[i] < items[j]
          BY <4>1, <5>1 DEF Ascending
        <5> QED
          BY <3>1, <5>2
      <4> QED
        BY <4>2, <4>3
    <3> QED
      BY <1>1, <3>1, <3>2, PlaceInGrows
  <2>3. Ready(q, items, k - 1, p) /\ Ready(q, items, k, p)
    <3>1. ASSUME NEW j \in 1 .. k PROVE PlaceIn(q, items[j]) <= p
      <4>1. j \in 1 .. K /\ j <= k
        BY <1>1
      <4> QED
        BY <2>2, <4>1
    <3>2. ASSUME NEW j \in k .. K PROVE p <= PlaceIn(q, items[j])
      <4>1. j \in 1 .. K /\ k <= j
        BY <1>1
      <4> QED
        BY <2>2, <4>1
    <3>3. 1 .. k - 1 \subseteq 1 .. k /\ k + 1 .. K \subseteq k .. K /\ k - 1 + 1 .. K = k .. K
      BY <1>1
    <3> HIDE DEF p
    <3> QED
      BY <3>1, <3>2, <3>3 DEF Ready
  <2>4. p1 <= p
    <3>1. k \in k - 1 + 1 .. K
      BY <1>1
    <3> QED
      BY <1>2, <1>5, <3>1 DEF Ready
  <2> HIDE DEF p
  <2>5. Halfway(q, F, g, k - 1, p1) = Halfway(q, F, g, k - 1, p)
    BY <1>1, <1>2, <2>1, <2>3, <2>4, HalfwaySame
  <2>6. g[p - 1] \in Seq(Item) /\ F[p][k - 1] \in Seq(Item) /\ R \in Seq(Item)
    BY <1>1, <2>1, MergingFacts
  <2>7. A \in Seq(Item)
    BY <2>6, CatFacts
  <2>8. Halfway(q, F, g, k - 1, p) = A \o R
    BY DEF Halfway, Cat
  <2>9. Halfway(q, F, g, k, p) = Append(A, x) \o R
    <3>1. F[p][k] = Append(F[p][k - 1], x)
      BY <1>1, <1>3, <1>5, <2>1 DEF p
    <3> DEFINE y == <<x>>
    <3>2. Append(F[p][k - 1], x) = Cat(F[p][k - 1], y)
      BY <1>1, <2>6, AppendIsConcat DEF Cat
    <3>3. Append(A, x) = Cat(A, y)
      BY <1>1, <2>7, AppendIsConcat DEF Cat
    <3>4. y \in Seq(Item)
      BY <1>1
    <3> HIDE DEF y
    <3>5. Cat(Cat(g[p - 1], F[p][k - 1]), y) = Cat(g[p - 1], Cat(F[p][k - 1], y))
      <4>1. \A a, b, c \in Seq(Item) : Cat(Cat(a, b), c) = Cat(a, Cat(b, c))
        BY CatFacts
      <4> QED
        BY <2>6, <3>4, <4>1
    <3>6. Halfway(q, F, g, k, p) = Cat(Cat(g[p - 1], F[p][k]), R)
      BY DEF Halfway
    <3>7. Append(A, x) = Cat(g[p - 1], F[p][k])
      BY <3>1, <3>2, <3>3, <3>5
    <3> HIDE DEF A, R, x
    <3>8. Halfway(q, F, g, k, p) = Cat(Append(A, x), R)
      BY <3>6, <3>7
    <3> QED
      BY <3>8 DEF Cat
  <2>10. p # n + 1 => A \in Seq(Item \ {q[p]})
    <3> SUFFICES ASSUME p # n + 1 PROVE A \in Seq(Item \ {q[p]})
      OBVIOUS
    <3>1. FirstLater(q, x, p)
      BY <1>1, PlaceInFacts DEF p
    <3>2. /\ p \in 1 .. n /\ Named(q[p]) /\ x < q[p]
          /\ \A j \in 1 .. p - 1 : ~(Named(q[j]) /\ x < q[j])
      BY <3>1 DEF FirstLater
    <3>3. \A j \in 1 .. p - 1 : q[j] # q[p]
      BY <3>2
    <3> QED
      BY <1>1, <3>2, <3>3, NotInFront
  <2>11. TailOf(A \o R, r)
    BY <1>2, <2>5, <2>8
  <2> HIDE DEF A, R, x, n
  <2>12. R = SubSeq(q, p, Len(q)) /\ p = PlaceIn(q, x)
    BY DEF R, p, n
  <2>13. TailOf(Append(A, x) \o R, InsertMissing(q, r, x))
    BY <1>1, <1>5, <2>6, <2>7, <2>10, <2>11, <2>12, InsertedInFront DEF n
  <2> QED
    BY <2>1, <2>3, <2>9, <2>13 DEF Done, n, x
<1> QED
  BY <1>4, <1>5

\* and at the end, when that is all.
LEMMA DoneLast ==
    ASSUME NEW q, NEW items, NEW F, NEW g, Merging(q, items, F, g),
           NEW r, Done(q, items, F, g, Len(items), r)
    PROVE  TailOf(g[Len(q)] \o F[Len(q) + 1][Len(items)], r)
<1> DEFINE K == Len(items)
           n == Len(q)
<1>1. /\ q \in Queue(Item) /\ q \in Seq(Item) /\ n \in Nat /\ K \in Nat /\ K \in 0 .. K
      /\ n + 1 \in 1 .. n + 1 /\ n + 1 - 1 = n
      /\ \A j \in 1 .. K : items[j] \in Item
  BY MergingFacts
<1>2. PICK p \in 1 .. n + 1 : Ready(q, items, K, p) /\ TailOf(Halfway(q, F, g, K, p), r)
  BY DEF Done
<1>3. Ready(q, items, K, n + 1)
  <2>1. ASSUME NEW j \in 1 .. K PROVE PlaceIn(q, items[j]) <= n + 1
    <3>1. PlaceIn(q, items[j]) \in 1 .. Len(q) + 1
      BY <1>1, PlaceInFacts
    <3> QED
      BY <1>1, <3>1
  <2>2. K + 1 .. K = {}
    BY <1>1
  <2> QED
    BY <2>1, <2>2 DEF Ready
<1>4. Halfway(q, F, g, K, p) = Halfway(q, F, g, K, n + 1)
  <2>1. p <= n + 1
    BY <1>1
  <2> QED
    BY <1>1, <1>2, <1>3, <2>1, HalfwaySame
<1>5. Halfway(q, F, g, K, n + 1) = Cat(g[n], F[n + 1][K])
  <2>1. g[n + 1 - 1] \in Seq(Item) /\ F[n + 1][K] \in Seq(Item)
    <3>1. \A i \in 1 .. n + 1 : \A k \in 0 .. K : g[i - 1] \in Seq(Item) /\ F[i][k] \in Seq(Item)
      BY MergingFacts
    <3> HIDE DEF n, K
    <3> QED
      BY <1>1, <3>1
  <2>2. SubSeq(q, n + 1, n) = <<>>
    BY <1>1, SubSeqEmpty
  <2>3. Cat(g[n], F[n + 1][K]) \in Seq(Item)
    BY <1>1, <2>1, CatFacts
  <2>4. Cat(Cat(g[n], F[n + 1][K]), <<>>) = Cat(g[n], F[n + 1][K])
    BY <2>3, CatFacts
  <2>5. Halfway(q, F, g, K, n + 1) = Cat(Cat(g[n + 1 - 1], F[n + 1][K]), SubSeq(q, n + 1, n))
    BY DEF Halfway
  <2> HIDE DEF n, K
  <2> QED
    BY <1>1, <2>2, <2>4, <2>5
<1> QED
  BY <1>2, <1>4, <1>5 DEF Cat

\* A fill as a whole: the newest part of what is to be merged,
LEMMA FillEachMerges ==
    ASSUME NEW q \in Queue(Item), NEW items \in Seq(Server), Ascending(items)
    PROVE  TailOf(Merged(q, items), FillEach(q, items))
<1> DEFINE K == Len(items)
<1>1. items \in Seq(Item) /\ K \in Nat /\ K \in 0 .. K
  <2>1. Server \subseteq Item
    BY ItemFacts
  <2> QED
    BY <2>1, SeqMonotonic, LenProperties
<1>2. PICK F : Sorted(q, items, F)
  BY <1>1, SortedExists
<1>3. PICK g : /\ Fronts(q, items, F, g)
               /\ Merged(q, items) = g[Len(q)] \o F[Len(q) + 1][Len(items)]
  BY <1>1, <1>2, FrontsExist
<1>4. Merging(q, items, F, g)
  BY <1>2, <1>3 DEF Merging
<1>5. PICK f \in [0 .. K -> Queue(Item)] :
         /\ f[0] = q /\ FillEach(q, items) = f[K]
         /\ \A k \in 1 .. K : f[k] = InsertMissing(q, f[k - 1], items[k])
  BY <1>1, FillStep
<1> DEFINE P == {k \in 0 .. K : Done(q, items, F, g, k, f[k])}
<1>6. 0 \in P
  BY <1>1, <1>4, <1>5, DoneFirst
<1>7. ASSUME NEW k \in 1 .. K, k - 1 \in P PROVE k \in P
  <2>1. Done(q, items, F, g, k - 1, f[k - 1]) /\ k \in 0 .. K
    BY <1>1, <1>7
  <2>2. Done(q, items, F, g, k, InsertMissing(q, f[k - 1], items[k]))
    BY <1>4, <2>1, DoneNext
  <2> QED
    BY <1>5, <2>1, <2>2
<1>8. \A k \in 0 .. K : k \in P
  <2> HIDE DEF P, K
  <2> QED
    BY <1>1, <1>6, <1>7, UpTo
<1>9. Done(q, items, F, g, Len(items), f[K])
  BY <1>1, <1>8
<1> QED
  BY <1>3, <1>4, <1>5, <1>9, DoneLast

\* also when the channel was empty,
LEMMA FillEmptyMerges ==
    ASSUME NEW items \in Seq(Server)
    PROVE  TailOf(Merged(<<>>, items), PushFront(<<>>, items))
<1> DEFINE K == Len(items)
           q == <<>>
           r == PushFront(q, items)
           fit == Fitting(q, items)
<1>1. /\ items \in Seq(Item) /\ K \in Nat /\ K \in 0 .. K /\ \A k \in 1 .. K : items[k] \in Item
  <2>1. Server \subseteq Item
    BY ItemFacts
  <2>2. items \in Seq(Item)
    BY <2>1, SeqMonotonic
  <2> QED
    BY <2>2, LenProperties, ElementOfSeq
<1>2. q \in Queue(Item) /\ Len(q) = 0 /\ 1 \in 1 .. Len(q) + 1
  BY LimitAssumption DEF Queue
<1> HIDE DEF q
<1>3. PICK F : Sorted(q, items, F)
  BY <1>1, <1>2, SortedExists
<1>4. PICK g : /\ Fronts(q, items, F, g)
               /\ Merged(q, items) = g[Len(q)] \o F[Len(q) + 1][Len(items)]
  BY <1>1, <1>2, <1>3, FrontsExist
<1>5. /\ F[1] \in [0 .. K -> Seq(Item)] /\ F[1][0] = <<>>
      /\ \A k \in 1 .. K : F[1][k] = IF items[k] \in PutAt(q, items, 1)
                                     THEN Append(F[1][k - 1], items[k]) ELSE F[1][k - 1]
  BY <1>2, <1>3 DEF Sorted
<1>6. ASSUME NEW k \in 1 .. K PROVE items[k] \in PutAt(q, items, 1)
  <2>1. items[k] \in Range(items)
    BY <1>1, RangeIs
  <2>2. items[k] \notin Known(q)
    BY <1>2, KnownIs, QueueFacts
  <2>3. PlaceIn(q, items[k]) = 1
    <3>1. items[k] \in Item
      BY <1>1
    <3>2. PlaceIn(q, items[k]) \in 1 .. Len(q) + 1
      BY <1>2, <3>1, PlaceInFacts
    <3> QED
      BY <1>2, <3>2
  <2> QED
    BY <2>1, <2>2, <2>3 DEF PutAt
<1> DEFINE P == {k \in 0 .. K : F[1][k] = SubSeq(items, 1, k)}
<1>7. 0 \in P
  <2>1. SubSeq(items, 1, 0) = <<>>
    BY SubSeqEmpty
  <2> QED
    BY <1>1, <1>5, <2>1
<1>8. ASSUME NEW k \in 1 .. K, k - 1 \in P PROVE k \in P
  <2>1. F[1][k] = Append(F[1][k - 1], items[k]) /\ F[1][k - 1] = SubSeq(items, 1, k - 1)
    BY <1>5, <1>6, <1>8
  <2>2. SubSeq(items, 1, k) = Append(SubSeq(items, 1, k - 1), items[k])
    <3>1. \A j \in 1 .. k : items[j] \in Item
      BY <1>1
    <3>2. 1 \in Int /\ k \in Int /\ 1 <= k
      BY <1>1
    <3> QED
      BY <3>1, <3>2, SubSeqRecursiveSecond
  <2>3. k \in 0 .. K
    BY <1>1
  <2> QED
    BY <2>1, <2>2, <2>3
<1>9. \A k \in 0 .. K : k \in P
  <2> HIDE DEF P, K
  <2> QED
    BY <1>1, <1>7, <1>8, UpTo
<1>10. F[1][K] = items
  BY <1>1, <1>9, SubSeqFull
<1>11. Merged(q, items) = items
  <2>1. g[0] = <<>>
    BY <1>4 DEF Fronts
  <2>2. Len(q) + 1 = 1
    BY <1>2
  <2> QED
    BY <1>1, <1>2, <1>4, <1>10, <2>1, <2>2, ConcatEmptySeq
<1>12. /\ r \in Queue(Item) /\ Len(r) = Len(fit) + Len(q)
       /\ \A i \in 1 .. Len(r) : r[i] = IF i <= Len(fit) THEN fit[i] ELSE q[i - Len(fit)]
  BY <1>1, <1>2, PushFrontFacts
<1>13. /\ Len(fit) \in Nat /\ Len(fit) <= K /\ Len(q) + Len(fit) <= Limit
       /\ Len(fit) = K \/ Len(q) + Len(fit) = Limit
       /\ \A j \in 1 .. Len(fit) : fit[j] = items[K - Len(fit) + j]
  BY <1>1, <1>2, FittingFacts
<1> HIDE DEF fit, r, K
<1>14. Limit \in Nat /\ Len(r) = Len(fit) /\ Len(r) = IF K <= Limit THEN K ELSE Limit
  BY <1>1, <1>2, <1>12, <1>13, LimitAssumption
<1>15. \A i \in 1 .. Len(r) : r[i] = items[K - Len(r) + i]
  <2> TAKE i \in 1 .. Len(r)
  <2>1. i \in 1 .. Len(fit) /\ i <= Len(fit)
    BY <1>13, <1>14
  <2> QED
    BY <1>12, <1>13, <1>14, <2>1
<1> QED
  BY <1>11, <1>12, <1>14, <1>15 DEF TailOf, r, q, K

\* and such a part is what the property says.
LEMMA TailIs ==
    ASSUME NEW m \in Seq(Item), NEW r, TailOf(m, r)
    PROVE  r = IF Len(m) <= Limit THEN m ELSE SubSeq(m, Len(m) - Limit + 1, Len(m))
<1>1. /\ r \in Seq(Item) /\ Len(r) = (IF Len(m) <= Limit THEN Len(m) ELSE Limit)
      /\ \A j \in 1 .. Len(r) : r[j] = m[Len(m) - Len(r) + j]
  BY QueueFacts DEF TailOf
<1>2. Len(m) \in Nat /\ Limit \in Nat /\ Limit > 0 /\ \A j \in 1 .. Len(m) : m[j] \in Item
  BY LenProperties, ElementOfSeq, LimitAssumption
<1>3. CASE Len(m) <= Limit
  <2>1. Len(r) = Len(m)
    BY <1>1, <1>3
  <2>2. \A j \in 1 .. Len(m) : r[j] = m[j]
    <3> TAKE j \in 1 .. Len(m)
    <3>1. Len(m) - Len(r) + j = j
      BY <1>2, <2>1
    <3> QED
      BY <1>1, <2>1, <3>1
  <2>3. r = m
    BY <1>1, <2>1, <2>2, SeqEqual
  <2> QED
    BY <1>3, <2>3
<1>4. CASE ~(Len(m) <= Limit)
  <2> DEFINE a == Len(m) - Limit + 1
             s == SubSeq(m, a, Len(m))
  <2>1. a \in Int /\ a >= 1 /\ a <= Len(m) /\ Len(m) - a + 1 = Limit /\ Len(m) \in Int
    BY <1>2, <1>4
  <2>2. \A j \in a .. Len(m) : m[j] \in Item
    BY <1>2, <2>1
  <2> HIDE DEF a
  <2>3. /\ s \in Seq(Item) /\ Len(s) = Limit
        /\ \A j \in 1 .. Limit : s[j] = m[a + j - 1]
    BY <2>1, <2>2, SubSeqProperties
  <2>4. Len(r) = Limit
    BY <1>1, <1>4
  <2>5. \A j \in 1 .. Limit : r[j] = s[j]
    <3> TAKE j \in 1 .. Limit
    <3>1. Len(m) - Len(r) + j = a + j - 1
      BY <1>2, <2>4 DEF a
    <3> QED
      BY <1>1, <2>3, <2>4, <3>1
  <2> HIDE DEF s
  <2>6. r = s
    BY <1>1, <2>3, <2>4, <2>5, SeqEqual
  <2> QED
    BY <1>4, <2>6 DEF s, a
<1> QED
  BY <1>3, <1>4

\* What is merged is a sequence of items.
LEMMA MergedType ==
    ASSUME NEW q \in Queue(Item), NEW items \in Seq(Item)
    PROVE  Merged(q, items) \in Seq(Item)
<1>1. PICK F : Sorted(q, items, F)
  BY SortedExists
<1>2. PICK g : /\ Fronts(q, items, F, g)
               /\ Merged(q, items) = g[Len(q)] \o F[Len(q) + 1][Len(items)]
  BY <1>1, FrontsExist
<1>3. /\ Len(q) \in 0 .. Len(q) /\ Len(q) + 1 \in 1 .. Len(q) + 1
      /\ Len(items) \in 0 .. Len(items)
  BY QueueFacts, LenProperties
<1>4. g[Len(q)] \in Seq(Item)
  BY <1>2, <1>3 DEF Fronts
<1>5. F[Len(q) + 1][Len(items)] \in Seq(Item)
  BY <1>1, <1>3 DEF Sorted
<1> QED
  BY <1>2, <1>4, <1>5, ConcatProperties

\* fillInMissingMessages gives the messages of the channel with the missing ones among
\* them, each where its time puts it, and the newest Limit of all, although it looks for
\* places in a snapshot while the buffer it changes drops what it has no room for.
THEOREM FillMergesHolds == Spec => []FillMerges
<1>1. TypeInv => FillMerges
  <2> SUFFICES ASSUME TypeInv, NEW l \in loads, NEW S \in SUBSET Window(l)
               PROVE  LET m == Merged(messages, InTime(S))
                      IN  FillIn(messages, InTime(S)) =
                              IF Len(m) <= Limit THEN m
                              ELSE SubSeq(m, Len(m) - Limit + 1, Len(m))
    BY DEF FillMerges
  <2> DEFINE items == InTime(S)
             m == Merged(messages, items)
  <2>1. messages \in Queue(Item)
    BY ListsIs DEF TypeInv, ViewTypes
  <2>2. S \in SUBSET Server
    BY WindowTypes
  <2>3. items \in Seq(Server) /\ Ascending(items)
    BY <2>2, InTimeFacts, SeqMonotonic
  <2>4. TailOf(m, FillIn(messages, items))
    <3>1. CASE messages = <<>>
      <4>1. FillIn(messages, items) = PushFront(<<>>, items)
        BY <3>1 DEF FillIn
      <4> HIDE DEF items
      <4> QED
        BY <2>3, <3>1, <4>1, FillEmptyMerges
    <3>2. CASE messages # <<>>
      <4>1. FillIn(messages, items) = FillEach(messages, items)
        BY <3>2 DEF FillIn
      <4> HIDE DEF items
      <4> QED
        BY <2>1, <2>3, <4>1, FillEachMerges
    <3> QED
      BY <3>1, <3>2
  <2>5. items \in Seq(Item)
    BY <2>3, ItemFacts, SeqMonotonic
  <2>6. m \in Seq(Item)
    <3> HIDE DEF items
    <3> QED
      BY <2>1, <2>5, MergedType
  <2> HIDE DEF m, items
  <2>7. FillIn(messages, items) = IF Len(m) <= Limit THEN m
                                  ELSE SubSeq(m, Len(m) - Limit + 1, Len(m))
    BY <2>4, <2>6, TailIs
  <2> QED
    BY <2>7 DEF m, items
<1> QED
  BY TypeInvHolds, <1>1, PTL
================================================================================
