-------------------------- MODULE LimitedQueueProofs ---------------------------
(***************************************************************************)
(* What the operations of LimitedQueue return, for any limit and any items.*)
(***************************************************************************)
EXTENDS LimitedQueue, SequenceTheorems, FiniteSetTheorems, NaturalsInduction, TLAPS

\* What the type keeps: at most Limit items.
Queue(T) == {q \in Seq(T) : Len(q) <= Limit}

\* r is q with x in front of its i-th item, less the first of all if q was full.
Placed(q, i, x, r) ==
    LET lost == IF Len(q) = Limit THEN 1 ELSE 0
    IN  /\ Len(r) = Len(q) + 1 - lost
        /\ \A j \in 1 .. Len(r) :
              r[j] = IF j + lost < i THEN q[j + lost]
                     ELSE IF j + lost = i THEN x ELSE q[j + lost - 1]

\* A queue as a sequence.
LEMMA QueueFacts ==
    ASSUME NEW T, NEW q \in Queue(T)
    PROVE  /\ q \in Seq(T) /\ Len(q) \in Nat /\ Len(q) <= Limit /\ DOMAIN q = 1 .. Len(q)
           /\ \A i \in 1 .. Len(q) : q[i] \in T
           /\ Limit \in Nat /\ Limit > 0
<1>1. q \in Seq(T) /\ Len(q) <= Limit
  BY DEF Queue
<1> QED
  BY <1>1, LenProperties, ElementOfSeq, LimitAssumption

\* pushBack puts x at the end.
LEMMA PushBackPlaces ==
    ASSUME NEW T, NEW q \in Queue(T), NEW x \in T
    PROVE  PushBack(q, x) \in Queue(T) /\ Placed(q, Len(q) + 1, x, PushBack(q, x))
<1>1. q \in Seq(T) /\ Len(q) \in Nat /\ Len(q) <= Limit /\ Limit \in Nat /\ Limit > 0
  BY QueueFacts
<1>2. CASE Len(q) = Limit
  <2> DEFINE t == Tail(q)
  <2>1. q # <<>>
    BY <1>1, <1>2, EmptySeq
  <2>2. t \in Seq(T) /\ Len(t) = Len(q) - 1 /\ \A i \in 1 .. Len(t) : t[i] = q[i + 1]
    BY <1>1, <2>1, HeadTailProperties
  <2>3. PushBack(q, x) = Append(t, x)
    BY <1>2 DEF PushBack
  <2> HIDE DEF t
  <2>4. /\ Append(t, x) \in Seq(T) /\ Len(Append(t, x)) = Len(t) + 1
        /\ \A i \in 1 .. Len(t) : Append(t, x)[i] = t[i]
        /\ Append(t, x)[Len(t) + 1] = x
    BY <2>2, AppendProperties
  <2>5. \A j \in 1 .. Len(q) : Append(t, x)[j] = IF j + 1 < Len(q) + 1 THEN q[j + 1] ELSE x
    <3> TAKE j \in 1 .. Len(q)
    <3>1. CASE j \in 1 .. Len(t)
      BY <1>1, <2>2, <2>4, <3>1
    <3>2. CASE j = Len(q)
      BY <1>1, <2>2, <2>4, <3>2
    <3> QED
      BY <1>1, <2>2, <3>1, <3>2
  <2> QED
    BY <1>1, <1>2, <2>2, <2>3, <2>4, <2>5 DEF Placed, Queue
<1>3. CASE Len(q) # Limit
  <2>1. PushBack(q, x) = Append(q, x)
    BY <1>3 DEF PushBack
  <2>2. /\ Append(q, x) \in Seq(T) /\ Len(Append(q, x)) = Len(q) + 1
        /\ \A i \in 1 .. Len(q) : Append(q, x)[i] = q[i]
        /\ Append(q, x)[Len(q) + 1] = x
    BY <1>1, AppendProperties
  <2> QED
    BY <1>1, <1>3, <2>1, <2>2 DEF Placed, Queue
<1> QED
  BY <1>2, <1>3

\* A full buffer drops its first item, or x itself if it would be the first.
LEMMA InsertPlaces ==
    ASSUME NEW T, NEW q \in Queue(T), NEW i \in 1 .. Len(q) + 1, NEW x \in T
    PROVE  Insert(q, i, x) \in Queue(T) /\ Placed(q, i, x, Insert(q, i, x))
<1>1. /\ q \in Seq(T) /\ Len(q) \in Nat /\ Len(q) <= Limit /\ Limit \in Nat /\ Limit > 0
      /\ \A j \in 1 .. Len(q) : q[j] \in T
  BY QueueFacts
<1> DEFINE a == SubSeq(q, 1, i - 1)
           b == SubSeq(q, i, Len(q))
           ax == a \o <<x>>
           whole == ax \o b
<1>2. /\ a \in Seq(T) /\ Len(a) = i - 1 /\ \A j \in 1 .. i - 1 : a[j] = q[j]
  <2>1. \A j \in 1 .. i - 1 : q[j] \in T
    BY <1>1
  <2>2. /\ a \in Seq(T) /\ Len(a) = IF 1 <= i - 1 THEN i - 1 - 1 + 1 ELSE 0
        /\ \A j \in 1 .. i - 1 - 1 + 1 : a[j] = q[1 + j - 1]
    BY <1>1, <2>1, SubSeqProperties
  <2> QED
    BY <1>1, <2>2
<1>3. /\ b \in Seq(T) /\ Len(b) = Len(q) - i + 1
      /\ \A j \in 1 .. Len(q) - i + 1 : b[j] = q[i + j - 1]
  <2>1. \A j \in i .. Len(q) : q[j] \in T
    BY <1>1
  <2> QED
    BY <1>1, <2>1, SubSeqProperties
<1> HIDE DEF a, b
<1>4. <<x>> \in Seq(T) /\ Len(<<x>>) = 1 /\ <<x>>[1] = x
  OBVIOUS
<1>5. /\ ax \in Seq(T) /\ Len(ax) = i
      /\ \A j \in 1 .. i : ax[j] = IF j <= i - 1 THEN a[j] ELSE <<x>>[j - (i - 1)]
  <2>1. /\ ax \in Seq(T) /\ Len(ax) = Len(a) + Len(<<x>>)
        /\ \A j \in 1 .. Len(a) + Len(<<x>>) : ax[j] =
               IF j <= Len(a) THEN a[j] ELSE <<x>>[j - Len(a)]
    BY <1>2, <1>4, ConcatProperties
  <2> QED
    BY <1>1, <1>2, <1>4, <2>1
<1> HIDE DEF ax
<1>6. /\ whole \in Seq(T) /\ Len(whole) = Len(q) + 1
      /\ \A j \in 1 .. Len(q) + 1 : whole[j] = IF j <= i THEN ax[j] ELSE b[j - i]
  <2>1. /\ whole \in Seq(T) /\ Len(whole) = Len(ax) + Len(b)
        /\ \A j \in 1 .. Len(ax) + Len(b) : whole[j] =
               IF j <= Len(ax) THEN ax[j] ELSE b[j - Len(ax)]
    BY <1>3, <1>5, ConcatProperties
  <2>2. Len(ax) = i /\ Len(ax) + Len(b) = Len(q) + 1
    BY <1>1, <1>3, <1>5
  <2> QED
    BY <2>1, <2>2
<1> HIDE DEF whole
<1>7. \A j \in 1 .. Len(q) + 1 :
         whole[j] = IF j < i THEN q[j] ELSE IF j = i THEN x ELSE q[j - 1]
  <2> TAKE j \in 1 .. Len(q) + 1
  <2>1. CASE j < i
    BY <1>1, <1>2, <1>5, <1>6, <2>1
  <2>2. CASE j = i
    <3>1. ax[i] = <<x>>[i - (i - 1)] /\ i - (i - 1) = 1
      BY <1>1, <1>5
    <3> QED
      BY <1>1, <1>4, <1>6, <2>2, <3>1
  <2>3. CASE j > i
    <3>1. whole[j] = b[j - i] /\ j - i \in 1 .. Len(q) - i + 1
      BY <1>1, <1>6, <2>3
    <3>2. b[j - i] = q[i + (j - i) - 1] /\ i + (j - i) - 1 = j - 1
      BY <1>1, <1>3, <3>1
    <3> QED
      BY <1>1, <2>3, <3>1, <3>2
  <2> QED
    BY <1>1, <2>1, <2>2, <2>3
<1>8. CASE Len(q) < Limit
  <2>1. Insert(q, i, x) = whole
    BY <1>8 DEF Insert, whole, ax, a, b
  <2> QED
    BY <1>1, <1>6, <1>7, <1>8, <2>1 DEF Placed, Queue
<1>9. CASE Len(q) = Limit
  <2>1. Insert(q, i, x) = Tail(whole)
    BY <1>1, <1>9 DEF Insert, whole, ax, a, b
  <2>2. whole # <<>>
    BY <1>1, <1>6, EmptySeq
  <2>3. /\ Tail(whole) \in Seq(T) /\ Len(Tail(whole)) = Len(whole) - 1
        /\ \A j \in 1 .. Len(Tail(whole)) : Tail(whole)[j] = whole[j + 1]
    BY <1>6, <2>2, HeadTailProperties
  <2>4. \A j \in 1 .. Len(q) : Tail(whole)[j] =
            IF j + 1 < i THEN q[j + 1] ELSE IF j + 1 = i THEN x ELSE q[j + 1 - 1]
    BY <1>1, <1>6, <1>7, <2>3
  <2>5. Tail(whole) \in Queue(T)
    BY <1>1, <1>6, <1>9, <2>3 DEF Queue
  <2>6. Placed(q, i, x, Tail(whole))
    <3> DEFINE r == Tail(whole)
    <3>1. Len(r) = Len(q) /\ Len(q) = Len(q) + 1 - 1
      BY <1>1, <1>6, <2>3
    <3>2. \A j \in 1 .. Len(r) : r[j] =
            IF j + 1 < i THEN q[j + 1] ELSE IF j + 1 = i THEN x ELSE q[j + 1 - 1]
      BY <2>4, <3>1
    <3> HIDE DEF r
    <3>3. Placed(q, i, x, r)
      BY <1>9, <3>1, <3>2 DEF Placed
    <3> QED
      BY <3>3 DEF r
  <2> QED
    BY <2>1, <2>5, <2>6
<1> QED
  BY <1>1, <1>8, <1>9

\* Min and Max of a set of places.
LEMMA MinFacts ==
    ASSUME NEW S \in SUBSET Nat, S # {}
    PROVE  Min(S) \in S /\ \A j \in S : Min(S) <= j
<1>1. PICK v \in S : \A w \in S : ~(<<w, v>> \in OpToRel(<, Nat))
  BY NatLessThanWellFounded, WFMin
<1>2. \A w \in S : v <= w
  <2> TAKE w \in S
  <2>1. w \in Nat /\ v \in Nat /\ ~(w < v)
    BY <1>1 DEF OpToRel
  <2> QED
    BY <2>1
<1> QED
  BY <1>2 DEF Min

LEMMA MaxFacts ==
    ASSUME NEW n \in Nat, NEW S \in SUBSET (1 .. n), S # {}
    PROVE  Max(S) \in S /\ \A j \in S : j <= Max(S)
<1> DEFINE D == {k \in 0 .. n : n - k \in S}
<1>1. D \in SUBSET Nat /\ D # {}
  <2>1. PICK i \in 1 .. n : i \in S
    OBVIOUS
  <2>2. n - i \in 0 .. n /\ n - (n - i) = i
    OBVIOUS
  <2>3. n - i \in D
    BY <2>1, <2>2
  <2>4. D \in SUBSET Nat
    OBVIOUS
  <2> HIDE DEF D
  <2> QED
    BY <2>3, <2>4
<1> DEFINE k == Min(D)
           i == n - k
<1>2. k \in D /\ \A m \in D : k <= m
  BY <1>1, MinFacts
<1>3. i \in S /\ \A j \in S : j <= i
  <2>1. i \in S
    BY <1>2
  <2>2. \A j \in S : j <= i
    <3> TAKE j \in S
    <3>1. n - j \in 0 .. n /\ n - (n - j) = j
      OBVIOUS
    <3>2. n - j \in D
      BY <3>1
    <3>3. k <= n - j /\ k \in 0 .. n
      BY <1>2, <3>2
    <3> QED
      BY <3>3
  <2> QED
    BY <2>1, <2>2
<1>4. \E m \in S : \A j \in S : m >= j
  BY <1>3
<1>5. Max(S) \in S /\ \A j \in S : Max(S) >= j
  BY <1>4 DEF Max
<1> QED
  BY <1>5

\* The needle is gone and nothing changes, or x stands before its first place.
LEMMA InsertBeforePlaces ==
    ASSUME NEW T, NEW q \in Queue(T), NEW x \in T, NEW needle
    PROVE  /\ InsertBefore(q, needle, x) \in Queue(T)
           /\ \/ /\ \A i \in 1 .. Len(q) : q[i] # needle
                 /\ InsertBefore(q, needle, x) = q
              \/ \E i \in 1 .. Len(q) :
                    /\ q[i] = needle /\ \A j \in 1 .. i - 1 : q[j] # needle
                    /\ Placed(q, i, x, InsertBefore(q, needle, x))
<1>1. DOMAIN q = 1 .. Len(q) /\ Len(q) \in Nat
  BY QueueFacts
<1>2. CASE Places(q, needle) = {}
  <2>1. \A i \in 1 .. Len(q) : q[i] # needle
    BY <1>1, <1>2 DEF Places
  <2> QED
    BY <1>2, <2>1 DEF InsertBefore
<1>3. CASE Places(q, needle) # {}
  <2> DEFINE i == Min(Places(q, needle))
  <2>1. Places(q, needle) \in SUBSET Nat
    BY <1>1 DEF Places
  <2>2. i \in Places(q, needle) /\ \A j \in Places(q, needle) : i <= j
    BY <1>3, <2>1, MinFacts
  <2>3. InsertBefore(q, needle, x) = Insert(q, i, x)
    BY <1>3 DEF InsertBefore
  <2> HIDE DEF i
  <2>4. i \in 1 .. Len(q) /\ q[i] = needle
    BY <1>1, <2>2 DEF Places
  <2>5. \A j \in 1 .. i - 1 : q[j] # needle
    <3> SUFFICES ASSUME NEW j \in 1 .. i - 1, q[j] = needle PROVE FALSE
      OBVIOUS
    <3>1. j \in Places(q, needle)
      BY <1>1, <2>4 DEF Places
    <3> QED
      BY <1>1, <2>2, <2>4, <3>1
  <2>6. Insert(q, i, x) \in Queue(T) /\ Placed(q, i, x, Insert(q, i, x))
    <3>1. i \in 1 .. Len(q) + 1
      BY <1>1, <2>4
    <3> QED
      BY <3>1, InsertPlaces
  <2> QED
    BY <2>3, <2>4, <2>5, <2>6
<1> QED
  BY <1>2, <1>3

\* At most the items equal to the needle change, into x.
LEMMA ReplaceItemFacts ==
    ASSUME NEW T, NEW q \in Queue(T), NEW x \in T, NEW needle
    PROVE  /\ ReplaceItem(q, needle, x) \in Queue(T)
           /\ Len(ReplaceItem(q, needle, x)) = Len(q)
           /\ \A i \in 1 .. Len(q) :
                 \/ ReplaceItem(q, needle, x)[i] = q[i]
                 \/ q[i] = needle /\ ReplaceItem(q, needle, x)[i] = x
<1>1. q \in Seq(T) /\ DOMAIN q = 1 .. Len(q) /\ Len(q) \in Nat /\ Len(q) <= Limit
  BY QueueFacts
<1>2. CASE Places(q, needle) = {}
  BY <1>2 DEF ReplaceItem
<1>3. CASE Places(q, needle) # {}
  <2> DEFINE i == Max(Places(q, needle))
  <2>1. Places(q, needle) \in SUBSET (1 .. Len(q))
    BY <1>1 DEF Places
  <2>2. i \in Places(q, needle)
    BY <1>1, <1>3, <2>1, MaxFacts
  <2>3. ReplaceItem(q, needle, x) = [q EXCEPT ![i] = x]
    BY <1>3 DEF ReplaceItem
  <2> HIDE DEF i
  <2>4. i \in 1 .. Len(q) /\ q[i] = needle
    BY <1>1, <2>2 DEF Places
  <2>5. /\ [q EXCEPT ![i] = x] \in Seq(T) /\ Len([q EXCEPT ![i] = x]) = Len(q)
        /\ \A j \in 1 .. Len(q) : [q EXCEPT ![i] = x][j] = IF j = i THEN x ELSE q[j]
    BY <1>1, <2>4, ExceptSeq
  <2> QED
    BY <1>1, <2>3, <2>4, <2>5 DEF Queue
<1> QED
  BY <1>2, <1>3

\* The newest of the items, as many as there is room for.
LEMMA FittingFacts ==
    ASSUME NEW T, NEW q \in Queue(T), NEW items \in Seq(T)
    PROVE  /\ Fitting(q, items) \in Seq(T)
           /\ Len(Fitting(q, items)) \in Nat
           /\ Len(Fitting(q, items)) <= Len(items)
           /\ Len(q) + Len(Fitting(q, items)) <= Limit
           /\ \/ Len(Fitting(q, items)) = Len(items)
              \/ Len(q) + Len(Fitting(q, items)) = Limit
           /\ \A j \in 1 .. Len(Fitting(q, items)) :
                 Fitting(q, items)[j] = items[Len(items) - Len(Fitting(q, items)) + j]
<1> DEFINE space == Limit - Len(q)
           f == Fitting(q, items)
<1>1. Len(q) \in Nat /\ Len(q) <= Limit /\ Limit \in Nat /\ space \in Nat /\ Len(items) \in Nat
  BY QueueFacts, LenProperties
<1>2. CASE Len(items) <= space
  <2>1. f = items
    BY <1>2 DEF Fitting
  <2> QED
    BY <1>1, <1>2, <2>1
<1>3. CASE ~(Len(items) <= space)
  <2>1. f = SubSeq(items, Len(items) - space + 1, Len(items))
    BY <1>3 DEF Fitting
  <2>2. \A i \in Len(items) - space + 1 .. Len(items) : items[i] \in T
    BY <1>1, <1>3, ElementOfSeq
  <2> DEFINE m == Len(items) - space + 1
  <2>3. m \in Int /\ m > 0 /\ m <= Len(items) + 1 /\ Len(items) - m + 1 = space
    BY <1>1, <1>3
  <2>4. /\ f \in Seq(T) /\ Len(f) = IF m <= Len(items) THEN Len(items) - m + 1 ELSE 0
        /\ \A i \in 1 .. Len(items) - m + 1 : f[i] = items[m + i - 1]
    BY <1>1, <2>1, <2>2, <2>3, SubSeqProperties
  <2>5. Len(f) = space
    BY <1>1, <2>3, <2>4
  <2>6. \A i \in 1 .. Len(f) : f[i] = items[Len(items) - Len(f) + i]
    <3> TAKE i \in 1 .. Len(f)
    <3>1. i \in 1 .. Len(items) - m + 1
      BY <1>1, <2>3, <2>5
    <3>2. f[i] = items[m + i - 1]
      BY <2>4, <3>1
    <3>3. m + i - 1 = Len(items) - Len(f) + i
      BY <1>1, <2>3, <2>5
    <3> QED
      BY <3>2, <3>3
  <2> HIDE DEF f, m
  <2>7. /\ f \in Seq(T) /\ Len(f) \in Nat /\ Len(f) <= Len(items) /\ Len(q) + Len(f) = Limit
    BY <1>1, <1>3, <2>4, <2>5
  <2> QED
    BY <2>6, <2>7, LimitAssumption DEF f
<1> QED
  BY <1>2, <1>3

\* pushFront keeps what is there, and puts in front of it what fits.
LEMMA PushFrontFacts ==
    ASSUME NEW T, NEW q \in Queue(T), NEW items \in Seq(T)
    PROVE  /\ PushFront(q, items) \in Queue(T)
           /\ Len(PushFront(q, items)) = Len(Fitting(q, items)) + Len(q)
           /\ \A i \in 1 .. Len(PushFront(q, items)) : PushFront(q, items)[i] =
                 IF i <= Len(Fitting(q, items)) THEN Fitting(q, items)[i]
                 ELSE q[i - Len(Fitting(q, items))]
<1> DEFINE f == Fitting(q, items)
<1>1. /\ q \in Seq(T) /\ Len(q) \in Nat /\ Limit \in Nat
      /\ f \in Seq(T) /\ Len(f) \in Nat /\ Len(q) + Len(f) <= Limit
  BY QueueFacts, FittingFacts
<1>2. PushFront(q, items) = f \o q
  BY DEF PushFront
<1> HIDE DEF f
<1>3. /\ f \o q \in Seq(T) /\ Len(f \o q) = Len(f) + Len(q)
      /\ \A i \in 1 .. Len(f) + Len(q) : (f \o q)[i] = IF i <= Len(f) THEN f[i] ELSE q[i - Len(f)]
  BY <1>1, ConcatProperties
<1>4. Len(f) + Len(q) <= Limit
  BY <1>1
<1>5. f \o q \in Queue(T)
  BY <1>3, <1>4 DEF Queue
<1> QED
  BY <1>2, <1>3, <1>5 DEF f

\* No operation of the queue makes it longer than its limit or brings in anything
\* but the items it is given: LimitedQueue.hpp checks it before each insertion.
THEOREM QueueStaysBounded ==
    ASSUME NEW T, NEW q \in Queue(T), NEW x \in T, NEW items \in Seq(T), NEW needle
    PROVE  /\ PushBack(q, x) \in Queue(T) /\ InsertAfterLast(q, x) \in Queue(T)
           /\ PushFront(q, items) \in Queue(T)
           /\ InsertBefore(q, needle, x) \in Queue(T)
           /\ ReplaceItem(q, needle, x) \in Queue(T)
BY PushBackPlaces, PushFrontFacts, InsertBeforePlaces, ReplaceItemFacts DEF InsertAfterLast

--------------------------------------------------------------------------------
(* Induction over 0 .. n, for a set in place of a formula, and the functions *)
(* it defines.                                                               *)

\* Induction over the numbers up to n.
LEMMA UpTo ==
    ASSUME NEW n \in Nat, NEW P, 0 \in P, \A k \in 1 .. n : k - 1 \in P => k \in P
    PROVE  \A k \in 0 .. n : k \in P
<1> DEFINE D == {k \in 0 .. n : k \notin P}
<1> SUFFICES ASSUME D # {} PROVE FALSE
  OBVIOUS
<1>1. D \in SUBSET Nat
  OBVIOUS
<1> DEFINE m == Min(D)
<1>2. m \in D /\ \A k \in D : m <= k
  BY <1>1, MinFacts
<1> HIDE DEF m
<1>3. m \in 1 .. n /\ m - 1 \in 0 .. n /\ m \notin P
  BY <1>2
<1>4. m - 1 \notin D
  BY <1>2, <1>3
<1> QED
  BY <1>3, <1>4

\* G says what each of n steps makes of an element of X; f is what they make of a.
Steps(G, n, X) == G \in [(1 .. n) \X X -> X]
Recursive(f, a, G, n, X) ==
    f \in [0 .. n -> X] /\ f[0] = a /\ \A k \in 1 .. n : f[k] = G[<<k, f[k - 1]>>]

\* Such a function exists.
LEMMA Recursion ==
    ASSUME NEW X, NEW a \in X, NEW n \in Nat, NEW G, Steps(G, n, X)
    PROVE  \E f : Recursive(f, a, G, n, X)
<1> USE DEF Steps
<1> DEFINE Good(m) == \E f \in [0 .. m -> X] : f[0] = a /\ \A k \in 1 .. m : f[k] = G[<<k, f[k - 1]>>]
           P == {m \in 0 .. n : Good(m)}
<1>1. Good(0)
  <2> DEFINE f == [k \in 0 .. 0 |-> a]
  <2>1. f \in [0 .. 0 -> X] /\ f[0] = a /\ \A k \in 1 .. 0 : f[k] = G[<<k, f[k - 1]>>]
    OBVIOUS
  <2> QED
    BY <2>1
<1>2. ASSUME NEW m \in 1 .. n, Good(m - 1) PROVE Good(m)
  <2>1. PICK g \in [0 .. m - 1 -> X] : g[0] = a /\ \A k \in 1 .. m - 1 : g[k] = G[<<k, g[k - 1]>>]
    BY <1>2
  <2>2. g[m - 1] \in X /\ G[<<m, g[m - 1]>>] \in X
    <3>1. m - 1 \in 0 .. m - 1
      OBVIOUS
    <3>2. g[m - 1] \in X
      BY <3>1
    <3>3. <<m, g[m - 1]>> \in (1 .. n) \X X
      BY <3>2
    <3> QED
      BY <3>2, <3>3
  <2> DEFINE f == [k \in 0 .. m |-> IF k < m THEN g[k] ELSE G[<<m, g[m - 1]>>]]
  <2>3. f \in [0 .. m -> X]
    <3>1. \A k \in 0 .. m : k < m => g[k] \in X
      OBVIOUS
    <3> QED
      BY <2>2, <3>1
  <2>4. \A k \in 0 .. m - 1 : f[k] = g[k]
    OBVIOUS
  <2>5. f[m] = G[<<m, g[m - 1]>>]
    OBVIOUS
  <2> HIDE DEF f
  <2>6. f[0] = a
    BY <2>1, <2>4
  <2>7. \A k \in 1 .. m : f[k] = G[<<k, f[k - 1]>>]
    <3> TAKE k \in 1 .. m
    <3>1. k - 1 \in 0 .. m - 1 /\ f[k - 1] = g[k - 1]
      BY <2>4
    <3>2. CASE k = m
      BY <2>5, <3>1, <3>2
    <3>3. CASE k # m
      <4>1. k \in 1 .. m - 1 /\ k \in 0 .. m - 1
        BY <3>3
      <4> QED
        BY <2>1, <2>4, <3>1, <4>1
    <3> QED
      BY <3>2, <3>3
  <2> QED
    BY <2>3, <2>6, <2>7
<1> HIDE DEF Good
<1>3. 0 \in P
  BY <1>1
<1>4. \A m \in 1 .. n : m - 1 \in P => m \in P
  BY <1>2
<1>5. n \in P
  <2> HIDE DEF P
  <2>1. \A m \in 0 .. n : m \in P
    BY <1>3, <1>4, UpTo
  <2> QED
    BY <2>1
<1> QED
  BY <1>5 DEF Good, Recursive
================================================================================
