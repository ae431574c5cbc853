----------------------------- MODULE ImagesProofs -----------------------------
(***************************************************************************)
(* Theorems about Images and the requests it is built on, for every set of *)
(* images and requests and every value of the bounds.                      *)
(***************************************************************************)
EXTENDS Images, SequenceTheorems, TLAPS

--------------------------------------------------------------------------------
(* Places in a sequence *)

\* Where the elements of S are in q.
PlacesOf(q, S) == {k \in DOMAIN q : q[k] \in S}

LEMMA PlacesOfConcat ==
    ASSUME NEW T, NEW q \in Seq(T), NEW s \in Seq(T), NEW S
    PROVE  \A k : k \in PlacesOf(q \o s, S) <=>
                     \/ k \in PlacesOf(q, S)
                     \/ k \in Int /\ k - Len(q) \in PlacesOf(s, S)
<1> DEFINE n == Len(q)
           both == q \o s
<1>1. /\ n \in Nat /\ Len(s) \in Nat
      /\ DOMAIN q = 1 .. n /\ DOMAIN s = 1 .. Len(s) /\ DOMAIN both = 1 .. n + Len(s)
      /\ \A k \in 1 .. n + Len(s) : both[k] = IF k <= n THEN q[k] ELSE s[k - n]
  <2>1. both \in Seq(T) /\ Len(both) = n + Len(s)
    BY ConcatProperties
  <2>2. DOMAIN both = 1 .. Len(both)
    BY <2>1, LenProperties
  <2>3. \A k \in 1 .. n + Len(s) : both[k] = IF k <= n THEN q[k] ELSE s[k - n]
    BY ConcatProperties
  <2> QED
    BY <2>1, <2>2, <2>3, LenProperties
<1> HIDE DEF n, both
<1>2. ASSUME NEW k \in PlacesOf(both, S)
      PROVE  k \in PlacesOf(q, S) \/ (k \in Int /\ k - n \in PlacesOf(s, S))
  <2>1. CASE k <= n
    BY <1>1, <1>2, <2>1 DEF PlacesOf
  <2>2. CASE ~(k <= n)
    <3>1. k \in Int /\ k - n \in 1 .. Len(s) /\ both[k] = s[k - n]
      BY <1>1, <1>2, <2>2 DEF PlacesOf
    <3> QED
      BY <1>1, <1>2, <3>1 DEF PlacesOf
  <2> QED
    BY <2>1, <2>2
<1>3. ASSUME NEW k \in PlacesOf(q, S) PROVE k \in PlacesOf(both, S)
  BY <1>1, <1>3 DEF PlacesOf
<1>4. ASSUME NEW k \in Int, k - n \in PlacesOf(s, S) PROVE k \in PlacesOf(both, S)
  <2>1. k \in 1 .. n + Len(s) /\ ~(k <= n)
    BY <1>1, <1>4 DEF PlacesOf
  <2>2. both[k] = s[k - n]
    BY <1>1, <2>1
  <2> QED
    BY <1>1, <1>4, <2>1, <2>2 DEF PlacesOf
<1> QED
  BY <1>2, <1>3, <1>4 DEF n, both

LEMMA PlacesOfTail ==
    ASSUME NEW T, NEW q \in Seq(T), q # <<>>, NEW S
    PROVE  /\ \A k \in Int : k \in PlacesOf(Tail(q), S) <=> k >= 1 /\ k + 1 \in PlacesOf(q, S)
           /\ 1 \in PlacesOf(q, S) <=> Head(q) \in S
           /\ \A k \in PlacesOf(q, S) : k \in Int /\ k >= 1
           /\ \A k \in PlacesOf(Tail(q), S) : k \in Int /\ k >= 1
<1> DEFINE n == Len(q)
           t == Tail(q)
<1>1. /\ n \in Nat /\ n >= 1 /\ DOMAIN q = 1 .. n
      /\ t \in Seq(T) /\ DOMAIN t = 1 .. n - 1
      /\ \A i \in 1 .. n - 1 : t[i] = q[i + 1]
      /\ Head(q) = q[1]
  <2>1. n \in Nat /\ DOMAIN q = 1 .. n /\ n # 0
    BY EmptySeq, LenProperties
  <2>2. t \in Seq(T) /\ Len(t) = n - 1 /\ \A i \in 1 .. Len(t) : t[i] = q[i + 1]
    BY HeadTailProperties
  <2>3. DOMAIN t = 1 .. Len(t)
    BY <2>2, LenProperties
  <2> QED
    BY <2>1, <2>2, <2>3
<1> HIDE DEF n, t
<1>2. ASSUME NEW k \in Int PROVE k \in PlacesOf(t, S) <=> k >= 1 /\ k + 1 \in PlacesOf(q, S)
  <2>1. k \in 1 .. n - 1 <=> k >= 1 /\ k + 1 \in 1 .. n
    BY <1>1
  <2>2. k \in 1 .. n - 1 => t[k] = q[k + 1]
    BY <1>1
  <2> QED
    BY <1>1, <2>1, <2>2 DEF PlacesOf
<1>3. 1 \in PlacesOf(q, S) <=> Head(q) \in S
  BY <1>1 DEF PlacesOf
<1> QED
  BY <1>1, <1>2, <1>3 DEF PlacesOf, t

\* One element, and two.
LEMMA PlacesOfFew ==
    ASSUME NEW a, NEW b, NEW S
    PROVE  /\ \A k : k \in PlacesOf(<<a>>, S) <=> k = 1 /\ a \in S
           /\ \A k : k \in PlacesOf(<<a, b>>, S) <=> (k = 1 /\ a \in S) \/ (k = 2 /\ b \in S)
<1>1. /\ DOMAIN <<a>> = {1} /\ <<a>>[1] = a
      /\ DOMAIN <<a, b>> = {1, 2} /\ <<a, b>>[1] = a /\ <<a, b>>[2] = b
  OBVIOUS
<1>2. ASSUME NEW k PROVE k \in PlacesOf(<<a>>, S) <=> k = 1 /\ a \in S
  BY <1>1 DEF PlacesOf
<1>3. ASSUME NEW k
      PROVE  k \in PlacesOf(<<a, b>>, S) <=> (k = 1 /\ a \in S) \/ (k = 2 /\ b \in S)
  BY <1>1 DEF PlacesOf
<1> QED
  BY <1>2, <1>3
--------------------------------------------------------------------------------
(* The callbacks of a request *)

Kinds == Outcome \cup {"finally"}
Contents == Bodies \cup {"none"}

\* The callbacks of r of some kinds.
Calls(r, K) == [request : {r}, what : K, body : Contents]

Posts == [request : Requests, what : Kinds, body : Contents]
            \cup [image : Images, what : {"some", "nothing"}]
Jobs == [request : Requests, what : Kinds \cup {"lookup", "write", "writing"}, body : Contents]

\* Those that wait on the pool, and those that wait for the GUI thread.
Waiting(r, K, J) == J \cap Calls(r, K)
Due(r, K, q) == PlacesOf(q, Calls(r, K))

One(S) == \A x, y \in S : x = y

\* What a request may have called.
Started == {<<"success">>, <<"error">>}
Complete == {<<"success", "finally">>, <<"error", "finally">>}
Heards == {<<>>, <<"finally">>} \cup Started \cup Complete
             \cup {<<"finally", "success">>, <<"finally", "error">>}

\* Before it is over a request has called nothing and nothing is due.
Quiet(r, s, J, q, h) ==
    s # "over" => /\ Waiting(r, Kinds, J) = {} /\ Due(r, Kinds, q) = {}
                  /\ h = <<>>

\* The callbacks of a concurrent one are on the pool, in any order.
OnPool(r, J, q, h) ==
    r \in Concurrent =>
        /\ Due(r, Kinds, q) = {}
        /\ One(Waiting(r, Outcome, J)) /\ One(Waiting(r, {"finally"}, J))
        /\ Waiting(r, Outcome, J) # {} => h \in {<<>>, <<"finally">>}
        /\ Waiting(r, {"finally"}, J) # {} => h \in {<<>>} \cup Started

\* Those of any other are posted, in their order; once the caller is gone they
\* call nothing.
OnGui(r, J, q, g, h) ==
    r \notin Concurrent =>
        /\ Waiting(r, Kinds, J) = {}
        /\ One(Due(r, Outcome, q)) /\ One(Due(r, {"finally"}, q))
        /\ \A k \in Due(r, Outcome, q), l \in Due(r, {"finally"}, q) : k < l
        /\ Due(r, Outcome, q) # {} => h = <<>>
        /\ Due(r, {"finally"}, q) # {} => Due(r, Outcome, q) # {} \/ h \in Started \/ r \in g
        /\ h \in {<<>>} \cup Started \cup Complete

Orderly(r, s, J, q, g, h) ==
    /\ Lookup(r) \in J => s = "lookup" /\ r \in Cached
    /\ Quiet(r, s, J, q, h)
    /\ OnPool(r, J, q, h)
    /\ OnGui(r, J, q, g, h)

NetworkTypes ==
    /\ stage \in [Requests -> {"idle", "lookup", "connecting", "sent", "over"}]
    /\ files \in [Urls -> Contents]
    /\ gone \subseteq Called
    /\ heard \in [Requests -> Heards]
    /\ jobs \subseteq Jobs
    /\ posted \in Seq(Posts)

NetworkInv ==
    /\ NetworkTypes
    /\ \A r \in Requests : Orderly(r, stage[r], jobs, posted, gone, heard[r])

LEMMA HeardIsBounded ==
    ASSUME NEW h \in Heards
    PROVE  h \in BoundedSeq(Kinds, 2)
<1> DEFINE two == UNION {[1 .. m -> Kinds] : m \in 0 .. 2}
<1>1. BoundedSeq(Kinds, 2) = two
  BY DEF BoundedSeq, SeqOf
<1>2. /\ "success" \in Kinds /\ "error" \in Kinds /\ "finally" \in Kinds
  BY DEF Kinds, Outcome
<1>3. \A f \in [1 .. 0 -> Kinds] \cup [1 .. 1 -> Kinds] \cup [1 .. 2 -> Kinds] : f \in two
  <2>1. 0 \in 0 .. 2 /\ 1 \in 0 .. 2 /\ 2 \in 0 .. 2
    OBVIOUS
  <2> QED
    BY <2>1
<1>4. h \in [1 .. 0 -> Kinds] \cup [1 .. 1 -> Kinds] \cup [1 .. 2 -> Kinds]
  <2>1. <<>> \in [1 .. 0 -> Kinds]
    OBVIOUS
  <2>2. \A a \in Kinds : <<a>> \in [1 .. 1 -> Kinds]
    OBVIOUS
  <2>3. \A a, b \in Kinds : <<a, b>> \in [1 .. 2 -> Kinds]
    OBVIOUS
  <2>4. \/ h = <<>>
        \/ \E a \in Kinds : h = <<a>>
        \/ \E a, b \in Kinds : h = <<a, b>>
    BY <1>2 DEF Heards, Started, Complete
  <2> QED
    BY <2>1, <2>2, <2>3, <2>4
<1> HIDE DEF two
<1> QED
  BY <1>1, <1>3, <1>4

\* What has been heard has one outcome, no callback twice, and finally last if the
\* callbacks were posted.
LEMMA HeardIsOrderly ==
    ASSUME NEW h \in Heards
    PROVE  /\ IsInjective(h) /\ ~(Outcome \subseteq ToSet(h))
           /\ h \in Started \cup Complete => h[1] \in Outcome
<1>1. /\ DOMAIN <<>> = {}
      /\ \A a : DOMAIN <<a>> = {1} /\ <<a>>[1] = a
      /\ \A a, b : DOMAIN <<a, b>> = {1, 2} /\ <<a, b>>[1] = a /\ <<a, b>>[2] = b
  OBVIOUS
<1>2. IsInjective(h)
  BY <1>1 DEF IsInjective, Heards, Started, Complete
<1>3. "success" \notin ToSet(h) \/ "error" \notin ToSet(h)
  <2>1. ToSet(<<>>) = {}
    BY <1>1 DEF ToSet
  <2>2. \A a : ToSet(<<a>>) = {a}
    BY <1>1 DEF ToSet
  <2>3. \A a, b : ToSet(<<a, b>>) = {a, b}
    BY <1>1 DEF ToSet
  <2> QED
    BY <2>1, <2>2, <2>3 DEF Heards, Started, Complete
<1>4. h \in Started \cup Complete => h[1] \in Outcome
  BY <1>1 DEF Started, Complete, Outcome
<1> QED
  BY <1>2, <1>3, <1>4 DEF Outcome

LEMMA NetworkInvParts == NetworkInv => NetworkTypeOK /\ OneOutcome
<1> SUFFICES ASSUME NetworkInv PROVE NetworkTypeOK /\ OneOutcome
  OBVIOUS
<1>1. heard \in [Requests -> BoundedSeq(Kinds, 2)]
  BY HeardIsBounded DEF NetworkInv, NetworkTypes
<1>2. NetworkTypeOK
  BY <1>1 DEF NetworkInv, NetworkTypes, NetworkTypeOK, Jobs, Kinds, Contents
<1>3. ASSUME NEW r \in Requests
      PROVE  /\ IsInjective(heard[r]) /\ ~(Outcome \subseteq ToSet(heard[r]))
             /\ r \notin Concurrent /\ heard[r] # <<>> => heard[r][1] \in Outcome
  <2>1. heard[r] \in Heards
    BY DEF NetworkInv, NetworkTypes
  <2>2. r \notin Concurrent => heard[r] \in {<<>>} \cup Started \cup Complete
    BY DEF NetworkInv, Orderly, OnGui
  <2> QED
    BY <2>1, <2>2, HeardIsOrderly
<1>4. OneOutcome
  BY <1>3 DEF OneOutcome
<1> QED
  BY <1>2, <1>4
--------------------------------------------------------------------------------
(* What others do does not touch the callbacks of a request *)

LEMMA CallsOf ==
    ASSUME NEW r
    PROVE  /\ Calls(r, Kinds) = Calls(r, Outcome) \cup Calls(r, {"finally"})
           /\ \A J : Waiting(r, Kinds, J) = Waiting(r, Outcome, J) \cup Waiting(r, {"finally"}, J)
           /\ \A q : Due(r, Kinds, q) = Due(r, Outcome, q) \cup Due(r, {"finally"}, q)
<1>1. Calls(r, Kinds) = Calls(r, Outcome) \cup Calls(r, {"finally"})
  BY DEF Calls, Kinds
<1>2. \A q : Due(r, Kinds, q) = Due(r, Outcome, q) \cup Due(r, {"finally"}, q)
  BY <1>1 DEF Due, PlacesOf
<1>3. \A J : Waiting(r, Kinds, J) = Waiting(r, Outcome, J) \cup Waiting(r, {"finally"}, J)
  BY <1>1 DEF Waiting
<1> QED
  BY <1>1, <1>2, <1>3

\* The places of S in q are those in p, d further on.
Shifted(S, q, p, d) ==
    /\ \A k \in PlacesOf(p, S) : k \in Int /\ k + d \in PlacesOf(q, S)
    /\ \A k \in PlacesOf(q, S) : k \in Int /\ k - d \in PlacesOf(p, S)

LEMMA ShiftedByAppend ==
    ASSUME NEW T, NEW q \in Seq(T), NEW s \in Seq(T), NEW S, PlacesOf(s, S) = {}
    PROVE  Shifted(S, q, q \o s, 0)
<1>1. \A k : k \in PlacesOf(q \o s, S) <=> k \in PlacesOf(q, S)
  BY PlacesOfConcat
<1>2. \A k \in PlacesOf(q, S) : k \in Int
  BY LenProperties DEF PlacesOf
<1> QED
  BY <1>1, <1>2 DEF Shifted

LEMMA ShiftedByTail ==
    ASSUME NEW T, NEW q \in Seq(T), q # <<>>, NEW S, Head(q) \notin S
    PROVE  Shifted(S, q, Tail(q), 1)
<1>1. /\ \A k \in Int : k \in PlacesOf(Tail(q), S) <=> k >= 1 /\ k + 1 \in PlacesOf(q, S)
      /\ 1 \notin PlacesOf(q, S)
      /\ \A k \in PlacesOf(q, S) : k \in Int /\ k >= 1
      /\ \A k \in PlacesOf(Tail(q), S) : k \in Int /\ k >= 1
  BY PlacesOfTail
<1>2. ASSUME NEW k \in PlacesOf(q, S) PROVE k - 1 \in PlacesOf(Tail(q), S)
  <2>1. k \in Int /\ k >= 1 /\ k # 1
    BY <1>1
  <2>2. k - 1 \in Int /\ k - 1 >= 1 /\ (k - 1) + 1 = k
    BY <2>1
  <2> QED
    BY <1>1, <2>2
<1> QED
  BY <1>1, <1>2 DEF Shifted

LEMMA ShiftedByNothing ==
    ASSUME NEW T, NEW q \in Seq(T), NEW S
    PROVE  Shifted(S, q, q, 0)
BY LenProperties DEF Shifted, PlacesOf

LEMMA OrderlyFrame ==
    ASSUME NEW r, NEW d \in Int, NEW s, NEW t, NEW J, NEW L, NEW q, NEW p, NEW g, NEW f, NEW h,
           Orderly(r, s, J, q, g, h),
           s = "over" => t = "over",
           Lookup(r) \in L => t = "lookup" /\ r \in Cached,
           \A K \in {Outcome, {"finally"}} :
              Waiting(r, K, L) = Waiting(r, K, J) /\ Shifted(Calls(r, K), q, p, d),
           g \subseteq f
    PROVE  Orderly(r, t, L, p, f, h)
<1>1. /\ Waiting(r, Outcome, L) = Waiting(r, Outcome, J)
      /\ Waiting(r, {"finally"}, L) = Waiting(r, {"finally"}, J)
      /\ Waiting(r, Kinds, L) = Waiting(r, Kinds, J)
  BY CallsOf
<1>2. \A K \in {Outcome, {"finally"}} :
         /\ \A k \in Due(r, K, p) : k \in Int /\ k + d \in Due(r, K, q)
         /\ \A k \in Due(r, K, q) : k \in Int /\ k - d \in Due(r, K, p)
  BY DEF Shifted, Due
<1> DEFINE A == Due(r, Outcome, q)
           B == Due(r, {"finally"}, q)
           A2 == Due(r, Outcome, p)
           B2 == Due(r, {"finally"}, p)
<1>3. /\ \A k \in A2 : k \in Int /\ k + d \in A
      /\ \A k \in B2 : k \in Int /\ k + d \in B
      /\ \A k \in A : k \in Int /\ k - d \in A2
      /\ \A k \in B : k \in Int /\ k - d \in B2
  BY <1>2
<1>4. Due(r, Kinds, q) = A \cup B /\ Due(r, Kinds, p) = A2 \cup B2
  BY CallsOf
<1> HIDE DEF A, B, A2, B2
<1>5. (A = {} <=> A2 = {}) /\ (B = {} <=> B2 = {})
  BY <1>3
<1>6. (One(A) => One(A2)) /\ (One(B) => One(B2))
  BY <1>3 DEF One
<1>7. (\A k \in A, l \in B : k < l) => \A k \in A2, l \in B2 : k < l
  BY <1>3
<1>8. Quiet(r, t, L, p, h)
  BY <1>1, <1>4, <1>5 DEF Orderly, Quiet
<1>9. OnPool(r, L, p, h)
  BY <1>1, <1>4, <1>5 DEF Orderly, OnPool
<1>10. OnGui(r, L, p, f, h)
  <2> SUFFICES ASSUME r \notin Concurrent PROVE OnGui(r, L, p, f, h)!2
    BY DEF OnGui
  <2>1. OnGui(r, J, q, g, h)!2
    BY DEF Orderly, OnGui
  <2> QED
    BY <2>1, <1>1, <1>5, <1>6, <1>7 DEF A, B, A2, B2
<1> QED
  BY <1>8, <1>9, <1>10 DEF Orderly

--------------------------------------------------------------------------------
(* A request ends *)

LEMMA CallbackIn ==
    ASSUME NEW r, NEW what \in Kinds, NEW body \in Contents
    PROVE  /\ \A s, K : Callback(r, what, body) \in Calls(s, K) <=> s = r /\ what \in K
           /\ r \in Requests => Callback(r, what, body) \in Posts /\ Callback(r, what, body) \in Jobs
           /\ \A s : Callback(r, what, body) # Lookup(s)
BY DEF Callback, Calls, Posts, Jobs, Lookup, Kinds, Outcome

LEMMA ToSetOfFew ==
    ASSUME NEW a, NEW b
    PROVE  ToSet(<<a>>) = {a} /\ ToSet(<<a, b>>) = {a, b}
<1>1. /\ DOMAIN <<a>> = {1} /\ <<a>>[1] = a
      /\ DOMAIN <<a, b>> = {1, 2} /\ <<a, b>>[1] = a /\ <<a, b>>[2] = b
  OBVIOUS
<1> QED
  BY <1>1 DEF ToSet

\* What Emit() posts or adds to the jobs.
Emitted(r, what, body) ==
    IF r \in Finally
    THEN <<Callback(r, what, body), Callback(r, "finally", "none")>>
    ELSE <<Callback(r, what, body)>>

LEMMA EmittedParts ==
    ASSUME NEW r \in Requests, NEW what \in Outcome, NEW body \in Contents
    PROVE  /\ Emitted(r, what, body) \in Seq(Posts)
           /\ ToSet(Emitted(r, what, body)) =
                 {Callback(r, what, body)}
                    \cup IF r \in Finally THEN {Callback(r, "finally", "none")} ELSE {}
           /\ \A s, K : s # r => PlacesOf(Emitted(r, what, body), Calls(s, K)) = {}
           /\ \A k : k \in PlacesOf(Emitted(r, what, body), Calls(r, Outcome)) <=> k = 1
           /\ \A k \in PlacesOf(Emitted(r, what, body), Calls(r, {"finally"})) : k = 2
<1> DEFINE a == Callback(r, what, body)
           b == Callback(r, "finally", "none")
<1>1. what \in Kinds /\ "finally" \in Kinds /\ "none" \in Contents /\ what # "finally"
      /\ "finally" \notin Outcome
  BY DEF Kinds, Contents, Outcome
<1>2. a \in Posts /\ b \in Posts /\ \A s, K : /\ a \in Calls(s, K) <=> s = r /\ what \in K
                                              /\ b \in Calls(s, K) <=> s = r /\ "finally" \in K
  BY <1>1, CallbackIn
<1> HIDE DEF a, b
<1>3. Emitted(r, what, body) = IF r \in Finally THEN <<a, b>> ELSE <<a>>
  BY DEF Emitted, a, b
<1>4. <<a>> \in Seq(Posts) /\ <<a, b>> \in Seq(Posts)
  BY <1>2
<1>5. ToSet(<<a>>) = {a} /\ ToSet(<<a, b>>) = {a, b}
  BY ToSetOfFew
<1>6. \A S : /\ \A k : k \in PlacesOf(<<a>>, S) <=> k = 1 /\ a \in S
             /\ \A k : k \in PlacesOf(<<a, b>>, S) <=> (k = 1 /\ a \in S) \/ (k = 2 /\ b \in S)
  BY PlacesOfFew
<1>7. ASSUME NEW s, NEW K, s # r
      PROVE  PlacesOf(<<a>>, Calls(s, K)) = {} /\ PlacesOf(<<a, b>>, Calls(s, K)) = {}
  BY <1>2, <1>6, <1>7
<1>8. \A k : /\ k \in PlacesOf(<<a>>, Calls(r, Outcome)) <=> k = 1
             /\ k \in PlacesOf(<<a, b>>, Calls(r, Outcome)) <=> k = 1
  BY <1>1, <1>2, <1>6
<1>9. \A k : /\ k \notin PlacesOf(<<a>>, Calls(r, {"finally"}))
             /\ k \in PlacesOf(<<a, b>>, Calls(r, {"finally"})) => k = 2
  BY <1>1, <1>2, <1>6
<1> QED
  BY <1>3, <1>4, <1>5, <1>7, <1>8, <1>9 DEF a, b

\* The jobs js, less or more than those of the pool, hold the same callbacks.
SameCallbacks(js) ==
    /\ js \subseteq Jobs
    /\ \A r \in Requests, K \in {Outcome, {"finally"}} : Waiting(r, K, js) = Waiting(r, K, jobs)
    /\ \A r \in Requests : Lookup(r) \in js => Lookup(r) \in jobs

LEMMA EmitOrderly ==
    ASSUME NetworkInv, NEW r \in Requests, NEW what \in Outcome, NEW body \in Contents, NEW js,
           SameCallbacks(js), Lookup(r) \notin js, stage[r] # "over",
           At(r, "over"), Emit(r, what, body, js), UNCHANGED <<files, gone, heard>>
    PROVE  NetworkInv'
<1> DEFINE calls == Emitted(r, what, body)
           first == Callback(r, what, body)
           last == Callback(r, "finally", "none")
<1>1. IF r \in Concurrent
      THEN jobs' = js \cup ToSet(calls) /\ posted' = posted
      ELSE jobs' = js /\ posted' = posted \o calls
  BY DEF Emit, Emitted
<1>2. /\ calls \in Seq(Posts)
      /\ ToSet(calls) = {first} \cup IF r \in Finally THEN {last} ELSE {}
      /\ \A s, K : s # r => PlacesOf(calls, Calls(s, K)) = {}
      /\ \A k : k \in PlacesOf(calls, Calls(r, Outcome)) <=> k = 1
      /\ \A k \in PlacesOf(calls, Calls(r, {"finally"})) : k = 2
  BY EmittedParts
<1>3. /\ first \in Jobs /\ last \in Jobs
      /\ \A s, K : /\ first \in Calls(s, K) <=> s = r /\ what \in K
                   /\ last \in Calls(s, K) <=> s = r /\ "finally" \in K
      /\ \A s : first # Lookup(s) /\ last # Lookup(s)
  BY CallbackIn DEF Kinds, Contents
<1>4. posted \in Seq(Posts) /\ jobs \subseteq Jobs /\ js \subseteq Jobs
  BY DEF NetworkInv, NetworkTypes, SameCallbacks
<1> HIDE DEF calls, first, last
<1>5. NetworkTypes'
  <2>1. jobs' \subseteq Jobs
    BY <1>1, <1>2, <1>3, <1>4
  <2>2. posted' \in Seq(Posts)
    <3>1. posted \o calls \in Seq(Posts)
      BY <1>2, <1>4, ConcatProperties
    <3> QED
      BY <1>1, <1>4, <3>1
  <2>3. stage' \in [Requests -> {"idle", "lookup", "connecting", "sent", "over"}]
    BY DEF NetworkInv, NetworkTypes, At
  <2> QED
    BY <2>1, <2>2, <2>3 DEF NetworkInv, NetworkTypes
<1>6. ASSUME NEW s \in Requests, s # r
      PROVE  Orderly(s, stage[s], jobs, posted, gone, heard[s])'
  <2>1. stage'[s] = stage[s]
    BY <1>6 DEF NetworkInv, NetworkTypes, At
  <2>2. ASSUME NEW K \in {Outcome, {"finally"}}
        PROVE  Waiting(s, K, jobs') = Waiting(s, K, jobs) /\ Shifted(Calls(s, K), posted, posted', 0)
    <3>1. Waiting(s, K, js) = Waiting(s, K, jobs)
      BY DEF SameCallbacks
    <3>2. Waiting(s, K, jobs') = Waiting(s, K, js)
      BY <1>1, <1>2, <1>3, <1>6 DEF Waiting
    <3>3. Shifted(Calls(s, K), posted, posted', 0)
      <4>1. Shifted(Calls(s, K), posted, posted \o calls, 0)
        BY <1>2, <1>4, <1>6, ShiftedByAppend
      <4>2. Shifted(Calls(s, K), posted, posted, 0)
        BY <1>4, ShiftedByNothing
      <4> QED
        BY <1>1, <4>1, <4>2
    <3> QED
      BY <3>1, <3>2, <3>3
  <2>3. Lookup(s) \in jobs' => stage'[s] = "lookup" /\ s \in Cached
    <3>1. Lookup(s) \in jobs' => Lookup(s) \in jobs
      BY <1>1, <1>2, <1>3 DEF SameCallbacks
    <3> QED
      BY <3>1, <2>1 DEF NetworkInv, Orderly
  <2>4. Orderly(s, stage[s], jobs, posted, gone, heard[s])
    BY DEF NetworkInv
  <2>5. Orderly(s, stage'[s], jobs', posted', gone', heard[s])
    BY <2>1, <2>2, <2>3, <2>4, OrderlyFrame
  <2> QED
    BY <2>5
<1>7. Orderly(r, stage[r], jobs, posted, gone, heard[r])'
  <2>1. stage'[r] = "over"
    BY DEF NetworkInv, NetworkTypes, At
  <2>2. /\ Waiting(r, Kinds, jobs) = {} /\ Due(r, Kinds, posted) = {} /\ heard[r] = <<>>
    BY DEF NetworkInv, Orderly, Quiet
  <2>3. /\ Waiting(r, Outcome, js) = {} /\ Waiting(r, {"finally"}, js) = {} /\ Waiting(r, Kinds, js) = {}
        /\ Due(r, Outcome, posted) = {} /\ Due(r, {"finally"}, posted) = {}
    BY <2>2, CallsOf DEF SameCallbacks
  <2>4. Lookup(r) \notin jobs'
    BY <1>1, <1>2, <1>3
  <2>5. CASE r \in Concurrent
    <3>1. Waiting(r, Outcome, jobs') \subseteq {first} /\ Waiting(r, {"finally"}, jobs') \subseteq {last}
      BY <1>1, <1>2, <1>3, <2>3, <2>5 DEF Waiting, Outcome
    <3>2. OnPool(r, jobs', posted', heard'[r])
      BY <1>1, <2>2, <2>5, <3>1 DEF OnPool, One
    <3> QED
      BY <2>1, <2>4, <2>5, <3>2 DEF Orderly, Quiet, OnGui
  <2>6. CASE r \notin Concurrent
    <3> DEFINE n == Len(posted)
               A == Due(r, Outcome, posted')
               B == Due(r, {"finally"}, posted')
    <3>1. \A S, k : k \in PlacesOf(posted', S) <=>
                       \/ k \in PlacesOf(posted, S)
                       \/ k \in Int /\ k - n \in PlacesOf(calls, S)
      BY <1>1, <1>2, <1>4, <2>6, PlacesOfConcat
    <3>2. n \in Nat
      BY <1>4, LenProperties
    <3>3. \A k : k \in A <=> k \in Int /\ k - n = 1
      BY <3>1, <1>2, <2>3 DEF Due
    <3>4. \A k \in B : k \in Int /\ k - n = 2
      BY <3>1, <1>2, <2>3 DEF Due
    <3> HIDE DEF n
    <3>5. One(A) /\ One(B) /\ (\A k \in A, l \in B : k < l)
      BY <3>2, <3>3, <3>4 DEF One
    <3>6. A # {}
      <4>1. n + 1 \in Int /\ (n + 1) - n = 1
        BY <3>2
      <4> QED
        BY <3>3, <4>1
    <3>7. OnGui(r, jobs', posted', gone', heard'[r])
      <4> HIDE DEF A, B
      <4>1. Waiting(r, Kinds, jobs') = {}
        BY <1>1, <2>3, <2>6
      <4>2. heard'[r] = <<>>
        BY <2>2
      <4> QED
        BY <3>5, <3>6, <4>1, <4>2 DEF OnGui, A, B
    <3> QED
      BY <2>1, <2>4, <2>6, <3>7 DEF Orderly, Quiet, OnPool
  <2> QED
    BY <2>5, <2>6
<1> QED
  BY <1>5, <1>6, <1>7 DEF NetworkInv
--------------------------------------------------------------------------------
(* Every step keeps the callbacks of all requests in order *)

\* A step that calls nothing and under which nothing falls due.
LEMMA NothingIsCalled ==
    ASSUME NetworkInv, NetworkTypes', NEW d \in Int,
           \A r \in Requests :
              /\ stage[r] = "over" => stage'[r] = "over"
              /\ Lookup(r) \in jobs' => stage'[r] = "lookup" /\ r \in Cached,
           \A r \in Requests, K \in {Outcome, {"finally"}} :
              /\ Waiting(r, K, jobs') = Waiting(r, K, jobs)
              /\ Shifted(Calls(r, K), posted, posted', d),
           gone \subseteq gone', heard' = heard
    PROVE  NetworkInv'
<1>1. ASSUME NEW r \in Requests PROVE Orderly(r, stage'[r], jobs', posted', gone', heard[r])
  <2>1. Orderly(r, stage[r], jobs, posted, gone, heard[r])
    BY DEF NetworkInv
  <2> QED
    BY <2>1, OrderlyFrame
<1> QED
  BY <1>1 DEF NetworkInv

LEMMA NothingIsPosted ==
    NetworkInv => \A S : Shifted(S, posted, posted, 0)
BY ShiftedByNothing DEF NetworkInv, NetworkTypes

LEMMA OtherJob ==
    ASSUME NEW r, NEW J, NEW j, j.what \notin Kinds, NEW K \in SUBSET Kinds
    PROVE  Waiting(r, K, J \cup {j}) = Waiting(r, K, J) /\ Waiting(r, K, J \ {j}) = Waiting(r, K, J)
BY DEF Waiting, Calls

LEMMA KindsOfCallbacks ==
    /\ \A K \in {Outcome, {"finally"}} : K \in SUBSET Kinds
    /\ \A r : Lookup(r).what \notin Kinds /\ Lookup(r).what = "lookup"
    /\ \A r \in Requests : Lookup(r) \in Jobs
    /\ \A r, s : Lookup(r) = Lookup(s) => r = s
BY DEF Kinds, Outcome, Lookup, Callback, Jobs, Contents

\* Lookups and writes call nothing.
LEMMA OtherJobs ==
    ASSUME NetworkInv, NEW j, j.what \notin Kinds
    PROVE  /\ SameCallbacks(jobs) /\ SameCallbacks(jobs \ {j})
           /\ j \in Jobs /\ (\A s : j # Lookup(s)) => SameCallbacks(jobs \cup {j})
<1>1. jobs \subseteq Jobs
  BY DEF NetworkInv, NetworkTypes
<1>2. ASSUME NEW r \in Requests, NEW K \in {Outcome, {"finally"}}
      PROVE  /\ Waiting(r, K, jobs \cup {j}) = Waiting(r, K, jobs)
             /\ Waiting(r, K, jobs \ {j}) = Waiting(r, K, jobs)
  BY KindsOfCallbacks, OtherJob
<1> QED
  BY <1>1, <1>2 DEF SameCallbacks

LEMMA ExecuteStep ==
    ASSUME NetworkInv, NEW r \in Requests, Execute(r)
    PROVE  NetworkInv'
<1>1. /\ stage \in [Requests -> {"idle", "lookup", "connecting", "sent", "over"}]
      /\ stage[r] = "idle" /\ Lookup(r) \notin jobs
      /\ \A s \in Requests : Lookup(s) \in jobs => stage[s] = "lookup" /\ s \in Cached
      /\ UNCHANGED <<posted, files, gone, heard>>
  BY DEF NetworkInv, NetworkTypes, Orderly, Execute
<1>2. IF r \in Cached
      THEN stage' = [stage EXCEPT ![r] = "lookup"] /\ jobs' = jobs \cup {Lookup(r)}
      ELSE stage' = [stage EXCEPT ![r] = "connecting"] /\ jobs' = jobs
  BY DEF Execute, At
<1>3. NetworkTypes'
  BY <1>1, <1>2, KindsOfCallbacks DEF NetworkInv, NetworkTypes
<1>4. ASSUME NEW s \in Requests
      PROVE  /\ stage[s] = "over" => stage'[s] = "over"
             /\ Lookup(s) \in jobs' => stage'[s] = "lookup" /\ s \in Cached
  BY <1>1, <1>2, KindsOfCallbacks
<1>5. ASSUME NEW s \in Requests, NEW K \in {Outcome, {"finally"}}
      PROVE  /\ Waiting(s, K, jobs') = Waiting(s, K, jobs)
             /\ Shifted(Calls(s, K), posted, posted', 0)
  BY <1>1, <1>2, KindsOfCallbacks, OtherJob, NothingIsPosted
<1> QED
  BY <1>1, <1>3, <1>4, <1>5, NothingIsCalled

LEMMA LoadCachedStep ==
    ASSUME NetworkInv, NEW r \in Requests, LoadCached(r)
    PROVE  NetworkInv'
<1>1. /\ Lookup(r) \in jobs /\ stage[r] = "lookup" /\ UNCHANGED <<files, gone, heard>>
      /\ \A s \in Requests : Lookup(s) \in jobs => stage[s] = "lookup" /\ s \in Cached
  BY DEF NetworkInv, Orderly, LoadCached
<1> DEFINE js == jobs \ {Lookup(r)}
<1>2. SameCallbacks(js)
  BY KindsOfCallbacks, OtherJobs
<1>3. CASE files[UrlOf[r]] = "none"
  <2>1. /\ stage' = [stage EXCEPT ![r] = "connecting"] /\ jobs' = js /\ posted' = posted
        /\ Lookup(r) \notin js
    BY <1>3 DEF LoadCached, At
  <2>2. NetworkTypes'
    BY <1>1, <2>1 DEF NetworkInv, NetworkTypes
  <2>3. ASSUME NEW s \in Requests
        PROVE  /\ stage[s] = "over" => stage'[s] = "over"
               /\ Lookup(s) \in jobs' => stage'[s] = "lookup" /\ s \in Cached
    <3>1. stage \in [Requests -> {"idle", "lookup", "connecting", "sent", "over"}]
      BY DEF NetworkInv, NetworkTypes
    <3> QED
      BY <1>1, <2>1, <3>1
  <2>4. ASSUME NEW s \in Requests, NEW K \in {Outcome, {"finally"}}
        PROVE  /\ Waiting(s, K, jobs') = Waiting(s, K, jobs)
               /\ Shifted(Calls(s, K), posted, posted', 0)
    BY <1>2, <2>1, NothingIsPosted DEF SameCallbacks
  <2> QED
    BY <1>1, <2>2, <2>3, <2>4, NothingIsCalled
<1>4. CASE files[UrlOf[r]] # "none"
  <2>1. At(r, "over") /\ Emit(r, "success", files[UrlOf[r]], js)
    BY <1>4 DEF LoadCached
  <2>2. files[UrlOf[r]] \in Contents
    <3>1. r \in Cached /\ files \in [Urls -> Contents]
      BY <1>1 DEF NetworkInv, NetworkTypes
    <3> QED
      BY <3>1, RequestsAssumption
  <2>3. "success" \in Outcome /\ Lookup(r) \notin js /\ stage[r] # "over"
    BY <1>1 DEF Outcome
  <2> QED
    BY <1>1, <1>2, <2>1, <2>2, <2>3, EmitOrderly
<1> QED
  BY <1>3, <1>4

LEMMA WorkerStep ==
    ASSUME NetworkInv, NEW r \in Requests, NEW bodies \in SUBSET Bodies, Worker(r, bodies)
    PROVE  NetworkInv'
<1>1. SameCallbacks(jobs)
  BY DEF SameCallbacks, NetworkInv, NetworkTypes
<1>2. Lookup(r) \in jobs => stage[r] = "lookup" /\ r \in Cached
  BY DEF NetworkInv, Orderly
<1>3. "none" \in Contents /\ "error" \in Outcome /\ "success" \in Outcome
  BY DEF Contents, Outcome
<1>4. CASE RequestSent(r)
  <2>1. /\ stage[r] = "connecting" /\ stage' = [stage EXCEPT ![r] = "sent"]
        /\ UNCHANGED <<jobs, posted, files, gone, heard>>
    BY <1>4 DEF RequestSent, At
  <2>2. NetworkTypes'
    BY <2>1 DEF NetworkInv, NetworkTypes
  <2>3. ASSUME NEW s \in Requests
        PROVE  /\ stage[s] = "over" => stage'[s] = "over"
               /\ Lookup(s) \in jobs' => stage'[s] = "lookup" /\ s \in Cached
    <3>1. stage \in [Requests -> {"idle", "lookup", "connecting", "sent", "over"}]
      BY DEF NetworkInv, NetworkTypes
    <3>2. Lookup(s) \in jobs => stage[s] = "lookup" /\ s \in Cached
      BY DEF NetworkInv, Orderly
    <3> QED
      BY <2>1, <3>1, <3>2
  <2>4. \A s \in Requests, K \in {Outcome, {"finally"}} :
           /\ Waiting(s, K, jobs') = Waiting(s, K, jobs)
           /\ Shifted(Calls(s, K), posted, posted', 0)
    BY <2>1, NothingIsPosted
  <2> QED
    BY <2>1, <2>2, <2>3, <2>4, NothingIsCalled
<1>5. CASE Timeout(r)
  BY <1>1, <1>2, <1>3, <1>5, EmitOrderly DEF Timeout
<1>6. CASE FinishedWithError(r)
  BY <1>1, <1>2, <1>3, <1>6, EmitOrderly DEF FinishedWithError
<1>7. ASSUME NEW body \in bodies, Finished(r, body) PROVE NetworkInv'
  <2> DEFINE w == Callback(r, "write", body)
             js == IF r \in Cached THEN jobs \cup {w} ELSE jobs
  <2>1. w \in Jobs /\ w.what \notin Kinds /\ body \in Contents /\ \A s : w # Lookup(s)
    BY DEF Callback, Jobs, Kinds, Outcome, Contents, Lookup
  <2>2. SameCallbacks(js)
    BY <1>1, <2>1, OtherJobs
  <2>3. stage[r] = "sent" /\ At(r, "over") /\ Emit(r, "success", body, js)
        /\ UNCHANGED <<files, gone, heard>>
    BY <1>7 DEF Finished
  <2>4. Lookup(r) \notin js
    BY <1>2, <2>1, <2>3
  <2> QED
    BY <1>3, <2>1, <2>2, <2>3, <2>4, EmitOrderly
<1> QED
  BY <1>4, <1>5, <1>6, <1>7 DEF Worker
\* The jobs that write a file.
LEMMA WriteStep ==
    ASSUME NetworkInv, NEW r \in Requests, WriteOpen(r) \/ WriteClose(r)
    PROVE  NetworkInv'
<1>1. PICK j \in jobs :
         /\ j.request = r /\ j.what \in {"write", "writing"}
         /\ \/ /\ jobs' = (jobs \ {j}) \cup {[j EXCEPT !.what = "writing"]}
               /\ \E seen \in {"broken", "cut"} : files' = [files EXCEPT ![UrlOf[r]] = seen]
            \/ /\ jobs' = jobs \ {j}
               /\ files' = [files EXCEPT ![UrlOf[r]] = j.body]
         /\ UNCHANGED <<stage, posted, gone, heard>>
  BY DEF WriteOpen, WriteClose
<1> DEFINE w == [j EXCEPT !.what = "writing"]
<1>2. /\ j \in Jobs /\ j.body \in Contents /\ "broken" \in Contents /\ "cut" \in Contents
      /\ jobs \subseteq Jobs
  BY DEF NetworkInv, NetworkTypes, Jobs, Contents, Bodies
<1>3. w \in Jobs /\ w.what = "writing"
  BY <1>2 DEF Jobs
<1>4. w.what \notin Kinds /\ j.what \notin Kinds /\ \A s : w # Lookup(s)
  BY <1>1, <1>3, KindsOfCallbacks DEF Kinds, Outcome
<1> HIDE DEF w
<1>5. NetworkTypes'
  <2>1. jobs' \subseteq Jobs
    BY <1>1, <1>2, <1>3 DEF w
  <2>2. files' \in [Urls -> Contents]
    BY <1>1, <1>2 DEF NetworkInv, NetworkTypes
  <2> QED
    BY <1>1, <2>1, <2>2 DEF NetworkInv, NetworkTypes
<1>6. ASSUME NEW s \in Requests
      PROVE  /\ stage[s] = "over" => stage'[s] = "over"
             /\ Lookup(s) \in jobs' => stage'[s] = "lookup" /\ s \in Cached
  <2>1. Lookup(s) \in jobs' => Lookup(s) \in jobs
    BY <1>1, <1>4 DEF w
  <2> QED
    BY <1>1, <2>1 DEF NetworkInv, Orderly
<1>7. ASSUME NEW s \in Requests, NEW K \in {Outcome, {"finally"}}
      PROVE  /\ Waiting(s, K, jobs') = Waiting(s, K, jobs)
             /\ Shifted(Calls(s, K), posted, posted', 0)
  <2>1. \A J : /\ Waiting(s, K, J \ {j}) = Waiting(s, K, J)
               /\ Waiting(s, K, J \cup {w}) = Waiting(s, K, J)
    <3>1. K \in SUBSET Kinds
      BY KindsOfCallbacks
    <3> QED
      BY <1>4, <3>1, OtherJob
  <2>2. jobs' = jobs \ {j} \/ jobs' = (jobs \ {j}) \cup {w}
    BY <1>1 DEF w
  <2>3. Waiting(s, K, jobs') = Waiting(s, K, jobs)
    BY <2>1, <2>2
  <2> QED
    BY <1>1, <2>3, NothingIsPosted
<1> QED
  BY <1>1, <1>5, <1>6, <1>7, NothingIsCalled

LEMMA CallerGoneStep ==
    ASSUME NetworkInv, NEW r \in Requests, CallerGone(r)
    PROVE  NetworkInv'
<1>1. gone' = gone \cup {r} /\ r \in Called /\ UNCHANGED <<stage, jobs, posted, files, heard>>
  BY DEF CallerGone
<1>2. NetworkTypes'
  BY <1>1 DEF NetworkInv, NetworkTypes
<1>3. \A s \in Requests : Lookup(s) \in jobs => stage[s] = "lookup" /\ s \in Cached
  BY DEF NetworkInv, Orderly
<1> QED
  BY <1>1, <1>2, <1>3, NothingIsPosted, NothingIsCalled

\* What is posted to an image is not a callback.
LEMMA ImagePostStep ==
    ASSUME NetworkInv, UNCHANGED <<stage, jobs, files, gone, heard>>,
           NEW i \in Images, NEW what \in {"some", "nothing"},
           \/ posted' = Append(posted, [image |-> i, what |-> what])
           \/ posted # <<>> /\ Head(posted) = [image |-> i, what |-> what] /\ posted' = Tail(posted)
    PROVE  NetworkInv'
<1> DEFINE e == [image |-> i, what |-> what]
<1>1. e \in Posts /\ \A r, K : e \notin Calls(r, K)
  <2>1. e \in [image : Images, what : {"some", "nothing"}]
    OBVIOUS
  <2>2. \A r, K : e \notin Calls(r, K)
    BY DEF Calls
  <2> QED
    BY <2>1, <2>2 DEF Posts
<1> HIDE DEF e
<1>2. posted \in Seq(Posts)
  BY DEF NetworkInv, NetworkTypes
<1>3. \A s \in Requests : Lookup(s) \in jobs => stage[s] = "lookup" /\ s \in Cached
  BY DEF NetworkInv, Orderly
<1>4. CASE posted' = Append(posted, e)
  <2>1. posted' = posted \o <<e>> /\ posted' \in Seq(Posts) /\ <<e>> \in Seq(Posts)
    BY <1>1, <1>2, <1>4, AppendProperties
  <2>2. NetworkTypes'
    BY <2>1 DEF NetworkInv, NetworkTypes
  <2>3. ASSUME NEW s \in Requests, NEW K \in {Outcome, {"finally"}}
        PROVE  Shifted(Calls(s, K), posted, posted', 0)
    <3>1. PlacesOf(<<e>>, Calls(s, K)) = {}
      BY <1>1, PlacesOfFew
    <3> QED
      BY <1>2, <2>1, <3>1, ShiftedByAppend
  <2> QED
    BY <1>3, <2>2, <2>3, NothingIsCalled
<1>5. CASE posted # <<>> /\ Head(posted) = e /\ posted' = Tail(posted)
  <2>1. posted' \in Seq(Posts)
    BY <1>2, <1>5, HeadTailProperties
  <2>2. NetworkTypes'
    BY <2>1 DEF NetworkInv, NetworkTypes
  <2>3. ASSUME NEW s \in Requests, NEW K \in {Outcome, {"finally"}}
        PROVE  Shifted(Calls(s, K), posted, posted', 1)
    BY <1>1, <1>2, <1>5, ShiftedByTail
  <2> QED
    BY <1>3, <2>2, <2>3, NothingIsCalled
<1> QED
  BY <1>4, <1>5 DEF e

LEMMA NetworkStutter ==
    ASSUME NetworkInv, UNCHANGED network
    PROVE  NetworkInv'
BY DEF NetworkInv, NetworkTypes, Orderly, network

--------------------------------------------------------------------------------
(* A callback is called *)

LEMMA HeardFirst == Append(<<>>, "finally") = <<"finally">>
OBVIOUS

LEMMA HeardOnce ==
    ASSUME NEW what \in Outcome
    PROVE  /\ Append(<<>>, what) \in Started
           /\ Append(<<"finally">>, what) \in Heards
           /\ Append(<<>>, "finally") \in Heards
           /\ \A h \in Started : Append(h, "finally") \in Complete
<1>1. ASSUME NEW a \in Kinds, NEW b \in Kinds
      PROVE  Append(<<>>, a) = <<a>> /\ Append(<<a>>, b) = <<a, b>>
  <2>1. <<>> \in Seq(Kinds) /\ <<a>> \in Seq(Kinds) /\ <<a, b>> \in Seq(Kinds)
    OBVIOUS
  <2>2. Append(<<>>, a) = <<a>>
    OBVIOUS
  <2> DEFINE u == Append(<<a>>, b)
  <2>3. u \in Seq(Kinds) /\ Len(u) = 2 /\ u[1] = a /\ u[2] = b
    <3>1. Len(<<a>>) = 1 /\ <<a>>[1] = a
      OBVIOUS
    <3> QED
      BY <2>1, <3>1, AppendProperties
  <2> HIDE DEF u
  <2>4. u = <<a, b>>
    <3>1. Len(<<a, b>>) = 2 /\ <<a, b>>[1] = a /\ <<a, b>>[2] = b
      OBVIOUS
    <3>2. \A i \in 1 .. Len(u) : u[i] = <<a, b>>[i]
      BY <2>3, <3>1
    <3> QED
      BY <2>1, <2>3, <3>1, <3>2, SeqEqual
  <2> QED
    BY <2>2, <2>4 DEF u
<1> QED
  BY <1>1 DEF Kinds, Outcome, Started, Complete, Heards

LEMMA CallOnPoolStep ==
    ASSUME NetworkInv, NEW c, CallOnPool(c)
    PROVE  NetworkInv'
<1> DEFINE r == c.request
<1>1. /\ c \in jobs /\ c.what \in Kinds /\ jobs' = jobs \ {c}
      /\ heard' = IF r \in gone THEN heard ELSE [heard EXCEPT ![r] = Append(@, c.what)]
      /\ UNCHANGED <<stage, posted, files, gone>>
  BY DEF CallOnPool, Hear, Kinds
<1>2. c \in Jobs /\ r \in Requests /\ c \in Calls(r, Kinds) /\ gone \subseteq Called
      /\ \A s, K : c \in Calls(s, K) <=> s = r /\ c.what \in K
  <2>1. c \in Jobs /\ gone \subseteq Called
    BY <1>1 DEF NetworkInv, NetworkTypes
  <2> QED
    BY <1>1, <2>1 DEF Jobs, Calls
<1>3. c \in Waiting(r, Kinds, jobs)
  BY <1>1, <1>2 DEF Waiting
<1>4. r \in Concurrent /\ r \notin gone /\ stage[r] = "over"
      /\ Orderly(r, stage[r], jobs, posted, gone, heard[r])
  BY <1>2, <1>3, RequestsAssumption DEF NetworkInv, Orderly, OnGui, Quiet
<1> HIDE DEF r
<1>5. ASSUME NEW s, NEW K
      PROVE  Waiting(s, K, jobs') = IF s = r /\ c.what \in K
                                    THEN Waiting(s, K, jobs) \ {c} ELSE Waiting(s, K, jobs)
  BY <1>1, <1>2 DEF Waiting
<1>6. heard \in [Requests -> Heards] /\ heard' = [heard EXCEPT ![r] = Append(@, c.what)]
  BY <1>1, <1>4 DEF NetworkInv, NetworkTypes
<1>7. Lookup(r) \notin jobs
  BY <1>2, <1>4 DEF NetworkInv, Orderly
<1>8. /\ Orderly(r, stage[r], jobs', posted, gone, Append(heard[r], c.what))
      /\ Append(heard[r], c.what) \in Heards
  <2> DEFINE A == Waiting(r, Outcome, jobs)
             B == Waiting(r, {"finally"}, jobs)
  <2>1. /\ Due(r, Kinds, posted) = {} /\ One(A) /\ One(B)
        /\ A # {} => heard[r] \in {<<>>, <<"finally">>}
        /\ B # {} => heard[r] \in {<<>>} \cup Started
    BY <1>4 DEF Orderly, OnPool
  <2>2. CASE c.what \in Outcome
    <3>1. c \in A /\ "finally" # c.what
      BY <1>1, <1>2, <2>2 DEF Waiting, Outcome
    <3>2. Waiting(r, Outcome, jobs') = {} /\ Waiting(r, {"finally"}, jobs') = B
      BY <1>5, <2>1, <2>2, <3>1 DEF One
    <3>3. heard[r] \in {<<>>, <<"finally">>} /\ (B # {} => heard[r] = <<>>)
      <4>1. <<"finally">> \notin Started
        BY DEF Started
      <4> QED
        BY <2>1, <3>1, <4>1
    <3>4. Append(heard[r], c.what) \in Heards /\ (B # {} => Append(heard[r], c.what) \in Started)
      BY <2>2, <3>3, HeardOnce DEF Heards
    <3>5. OnPool(r, jobs', posted, Append(heard[r], c.what))
      BY <2>1, <3>2, <3>4 DEF OnPool, One
    <3> QED
      BY <1>1, <1>4, <1>7, <3>4, <3>5 DEF Orderly, Quiet, OnGui
  <2>3. CASE c.what = "finally"
    <3>1. c \in B /\ "finally" \notin Outcome
      BY <1>1, <1>2, <2>3 DEF Waiting, Outcome
    <3>2. Waiting(r, Outcome, jobs') = A /\ Waiting(r, {"finally"}, jobs') = {}
      BY <1>5, <2>1, <2>3, <3>1 DEF One
    <3>3. heard[r] \in {<<>>} \cup Started /\ (A # {} => heard[r] = <<>>)
      <4>1. <<"finally">> \notin Started
        BY DEF Started
      <4> QED
        BY <2>1, <3>1, <4>1
    <3>4. Append(<<>>, "finally") = <<"finally">>
      BY HeardFirst
    <3>5. Append(heard[r], c.what) \in Heards /\ (A # {} => Append(heard[r], c.what) = <<"finally">>)
      <4>1. "success" \in Outcome
        BY DEF Outcome
      <4> QED
        BY <2>3, <3>3, <3>4, <4>1, HeardOnce DEF Heards
    <3>6. OnPool(r, jobs', posted, Append(heard[r], c.what))
      BY <2>1, <3>2, <3>5 DEF OnPool, One
    <3> QED
      BY <1>1, <1>4, <1>7, <3>5, <3>6 DEF Orderly, Quiet, OnGui
  <2> QED
    BY <1>1, <2>2, <2>3 DEF Kinds
<1>9. ASSUME NEW s \in Requests, s # r
      PROVE  Orderly(s, stage[s], jobs', posted, gone, heard[s])
  <2>1. Orderly(s, stage[s], jobs, posted, gone, heard[s])
    BY DEF NetworkInv
  <2>2. Lookup(s) \in jobs' => stage[s] = "lookup" /\ s \in Cached
    BY <1>1, <2>1 DEF Orderly
  <2>3. \A K \in {Outcome, {"finally"}} :
           /\ Waiting(s, K, jobs') = Waiting(s, K, jobs)
           /\ Shifted(Calls(s, K), posted, posted, 0)
    BY <1>5, <1>9, NothingIsPosted
  <2> QED
    BY <2>1, <2>2, <2>3, OrderlyFrame
<1>10. NetworkTypes'
  <2>1. heard' \in [Requests -> Heards]
    BY <1>6, <1>8
  <2> QED
    BY <1>1, <2>1 DEF NetworkInv, NetworkTypes
<1>11. ASSUME NEW s \in Requests PROVE Orderly(s, stage[s], jobs, posted, gone, heard[s])'
  <2>1. CASE s = r
    BY <1>1, <1>2, <1>6, <1>8, <2>1 DEF r
  <2>2. CASE s # r
    BY <1>1, <1>6, <1>9, <2>2
  <2> QED
    BY <2>1, <2>2
<1> QED
  BY <1>10, <1>11 DEF NetworkInv
LEMMA CallOnGuiStep ==
    ASSUME NetworkInv, NEW c, "request" \in DOMAIN c, CallOnGui(c)
    PROVE  NetworkInv'
<1> DEFINE r == c.request
           A == Due(r, Outcome, posted)
           B == Due(r, {"finally"}, posted)
           A2 == Due(r, Outcome, posted')
           B2 == Due(r, {"finally"}, posted')
<1>1. /\ posted # <<>> /\ Head(posted) = c /\ c.what \in Kinds /\ posted' = Tail(posted)
      /\ heard' = IF r \in gone THEN heard ELSE [heard EXCEPT ![r] = Append(@, c.what)]
      /\ UNCHANGED <<stage, jobs, files, gone>>
  BY DEF CallOnGui, Hear, Kinds
<1>2. posted \in Seq(Posts) /\ posted' \in Seq(Posts) /\ c \in Posts
  <2>1. posted \in Seq(Posts)
    BY DEF NetworkInv, NetworkTypes
  <2> QED
    BY <1>1, <2>1, HeadTailProperties
<1>3. r \in Requests /\ \A s, K : c \in Calls(s, K) <=> s = r /\ c.what \in K
  <2>1. c \in [request : Requests, what : Kinds, body : Contents]
    BY <1>1, <1>2 DEF Posts, Kinds, Outcome
  <2> QED
    BY <2>1 DEF Calls
<1> HIDE DEF r
<1>4. ASSUME NEW K
      PROVE  /\ \A k \in Int : k \in Due(r, K, posted') <=> k >= 1 /\ k + 1 \in Due(r, K, posted)
             /\ 1 \in Due(r, K, posted) <=> c.what \in K
             /\ \A k \in Due(r, K, posted) \cup Due(r, K, posted') : k \in Int /\ k >= 1
  <2>1. c \in Calls(r, K) <=> c.what \in K
    BY <1>3
  <2> QED
    BY <1>1, <1>2, <2>1, PlacesOfTail DEF Due
<1>5. /\ \A k \in Int : k \in A2 <=> k >= 1 /\ k + 1 \in A
      /\ \A k \in Int : k \in B2 <=> k >= 1 /\ k + 1 \in B
      /\ \A k \in A \cup B \cup A2 \cup B2 : k \in Int /\ k >= 1
  BY <1>4
<1>6. (1 \in A <=> c.what \in Outcome) /\ (1 \in B <=> c.what = "finally")
  BY <1>4
<1>7. r \notin Concurrent /\ stage[r] = "over"
      /\ Orderly(r, stage[r], jobs, posted, gone, heard[r])
  <2>1. Due(r, Kinds, posted) # {}
    BY <1>1, <1>4
  <2> QED
    BY <1>3, <2>1 DEF NetworkInv, Orderly, Quiet, OnPool
<1>8. /\ Waiting(r, Kinds, jobs) = {} /\ One(A) /\ One(B) /\ \A k \in A, l \in B : k < l
      /\ A # {} => heard[r] = <<>>
      /\ B # {} => A # {} \/ heard[r] \in Started \/ r \in gone
      /\ heard[r] \in {<<>>} \cup Started \cup Complete
  BY <1>7 DEF Orderly, OnGui
<1> HIDE DEF A, B, A2, B2
<1>9. One(A2) /\ One(B2) /\ \A k \in A2, l \in B2 : k < l
  <2>1. \A k \in A2 : k \in Int /\ k + 1 \in A
    BY <1>5
  <2>2. \A k \in B2 : k \in Int /\ k + 1 \in B
    BY <1>5
  <2> QED
    BY <1>8, <2>1, <2>2 DEF One
<1> DEFINE h == IF r \in gone THEN heard[r] ELSE Append(heard[r], c.what)
<1>10. /\ A2 = {} /\ h \in {<<>>} \cup Started \cup Complete
       /\ B2 # {} => h \in Started \/ r \in gone
  <2>1. CASE c.what \in Outcome
    <3>1. A = {1} /\ heard[r] = <<>>
      BY <1>6, <1>8, <2>1 DEF One
    <3>2. A2 = {}
      <4>1. ASSUME NEW k \in A2 PROVE FALSE
        <5>1. k \in Int /\ k >= 1
          BY <1>5
        <5>2. k + 1 = 1
          BY <1>5, <3>1, <5>1
        <5> QED
          BY <5>1, <5>2
      <4> QED
        BY <4>1
    <3>3. r \notin gone => h \in Started
      BY <2>1, <3>1, HeardOnce
    <3> QED
      BY <3>1, <3>2, <3>3
  <2>2. CASE c.what = "finally"
    <3>1. B = {1}
      BY <1>6, <1>8, <2>2 DEF One
    <3>2. A = {}
      BY <1>5, <1>8, <3>1
    <3>3. A2 = {} /\ B2 = {}
      BY <1>5, <3>1, <3>2
    <3>4. r \notin gone => h \in Complete
      <4>1. "success" \in Outcome
        BY DEF Outcome
      <4> QED
        BY <1>8, <2>2, <3>1, <3>2, <4>1, HeardOnce
    <3> QED
      BY <1>8, <3>3, <3>4
  <2> QED
    BY <1>1, <2>1, <2>2 DEF Kinds
<1> HIDE DEF h
<1>11. heard \in [Requests -> Heards] /\ h \in Heards
  BY <1>10 DEF NetworkInv, NetworkTypes, Heards
<1>12. heard' \in [Requests -> Heards] /\ heard'[r] = h /\ \A s \in Requests : s # r => heard'[s] = heard[s]
  BY <1>1, <1>3, <1>11 DEF h
<1>13. NetworkTypes'
  BY <1>1, <1>2, <1>12 DEF NetworkInv, NetworkTypes
<1>14. Orderly(r, stage[r], jobs, posted, gone, heard[r])'
  <2>1. OnGui(r, jobs, posted', gone, h)
    BY <1>8, <1>9, <1>10 DEF OnGui, A2, B2
  <2>2. Orderly(r, stage[r], jobs, posted', gone, h)
    BY <1>7, <2>1 DEF Orderly, Quiet, OnPool
  <2> QED
    BY <1>1, <1>12, <2>2
<1>15. ASSUME NEW s \in Requests, s # r
       PROVE  Orderly(s, stage[s], jobs, posted, gone, heard[s])'
  <2>1. Orderly(s, stage[s], jobs, posted, gone, heard[s])
    BY DEF NetworkInv
  <2>2. \A K \in {Outcome, {"finally"}} : Shifted(Calls(s, K), posted, posted', 1)
    BY <1>1, <1>2, <1>3, <1>15, ShiftedByTail
  <2>3. Lookup(s) \in jobs => stage[s] = "lookup" /\ s \in Cached
    BY <2>1 DEF Orderly
  <2>4. Orderly(s, stage[s], jobs, posted', gone, heard[s])
    BY <2>1, <2>2, <2>3, OrderlyFrame
  <2> QED
    BY <1>1, <1>12, <1>15, <2>4
<1> QED
  BY <1>13, <1>14, <1>15 DEF NetworkInv

LEMMA NetworkInvInit == NetworkInit => NetworkInv
<1> SUFFICES ASSUME NetworkInit PROVE NetworkInv
  OBVIOUS
<1>1. NetworkTypes
  BY DEF NetworkInit, NetworkTypes, Contents, Heards
<1>2. \A S : PlacesOf(<<>>, S) = {}
  BY DEF PlacesOf
<1>3. ASSUME NEW r \in Requests PROVE Orderly(r, stage[r], jobs, posted, gone, heard[r])
  BY <1>2 DEF NetworkInit, Orderly, Quiet, OnPool, OnGui, Waiting, Due, One
<1> QED
  BY <1>1, <1>3 DEF NetworkInv

--------------------------------------------------------------------------------
(* Types *)

Running == [request : Loads, what : Outcome \cup {"done"}, body : Contents]

ImageTypes ==
    /\ life \in [Images -> {"unborn", "alive", "dying", "dead"}]
    /\ gui \cup shouldLoad \cup empty \cup idle \cup tracked \subseteq Images
    /\ frames \in [Images -> {"none", "some", "nothing"}]
    /\ loads \in [Images -> 0 .. MaxLoads]
    /\ held \subseteq Running
    /\ sweep \in {None} \cup [todo : SUBSET Images, img : Images \cup {None}, stuck : BOOLEAN]

TypeInv == NetworkInv /\ ImageTypes

LEMMA TypeInvParts == TypeInv => TypeOK /\ OneOutcome
<1> SUFFICES ASSUME TypeInv PROVE TypeOK /\ OneOutcome
  OBVIOUS
<1>1. NetworkTypeOK /\ OneOutcome
  BY NetworkInvParts DEF TypeInv
<1>2. ImageTypes
  BY DEF TypeInv
<1>3. \A h \in held : h.request \in Loads /\ h.what \in Outcome \cup {"done"}
  BY <1>2 DEF ImageTypes, Running
<1>4. sweep = None \/ (sweep.todo \subseteq Images /\ sweep.img \in Images \cup {None})
  BY <1>2 DEF ImageTypes
<1> QED
  BY <1>1, <1>2, <1>3, <1>4 DEF TypeOK, ImageTypes

LEMMA LoadsAreRequests ==
    /\ Loads \subseteq Requests /\ Loads \subseteq Cached /\ Loads \subseteq Concurrent
    /\ Loads \cap Finally = {} /\ Others \subseteq Requests
    /\ \A i \in Images, m \in 1 .. MaxLoads :
          Load(i, m) \in Loads /\ Load(i, m)[1] = i
    /\ \A r \in Loads : r[1] \in Images
BY ImagesAssumption, RequestsAssumption DEF Loads, Others, Load

LEMMA TypeInvInit == Init => TypeInv
BY NetworkInvInit, ImagesAssumption DEF Init, TypeInv, ImageTypes

LEMMA TypeInvNext == TypeInv /\ [Next]_vars => TypeInv'
<1> SUFFICES ASSUME TypeInv, [Next]_vars PROVE TypeInv'
  OBVIOUS
<1> USE DEF TypeInv
<1>1. ASSUME UNCHANGED network PROVE NetworkInv'
  BY <1>1, NetworkStutter
<1>2. ASSUME NEW i \in Images, FromUrl(i) \/ Drop(i) \/ Age(i) \/ Lock(i) \/ Destroy(i)
      PROVE  TypeInv'
  <2>1. NetworkInv'
    BY <1>1, <1>2 DEF FromUrl, Drop, Age, Lock, Destroy
  <2>2. CASE FromUrl(i)
    BY <2>1, <2>2 DEF ImageTypes, FromUrl
  <2>3. CASE Drop(i)
    BY <2>1, <2>3 DEF ImageTypes, Drop
  <2>4. CASE Age(i)
    BY <2>1, <2>4 DEF ImageTypes, Age
  <2>5. CASE Lock(i)
    <3>1. sweep' \in {None} \cup [todo : SUBSET Images, img : Images \cup {None}, stuck : BOOLEAN]
      <4>1. sweep \in [todo : SUBSET Images, img : Images \cup {None}, stuck : BOOLEAN]
        BY <2>5 DEF ImageTypes, Lock, Free
      <4>2. \/ sweep' = [sweep EXCEPT !.todo = @ \ {i}, !.img = i]
            \/ sweep' = [sweep EXCEPT !.todo = @ \ {i}]
        BY <2>5 DEF Lock
      <4> QED
        BY <4>1, <4>2
    <3> QED
      BY <2>1, <2>5, <3>1 DEF ImageTypes, Lock
  <2>6. CASE Destroy(i)
    BY <2>1, <2>6 DEF ImageTypes, Destroy
  <2> QED
    BY <1>2, <2>2, <2>3, <2>4, <2>5, <2>6
<1>3. ASSUME NEW i \in Images, Paint(i) PROVE TypeInv'
  <2>1. CASE i \in shouldLoad
    <3>1. /\ Execute(Load(i, loads[i] + 1)) /\ loads[i] < MaxLoads
          /\ loads' = [loads EXCEPT ![i] = @ + 1]
      BY <1>3, <2>1 DEF Paint
    <3>2. loads[i] \in 0 .. MaxLoads /\ loads[i] + 1 \in 1 .. MaxLoads /\ loads[i] + 1 \in 0 .. MaxLoads
      BY <3>1, ImagesAssumption DEF ImageTypes
    <3>3. Load(i, loads[i] + 1) \in Requests
      BY <3>2, LoadsAreRequests
    <3>4. NetworkInv'
      BY <3>1, <3>3, ExecuteStep
    <3> QED
      BY <1>3, <2>1, <3>1, <3>2, <3>4 DEF Paint, Tracks, ImageTypes
  <2>2. CASE i \notin shouldLoad
    <3>1. NetworkInv'
      BY <1>1, <1>3, <2>2 DEF Paint
    <3> QED
      BY <1>3, <2>2, <3>1 DEF Paint, ImageTypes
  <2> QED
    BY <2>1, <2>2
<1>4. ASSUME NEW i \in Images, NEW d \in {"some", "nothing"}, AssignFrames(i, d) PROVE TypeInv'
  <2>1. NetworkInv'
    BY <1>4, ImagePostStep DEF AssignFrames
  <2> QED
    BY <1>4, <2>1 DEF AssignFrames, ImageTypes
<1>5. ASSUME NEW r \in Others, Ask(r) \/ CallerDestroyed(r) PROVE TypeInv'
  <2>1. NetworkInv'
    BY <1>5, LoadsAreRequests, ExecuteStep, CallerGoneStep DEF Ask, CallerDestroyed
  <2>2. UNCHANGED <<images, sweep, sweeps>>
    BY <1>5 DEF Ask, CallerDestroyed
  <2> QED
    BY <2>1, <2>2 DEF ImageTypes, images
<1>6. ASSUME FreeOld \/ Expire \/ Unlock PROVE TypeInv'
  <2>1. NetworkInv'
    BY <1>1, <1>6 DEF FreeOld, Expire, Unlock
  <2>2. CASE FreeOld
    BY <2>1, <2>2 DEF ImageTypes, FreeOld, images
  <2>3. CASE Unlock
    BY <2>1, <2>3 DEF ImageTypes, Unlock, images
  <2>4. CASE Expire
    <3> DEFINE i == sweep.img
    <3>1. sweep \in [todo : SUBSET Images, img : Images \cup {None}, stuck : BOOLEAN] /\ i \in Images
      BY <2>4 DEF ImageTypes, Expire, Free
    <3>2. /\ sweep' = [sweep EXCEPT !.stuck = TRUE] \/ sweep' = [sweep EXCEPT !.img = None]
          /\ UNCHANGED <<gui, held, empty, idle, loads>>
      BY <2>4 DEF Expire
    <3>3. sweep' \in [todo : SUBSET Images, img : Images \cup {None}, stuck : BOOLEAN]
      BY <3>1, <3>2
    <3>4. life' = life \/ life' = [life EXCEPT ![i] = "dying"]
      BY <2>4 DEF Expire
    <3>5. /\ frames' = frames \/ frames' = [frames EXCEPT ![i] = "none"]
          /\ shouldLoad' = shouldLoad \/ shouldLoad' = shouldLoad \cup {i}
          /\ tracked' = tracked \/ tracked' = tracked \ {i}
      BY <2>4 DEF Expire
    <3> HIDE DEF i
    <3> QED
      BY <2>1, <3>1, <3>2, <3>3, <3>4, <3>5 DEF ImageTypes
  <2> QED
    BY <1>6, <2>2, <2>3, <2>4
<1>7. ASSUME Answered PROVE TypeInv'
  <2>1. NetworkInv'
    BY <1>7, CallOnGuiStep DEF Answered
  <2>2. UNCHANGED <<images, sweep, sweeps>>
    BY <1>7 DEF Answered
  <2> QED
    BY <2>1, <2>2 DEF ImageTypes, images
<1>8. ASSUME NEW c \in jobs, LoadAnswered(c) PROVE TypeInv'
  <2>1. NetworkInv'
    BY <1>8, CallOnPoolStep DEF LoadAnswered
  <2>2. held' \subseteq held \cup {c} /\ (c.what \in Outcome \/ held' = held)
        /\ UNCHANGED <<life, gui, shouldLoad, empty, frames, idle, loads, tracked, sweep, sweeps>>
    BY <1>8 DEF LoadAnswered
  <2>3. c.what \in Outcome => c \in Running
    BY <1>8 DEF LoadAnswered, NetworkInv, NetworkTypes, Jobs, Running
  <2> QED
    BY <2>1, <2>2, <2>3 DEF ImageTypes
<1>9. ASSUME NEW h \in held, Decode(h) \/ Release(h) PROVE TypeInv'
  <2>1. h \in Running /\ h.request[1] \in Images
    BY LoadsAreRequests DEF ImageTypes, Running
  <2>2. CASE Decode(h)
    <3>1. NetworkInv'
      <4>1. \/ UNCHANGED network
            \/ /\ UNCHANGED <<stage, jobs, files, gone, heard>>
               /\ \E d \in {"some", "nothing"} :
                     posted' = Append(posted, [image |-> h.request[1], what |-> d])
        BY <2>2 DEF Decode, network
      <4> QED
        BY <1>1, <2>1, <4>1, ImagePostStep
    <3>2. held' \subseteq held \cup {[h EXCEPT !.what = "done"]}
      BY <2>2 DEF Decode
    <3>3. [h EXCEPT !.what = "done"] \in Running
      BY <2>1 DEF Running
    <3>4. empty' \subseteq Images
      BY <2>1, <2>2 DEF Decode, ImageTypes
    <3> QED
      BY <2>2, <3>1, <3>2, <3>3, <3>4 DEF Decode, ImageTypes
  <2>3. CASE Release(h)
    <3>1. NetworkInv'
      BY <1>1, <2>3 DEF Release
    <3>2. held' \subseteq held /\ (life' = life \/ life' = [life EXCEPT ![h.request[1]] = "dying"])
      BY <2>3 DEF Release
    <3> QED
      BY <2>1, <2>3, <3>1, <3>2 DEF Release, ImageTypes
  <2> QED
    BY <1>9, <2>2, <2>3
<1>10. ASSUME NEW r \in Requests, Network(r) PROVE TypeInv'
  <2>1. NetworkInv'
    <3>1. Bodies \in SUBSET Bodies /\ {"whole"} \in SUBSET Bodies
      BY DEF Bodies
    <3> QED
      BY <1>10, <3>1, WorkerStep, LoadCachedStep, WriteStep DEF Network, Pool
  <2>2. UNCHANGED <<images, sweep, sweeps>>
    BY <1>10 DEF Network
  <2> QED
    BY <2>1, <2>2 DEF ImageTypes, images
<1>11. ASSUME UNCHANGED vars PROVE TypeInv'
  BY <1>1, <1>11 DEF vars, images, network, ImageTypes
<1> QED
  BY <1>2, <1>3, <1>4, <1>5, <1>6, <1>7, <1>8, <1>9, <1>10, <1>11 DEF Next, Gui, Callbacks

\* The types of what waits on the threads, is posted or has been called, whatever
\* the network, the cache and the GUI thread do.
THEOREM TypeCorrect == Spec => []TypeOK
<1>1. TypeInv => TypeOK
  BY TypeInvParts
<1> QED
  BY <1>1, TypeInvInit, TypeInvNext, PTL DEF Spec

\* However replies, errors, timeouts and the cache race, each request calls one of
\* onSuccess and onError, no callback twice, and finally() last on the GUI thread.
THEOREM OneOutcomeHolds == Spec => []OneOutcome
<1>1. TypeInv => OneOutcome
  BY TypeInvParts
<1> QED
  BY <1>1, TypeInvInit, TypeInvNext, PTL DEF Spec

--------------------------------------------------------------------------------
(* At most one load of an image is under way *)

\* A load is with the network, then its callback waits on the pool, then it runs,
\* then what it decoded is posted.
Asking(i, s) == {r \in Loads : r[1] = i /\ s[r] \in {"lookup", "connecting", "sent"}}
LoadCalls(i) == [request : {r \in Loads : r[1] = i}, what : Outcome, body : Contents]
Frames(i) == [image : {i}, what : {"some", "nothing"}]

OneLoad(A, C, H, P) ==
    /\ One(A) /\ One(C) /\ One(H) /\ One(P)
    /\ A = {} \/ (C = {} /\ H = {} /\ P = {})
    /\ C = {} \/ (H = {} /\ P = {})
    /\ H = {} \/ P = {}

Single(i) ==
    OneLoad(Asking(i, stage), jobs \cap LoadCalls(i), held \cap LoadCalls(i),
            PlacesOf(posted, Frames(i)))

Busy(i) ==
    \/ Asking(i, stage) # {} \/ jobs \cap LoadCalls(i) # {} \/ held \cap LoadCalls(i) # {}
    \/ PlacesOf(posted, Frames(i)) # {}

\* While an image has frames, or is to be loaded, nothing of it is under way; while
\* something is, or it has frames, the expiration pool knows it.
ImageInv(i) ==
    /\ Single(i)
    /\ i \in shouldLoad \/ frames[i] = "some" \/ life[i] = "unborn" => ~Busy(i)
    /\ i \in shouldLoad \/ life[i] = "unborn" => frames[i] # "some"
    /\ life[i] = "alive" /\ (Busy(i) \/ frames[i] = "some") => i \in tracked
    /\ i \in tracked => life[i] \in {"alive", "dying"}
    /\ i \in gui => life[i] = "alive"

Inv == TypeInv /\ \A i \in Images : ImageInv(i)

LEMMA InvParts == Inv => LoadedIsTracked
BY DEF Inv, ImageInv, LoadedIsTracked

\* Nothing of a load is added.
LEMMA LoadKept ==
    ASSUME NEW A, NEW C, NEW H, NEW P, OneLoad(A, C, H, P),
           NEW B, NEW D, NEW I, NEW Q,
           B \subseteq A, D \subseteq C, I \subseteq H, One(Q), P = {} => Q = {}
    PROVE  /\ OneLoad(B, D, I, Q)
           /\ B # {} \/ D # {} \/ I # {} \/ Q # {} => A # {} \/ C # {} \/ H # {} \/ P # {}
BY DEF OneLoad, One

LEMMA ShiftedOne ==
    ASSUME NEW S, NEW q, NEW p, NEW d \in Int, Shifted(S, q, p, d), One(PlacesOf(q, S))
    PROVE  One(PlacesOf(p, S)) /\ (PlacesOf(q, S) = {} => PlacesOf(p, S) = {})
<1> DEFINE A == PlacesOf(q, S)
           B == PlacesOf(p, S)
<1>1. (\A k \in B : k \in Int /\ k + d \in A) /\ One(A)
  BY DEF Shifted
<1> HIDE DEF A, B
<1>2. One(B)
  <2>1. ASSUME NEW k \in B, NEW l \in B PROVE k = l
    <3>1. k \in Int /\ l \in Int /\ k + d \in A /\ l + d \in A
      BY <1>1
    <3>2. k + d = l + d
      BY <1>1, <3>1 DEF One
    <3> QED
      BY <3>1, <3>2
  <2> QED
    BY <2>1 DEF One
<1>3. A = {} => B = {}
  <2>1. ASSUME A = {}, NEW k \in B PROVE FALSE
    BY <1>1, <2>1
  <2> QED
    BY <2>1
<1> QED
  BY <1>2, <1>3 DEF A, B

\* A step that leaves the image itself alone.
LEMMA ImageFrame ==
    ASSUME NEW i \in Images, ImageInv(i), Single(i)', Busy(i)' => Busy(i),
           life'[i] = life[i], frames'[i] = frames[i],
           i \in shouldLoad' <=> i \in shouldLoad, i \in tracked' <=> i \in tracked,
           i \in gui' => i \in gui
    PROVE  ImageInv(i)'
BY DEF ImageInv

\* No callback of a load is posted, and no post to an image is a callback.
LEMMA PostsApart ==
    ASSUME NEW i \in Images
    PROVE  /\ \A r, K : Calls(r, K) \cap Frames(i) = {}
           /\ \A c : "request" \in DOMAIN c => c \notin Frames(i)
           /\ \A r : Lookup(r) \notin LoadCalls(i)
           /\ \A c : c.what \notin Outcome => c \notin LoadCalls(i)
           /\ \A c \in LoadCalls(i) : c.request \in Loads /\ c.request[1] = i /\ c.what \in Outcome
                                      /\ c \in Calls(c.request, Outcome)
           /\ \A c \in Jobs \cup Running : c.request \in Loads /\ c.request[1] = i /\ c.what \in Outcome
                                           => c \in LoadCalls(i)
<1>1. \A r, K : Calls(r, K) \cap Frames(i) = {}
  BY DEF Calls, Frames
<1>2. \A c : "request" \in DOMAIN c => c \notin Frames(i)
  BY DEF Frames
<1>3. \A r : Lookup(r) \notin LoadCalls(i)
  BY DEF Lookup, Callback, LoadCalls, Outcome
<1>4. \A c : c.what \notin Outcome => c \notin LoadCalls(i)
  BY DEF LoadCalls
<1>5. \A c \in LoadCalls(i) : c.request \in Loads /\ c.request[1] = i /\ c.what \in Outcome
                              /\ c \in Calls(c.request, Outcome)
  BY DEF LoadCalls, Calls
<1>6. \A c \in Jobs \cup Running : c.request \in Loads /\ c.request[1] = i /\ c.what \in Outcome
                                   => c \in LoadCalls(i)
  BY DEF LoadCalls, Jobs, Running
<1> QED
  BY <1>1, <1>2, <1>3, <1>4, <1>5, <1>6
LEMMA SameLoadCalls ==
    ASSUME NEW i \in Images, NEW js, SameCallbacks(js)
    PROVE  js \cap LoadCalls(i) = jobs \cap LoadCalls(i)
<1>1. \A c \in LoadCalls(i) : c.request \in Requests /\ c \in Calls(c.request, Outcome)
  BY PostsApart, LoadsAreRequests
<1>2. \A r \in Requests : js \cap Calls(r, Outcome) = jobs \cap Calls(r, Outcome)
  BY DEF SameCallbacks, Waiting
<1> QED
  BY <1>1, <1>2

\* Nothing of the image moves, and what is posted moves up.
LEMMA LoadsStay ==
    ASSUME NEW i \in Images, Single(i), NEW d \in Int,
           \A r \in Loads : r[1] = i /\ stage'[r] \in {"lookup", "connecting", "sent"}
                               => stage[r] \in {"lookup", "connecting", "sent"},
           jobs' \cap LoadCalls(i) \subseteq jobs,
           held' \cap LoadCalls(i) \subseteq held,
           Shifted(Frames(i), posted, posted', d)
    PROVE  Single(i)' /\ (Busy(i)' => Busy(i))
<1> DEFINE A == Asking(i, stage)
           C == jobs \cap LoadCalls(i)
           H == held \cap LoadCalls(i)
           P == PlacesOf(posted, Frames(i))
           A2 == Asking(i, stage')
           C2 == jobs' \cap LoadCalls(i)
           H2 == held' \cap LoadCalls(i)
           P2 == PlacesOf(posted', Frames(i))
<1>1. A2 \subseteq A
  BY DEF Asking
<1>2. C2 \subseteq C /\ H2 \subseteq H
  OBVIOUS
<1>3. OneLoad(A, C, H, P)
  BY DEF Single
<1>4. One(P2) /\ (P = {} => P2 = {})
  BY <1>3, ShiftedOne DEF OneLoad
<1> HIDE DEF A, C, H, P, A2, C2, H2, P2
<1>5. /\ OneLoad(A2, C2, H2, P2)
      /\ A2 # {} \/ C2 # {} \/ H2 # {} \/ P2 # {} => A # {} \/ C # {} \/ H # {} \/ P # {}
  BY <1>1, <1>2, <1>3, <1>4, LoadKept
<1> QED
  BY <1>5 DEF Single, Busy, A, C, H, P, A2, C2, H2, P2

LEMMA LoadEnds ==
    ASSUME TypeInv, NEW r \in Requests, NEW what \in Outcome, NEW body \in Contents, NEW js,
           SameCallbacks(js), stage[r] \in {"lookup", "connecting", "sent"},
           At(r, "over"), Emit(r, what, body, js), held' = held,
           NEW i \in Images, Single(i)
    PROVE  Single(i)' /\ (Busy(i)' => Busy(i))
<1> DEFINE calls == Emitted(r, what, body)
           first == Callback(r, what, body)
           last == Callback(r, "finally", "none")
<1>1. /\ IF r \in Concurrent
         THEN jobs' = js \cup ToSet(calls) /\ posted' = posted
         ELSE jobs' = js /\ posted' = posted \o calls
      /\ stage' = [stage EXCEPT ![r] = "over"]
  BY DEF Emit, Emitted, At
<1>2. /\ stage \in [Requests -> {"idle", "lookup", "connecting", "sent", "over"}]
      /\ posted \in Seq(Posts)
  BY DEF TypeInv, NetworkInv, NetworkTypes
<1>3. js \cap LoadCalls(i) = jobs \cap LoadCalls(i)
  BY SameLoadCalls
<1>4. /\ calls \in Seq(Posts)
      /\ ToSet(calls) = {first} \cup IF r \in Finally THEN {last} ELSE {}
  BY EmittedParts
<1>5. ~(r \in Loads /\ r[1] = i) => first \notin LoadCalls(i)
  BY DEF LoadCalls, Callback
<1>6. last \notin LoadCalls(i)
  BY DEF LoadCalls, Callback, Outcome
<1>7. PlacesOf(calls, Frames(i)) = {}
  <2>1. first \notin Frames(i) /\ last \notin Frames(i)
    BY DEF Frames, Callback
  <2>2. \A k : /\ k \in PlacesOf(<<first>>, Frames(i)) <=> k = 1 /\ first \in Frames(i)
               /\ k \in PlacesOf(<<first, last>>, Frames(i)) <=>
                     (k = 1 /\ first \in Frames(i)) \/ (k = 2 /\ last \in Frames(i))
    BY PlacesOfFew
  <2>3. calls = <<first>> \/ calls = <<first, last>>
    BY DEF Emitted
  <2> HIDE DEF calls, first, last
  <2> QED
    BY <2>1, <2>2, <2>3
<1> HIDE DEF calls, first, last
<1>8. Shifted(Frames(i), posted, posted', 0)
  <2>1. Shifted(Frames(i), posted, posted \o calls, 0)
    BY <1>2, <1>4, <1>7, ShiftedByAppend
  <2>2. Shifted(Frames(i), posted, posted, 0)
    BY <1>2, ShiftedByNothing
  <2> QED
    BY <1>1, <2>1, <2>2
<1>9. CASE r \in Loads /\ r[1] = i
  <2> DEFINE A == Asking(i, stage)
             C == jobs \cap LoadCalls(i)
             H == held \cap LoadCalls(i)
             P == PlacesOf(posted, Frames(i))
             A2 == Asking(i, stage')
             C2 == jobs' \cap LoadCalls(i)
  <2>1. jobs' = js \cup {first} /\ posted' = posted
    BY <1>1, <1>4, <1>9, LoadsAreRequests
  <2>2. r \in A /\ A2 \subseteq A \ {r}
    BY <1>1, <1>2, <1>9, LoadsAreRequests DEF Asking
  <2>3. C2 \subseteq C \cup {first}
    BY <1>3, <2>1
  <2>4. OneLoad(A, C, H, P)
    BY DEF Single
  <2> HIDE DEF A, C, H, P, A2, C2
  <2>5. /\ OneLoad(A2, C2, H, P)
        /\ A2 # {} \/ C2 # {} \/ H # {} \/ P # {} => A # {} \/ C # {} \/ H # {} \/ P # {}
    BY <2>2, <2>3, <2>4 DEF OneLoad, One
  <2> QED
    BY <2>1, <2>5 DEF Single, Busy, A, C, H, P, A2, C2
<1>10. CASE ~(r \in Loads /\ r[1] = i)
  <2>1. jobs' \cap LoadCalls(i) \subseteq jobs
    BY <1>1, <1>3, <1>4, <1>5, <1>6, <1>10
  <2>2. \A s \in Loads : s[1] = i /\ stage'[s] \in {"lookup", "connecting", "sent"}
                            => stage[s] \in {"lookup", "connecting", "sent"}
    BY <1>1, <1>2, LoadsAreRequests
  <2> QED
    BY <1>8, <2>1, <2>2, LoadsStay
<1> QED
  BY <1>9, <1>10

LEMMA NetworkMoves ==
    ASSUME TypeInv, NEW r \in Requests, Network(r), NEW i \in Images, Single(i)
    PROVE  Single(i)' /\ (Busy(i)' => Busy(i))
<1>1. held' = held
  BY DEF Network, images
<1>2. /\ stage \in [Requests -> {"idle", "lookup", "connecting", "sent", "over"}]
      /\ posted \in Seq(Posts) /\ jobs \subseteq Jobs /\ files \in [Urls -> Contents]
      /\ Lookup(r) \in jobs => stage[r] = "lookup" /\ r \in Cached
      /\ NetworkInv
  BY DEF TypeInv, NetworkInv, NetworkTypes, Orderly
<1>3. Shifted(Frames(i), posted, posted, 0)
  BY <1>2, ShiftedByNothing
<1>4. "none" \in Contents /\ "error" \in Outcome /\ "success" \in Outcome /\ Bodies \subseteq Contents
  BY DEF Contents, Outcome
<1>5. SameCallbacks(jobs)
  BY <1>2 DEF SameCallbacks
<1>6. CASE LoadCached(r)
  <2> DEFINE js == jobs \ {Lookup(r)}
  <2>1. SameCallbacks(js)
    BY <1>2, KindsOfCallbacks, OtherJobs
  <2>2. Lookup(r) \in jobs
    BY <1>6 DEF LoadCached
  <2>3. CASE files[UrlOf[r]] = "none"
    <3>1. stage' = [stage EXCEPT ![r] = "connecting"] /\ jobs' = js /\ posted' = posted
      BY <1>6, <2>3 DEF LoadCached, At
    <3>2. \A s \in Loads : s[1] = i /\ stage'[s] \in {"lookup", "connecting", "sent"}
                              => stage[s] \in {"lookup", "connecting", "sent"}
      BY <1>2, <2>2, <3>1, LoadsAreRequests
    <3> QED
      BY <1>1, <1>3, <3>1, <3>2, LoadsStay
  <2>4. CASE files[UrlOf[r]] # "none"
    <3>1. At(r, "over") /\ Emit(r, "success", files[UrlOf[r]], js)
      BY <1>6, <2>4 DEF LoadCached
    <3>2. files[UrlOf[r]] \in Contents
      BY <1>2, <2>2, RequestsAssumption
    <3> QED
      BY <1>1, <1>2, <1>4, <2>1, <2>2, <3>1, <3>2, LoadEnds
  <2> QED
    BY <2>3, <2>4
<1>7. CASE RequestSent(r)
  <2>1. stage' = [stage EXCEPT ![r] = "sent"] /\ stage[r] = "connecting" /\ jobs' = jobs /\ posted' = posted
    BY <1>7 DEF RequestSent, At
  <2>2. \A s \in Loads : s[1] = i /\ stage'[s] \in {"lookup", "connecting", "sent"}
                            => stage[s] \in {"lookup", "connecting", "sent"}
    BY <1>2, <2>1, LoadsAreRequests
  <2> QED
    BY <1>1, <1>3, <2>1, <2>2, LoadsStay
<1>8. CASE Timeout(r)
  BY <1>1, <1>4, <1>5, <1>8, LoadEnds DEF Timeout
<1>9. CASE FinishedWithError(r)
  BY <1>1, <1>4, <1>5, <1>9, LoadEnds DEF FinishedWithError
<1>10. ASSUME NEW body \in Bodies, Finished(r, body) PROVE Single(i)' /\ (Busy(i)' => Busy(i))
  <2> DEFINE w == Callback(r, "write", body)
             js == IF r \in Cached THEN jobs \cup {w} ELSE jobs
  <2>1. w \in Jobs /\ w.what \notin Kinds /\ body \in Contents /\ \A s : w # Lookup(s)
    BY DEF Callback, Jobs, Kinds, Outcome, Contents, Lookup
  <2>2. SameCallbacks(js)
    BY <1>2, <1>5, <2>1, OtherJobs
  <2>3. stage[r] = "sent" /\ At(r, "over") /\ Emit(r, "success", body, js)
    BY <1>10 DEF Finished
  <2> QED
    BY <1>1, <1>4, <2>1, <2>2, <2>3, LoadEnds
<1>11. CASE WriteOpen(r) \/ WriteClose(r)
  <2>1. PICK j \in jobs :
           /\ jobs' \subseteq (jobs \ {j}) \cup {[j EXCEPT !.what = "writing"]}
           /\ UNCHANGED <<stage, posted>>
    BY <1>11 DEF WriteOpen, WriteClose
  <2>2. [j EXCEPT !.what = "writing"] \notin LoadCalls(i)
    <3>1. [j EXCEPT !.what = "writing"].what = "writing"
      BY <1>2 DEF Jobs
    <3> QED
      BY <3>1 DEF LoadCalls, Outcome
  <2>3. jobs' \cap LoadCalls(i) \subseteq jobs
    BY <2>1, <2>2
  <2> QED
    BY <1>1, <1>3, <2>1, <2>3, LoadsStay
<1> QED
  <2>1. Worker(r, Bodies) \/ Worker(r, {"whole"}) \/ Pool(r)
    BY DEF Network
  <2>2. "whole" \in Bodies
    BY DEF Bodies
  <2> QED
    BY <1>6, <1>7, <1>8, <1>9, <1>10, <1>11, <2>1, <2>2 DEF Worker, Pool

--------------------------------------------------------------------------------
(* What is loaded is tracked *)

LEMMA InvInit == Init => Inv
<1> SUFFICES ASSUME Init PROVE Inv
  OBVIOUS
<1>1. TypeInv
  BY TypeInvInit
<1>2. ASSUME NEW i \in Images PROVE ImageInv(i)
  <2>1. Asking(i, stage) = {}
    BY LoadsAreRequests DEF Init, NetworkInit, Asking
  <2>2. jobs = {} /\ held = {} /\ PlacesOf(posted, Frames(i)) = {}
    BY DEF Init, NetworkInit, PlacesOf
  <2>3. Single(i) /\ ~Busy(i)
    BY <2>1, <2>2 DEF Single, Busy, OneLoad, One
  <2> QED
    BY <2>3 DEF Init, ImageInv
<1> QED
  BY <1>1, <1>2 DEF Inv

\* The network moves no load.
LEMMA NetworkKeepsLoads ==
    ASSUME NEW i \in Images, Single(i), TypeInv, UNCHANGED network, held' = held
    PROVE  Single(i)' /\ (Busy(i)' => Busy(i))
BY DEF Single, Busy, network

LEMMA PaintStep ==
    ASSUME Inv, NEW i \in Images, Paint(i), NEW k \in Images
    PROVE  ImageInv(k)'
<1> DEFINE r == Load(i, loads[i] + 1)
<1>1. ImageInv(k) /\ ImageInv(i) /\ i \in gui /\ TypeInv /\ UNCHANGED <<life, gui, held, frames>>
  BY DEF Inv, Paint
<1>2. CASE i \notin shouldLoad
  <2>1. UNCHANGED <<network, shouldLoad, tracked>>
    BY <1>2 DEF Paint
  <2> QED
    <3>1. Single(k)' /\ (Busy(k)' => Busy(k))
      BY <1>1, <2>1, NetworkKeepsLoads DEF ImageInv
    <3> QED
      BY <1>1, <2>1, <3>1, ImageFrame
<1>3. CASE i \in shouldLoad
  <2>1. /\ Execute(r) /\ loads[i] < MaxLoads /\ loads[i] \in 0 .. MaxLoads
        /\ shouldLoad' = shouldLoad \ {i} /\ tracked' = tracked \cup {i}
    BY <1>1, <1>3 DEF Paint, Tracks, TypeInv, ImageTypes
  <2>2. r \in Loads /\ r[1] = i
    <3>1. loads[i] + 1 \in 1 .. MaxLoads
      BY <2>1, ImagesAssumption
    <3> QED
      BY <3>1, LoadsAreRequests
  <2> HIDE DEF r
  <2>3. /\ stage' = [stage EXCEPT ![r] = "lookup"] /\ jobs' = jobs \cup {Lookup(r)} /\ posted' = posted
        /\ stage \in [Requests -> {"idle", "lookup", "connecting", "sent", "over"}]
        /\ posted \in Seq(Posts)
    BY <1>1, <2>1, <2>2, LoadsAreRequests DEF Execute, At, TypeInv, NetworkInv, NetworkTypes
  <2>4. CASE k = i
    <3>1. ~Busy(i) /\ life[i] = "alive" /\ frames[i] # "some"
      BY <1>1, <1>3 DEF ImageInv
    <3>2. Asking(i, stage') \subseteq {r}
      BY <2>2, <2>3, <3>1, LoadsAreRequests DEF Busy, Asking
    <3>3. jobs' \cap LoadCalls(i) = {} /\ held' \cap LoadCalls(i) = {}
          /\ PlacesOf(posted', Frames(i)) = {}
      BY <1>1, <2>3, <3>1, PostsApart DEF Busy
    <3>4. Single(i)'
      BY <3>2, <3>3 DEF Single, OneLoad, One
    <3>5. i \notin shouldLoad' /\ i \in tracked' /\ life'[i] = "alive" /\ frames'[i] # "some"
      BY <1>1, <2>1, <3>1
    <3> QED
      BY <2>4, <3>4, <3>5 DEF ImageInv
  <2>5. CASE k # i
    <3>1. \A s \in Loads : s[1] = k /\ stage'[s] \in {"lookup", "connecting", "sent"}
                              => stage[s] \in {"lookup", "connecting", "sent"}
      BY <2>2, <2>3, <2>5, LoadsAreRequests
    <3>2. jobs' \cap LoadCalls(k) \subseteq jobs /\ Shifted(Frames(k), posted, posted', 0)
      BY <2>3, PostsApart, ShiftedByNothing
    <3>3. Single(k)' /\ (Busy(k)' => Busy(k))
      <4>1. Single(k) /\ held' \cap LoadCalls(k) \subseteq held
        BY <1>1 DEF ImageInv
      <4> QED
        BY <3>1, <3>2, <4>1, LoadsStay
    <3> QED
      BY <1>1, <2>1, <2>5, <3>3, ImageFrame
  <2> QED
    BY <2>4, <2>5
<1> QED
  BY <1>2, <1>3

LEMMA AssignStep ==
    ASSUME Inv, NEW i \in Images, NEW d \in {"some", "nothing"}, AssignFrames(i, d),
           NEW k \in Images
    PROVE  ImageInv(k)'
<1>1. /\ ImageInv(k) /\ TypeInv
      /\ UNCHANGED <<stage, jobs, life, gui, held, shouldLoad, tracked>>
      /\ posted # <<>> /\ Head(posted) = [image |-> i, what |-> d] /\ posted' = Tail(posted)
      /\ posted \in Seq(Posts)
  BY DEF Inv, AssignFrames, TypeInv, NetworkInv, NetworkTypes
<1>2. Head(posted) \in Frames(k) <=> k = i
  BY <1>1 DEF Frames
<1>3. CASE k = i
  <2> DEFINE P == PlacesOf(posted, Frames(i))
             P2 == PlacesOf(posted', Frames(i))
  <2>1. /\ 1 \in P /\ \A l \in P2 : l \in Int /\ l >= 1 /\ l + 1 \in P
    BY <1>1, <1>2, <1>3, PlacesOfTail
  <2>2. OneLoad(Asking(i, stage), jobs \cap LoadCalls(i), held \cap LoadCalls(i), P)
    BY <1>1, <1>3 DEF ImageInv, Single
  <2> HIDE DEF P, P2
  <2>3. P2 = {}
    <3>1. ASSUME NEW l \in P2 PROVE FALSE
      <4>1. l + 1 = 1 /\ l \in Int /\ l >= 1
        BY <2>1, <2>2 DEF OneLoad, One
      <4> QED
        BY <4>1
    <3> QED
      BY <3>1
  <2>4. /\ Asking(i, stage) = {} /\ jobs \cap LoadCalls(i) = {} /\ held \cap LoadCalls(i) = {}
    BY <2>1, <2>2 DEF OneLoad
  <2>5. Single(i)' /\ ~Busy(i)'
    <3>1. One({})
      BY DEF One
    <3> QED
      BY <1>1, <2>3, <2>4, <3>1 DEF Single, Busy, OneLoad, P2
  <2>6. Busy(i)
    BY <2>1 DEF Busy, P
  <2>7. i \notin shouldLoad /\ life[i] # "unborn" /\ (life[i] = "alive" => i \in tracked)
    BY <1>1, <1>3, <2>6 DEF ImageInv
  <2> QED
    BY <1>1, <1>3, <2>5, <2>7 DEF ImageInv
<1>4. CASE k # i
  <2>1. Shifted(Frames(k), posted, posted', 1)
    BY <1>1, <1>2, <1>4, ShiftedByTail
  <2>2. Single(k)' /\ (Busy(k)' => Busy(k))
    <3>1. /\ Single(k) /\ jobs' \cap LoadCalls(k) \subseteq jobs /\ held' \cap LoadCalls(k) \subseteq held
          /\ \A r \in Loads : stage'[r] = stage[r]
      BY <1>1 DEF ImageInv
    <3> QED
      BY <2>1, <3>1, LoadsStay
  <2>3. frames'[k] = frames[k]
    BY <1>1, <1>4 DEF AssignFrames, TypeInv, ImageTypes
  <2> QED
    BY <1>1, <2>2, <2>3, ImageFrame
<1> QED
  BY <1>3, <1>4

\* The callback of a load starts.
LEMMA AnswerStep ==
    ASSUME Inv, NEW c \in jobs, LoadAnswered(c), NEW i \in Images
    PROVE  ImageInv(i)'
<1>1. /\ ImageInv(i) /\ TypeInv /\ c \in Jobs /\ c.request \in Loads
      /\ jobs' = jobs \ {c} /\ (held' = held \/ (held' = held \cup {c} /\ c.what \in Outcome))
      /\ UNCHANGED <<stage, posted, life, gui, shouldLoad, frames, tracked>>
  BY DEF Inv, LoadAnswered, CallOnPool, TypeInv, NetworkInv, NetworkTypes
<1> DEFINE A == Asking(i, stage)
           C == jobs \cap LoadCalls(i)
           H == held \cap LoadCalls(i)
           P == PlacesOf(posted, Frames(i))
           C2 == jobs' \cap LoadCalls(i)
           H2 == held' \cap LoadCalls(i)
<1>2. OneLoad(A, C, H, P)
  BY <1>1 DEF ImageInv, Single
<1>3. \/ C2 \subseteq C /\ H2 \subseteq H
      \/ c \in C /\ C2 \subseteq C \ {c} /\ H2 \subseteq H \cup {c}
  BY <1>1
<1> HIDE DEF A, C, H, P, C2, H2
<1>4. /\ OneLoad(A, C2, H2, P)
      /\ A # {} \/ C2 # {} \/ H2 # {} \/ P # {} => A # {} \/ C # {} \/ H # {} \/ P # {}
  BY <1>2, <1>3 DEF OneLoad, One
<1>5. Single(i)' /\ (Busy(i)' => Busy(i))
  BY <1>1, <1>4 DEF Single, Busy, A, C, H, P, C2, H2
<1> QED
  BY <1>1, <1>5, ImageFrame

LEMMA DecodeStep ==
    ASSUME Inv, NEW h \in held, Decode(h), NEW i \in Images
    PROVE  ImageInv(i)'
<1> DEFINE d == IF h.body = "whole" THEN "some" ELSE "nothing"
           e == [image |-> h.request[1], what |-> d]
           done == [h EXCEPT !.what = "done"]
<1>1. /\ ImageInv(i) /\ TypeInv /\ h \in Running /\ h.what \in Outcome
      /\ posted \in Seq(Posts) /\ h.request[1] \in Images
      /\ held' = (held \ {h}) \cup {done}
      /\ posted' = posted \/ posted' = Append(posted, e)
      /\ UNCHANGED <<stage, jobs, life, gui, shouldLoad, frames, tracked>>
  BY LoadsAreRequests DEF Inv, Decode, TypeInv, NetworkInv, NetworkTypes, ImageTypes, Running
<1>2. done \notin LoadCalls(i)
  <2>1. done.what = "done"
    BY <1>1 DEF Running
  <2> HIDE DEF done
  <2> QED
    BY <2>1 DEF LoadCalls, Outcome
<1>3. e \in Posts /\ (e \in Frames(i) => h.request[1] = i)
  BY <1>1 DEF Posts, Frames
<1>4. h.request[1] = i => h \in LoadCalls(i)
  BY <1>1, PostsApart DEF Running
<1> DEFINE A == Asking(i, stage)
           C == jobs \cap LoadCalls(i)
           H == held \cap LoadCalls(i)
           P == PlacesOf(posted, Frames(i))
           H2 == held' \cap LoadCalls(i)
           P2 == PlacesOf(posted', Frames(i))
<1>5. OneLoad(A, C, H, P)
  BY <1>1 DEF ImageInv, Single
<1> HIDE DEF e, done
<1>6. H2 \subseteq H \ {h}
  BY <1>1, <1>2
<1>7. (h.request[1] # i => P2 = P) /\ (P = {} => One(P2))
  <2>1. CASE posted' = posted
    BY <2>1, <1>5 DEF OneLoad
  <2>2. CASE posted' = Append(posted, e)
    <3>1. posted' = posted \o <<e>> /\ <<e>> \in Seq(Posts)
      BY <1>1, <1>3, <2>2, AppendProperties
    <3>2. \A k : k \in P2 <=> k \in P \/ (k \in Int /\ k - Len(posted) \in PlacesOf(<<e>>, Frames(i)))
      BY <1>1, <3>1, PlacesOfConcat
    <3>3. \A k : k \in PlacesOf(<<e>>, Frames(i)) <=> k = 1 /\ e \in Frames(i)
      BY PlacesOfFew
    <3>4. Len(posted) \in Nat
      BY <1>1, LenProperties
    <3> DEFINE n == Len(posted)
    <3>5. n \in Nat /\ \A k : k \in P2 <=> k \in P \/ (k \in Int /\ k - n = 1 /\ e \in Frames(i))
      BY <3>2, <3>3, <3>4
    <3> HIDE DEF n, P, P2
    <3>6. h.request[1] # i => P2 = P
      BY <1>3, <3>5
    <3>7. P = {} => One(P2)
      BY <3>5 DEF One
    <3> QED
      BY <3>6, <3>7
  <2> QED
    BY <1>1, <2>1, <2>2
<1>8. h.request[1] = i => h \in H
  BY <1>4
<1> HIDE DEF A, C, H, P, H2, P2
<1>9. /\ OneLoad(A, C, H2, P2)
      /\ A # {} \/ C # {} \/ H2 # {} \/ P2 # {} => A # {} \/ C # {} \/ H # {} \/ P # {}
  <2>1. CASE h.request[1] = i
    BY <1>5, <1>6, <1>7, <1>8, <2>1 DEF OneLoad, One
  <2>2. CASE h.request[1] # i
    BY <1>5, <1>6, <1>7, <2>2 DEF OneLoad, One
  <2> QED
    BY <2>1, <2>2
<1>10. Single(i)' /\ (Busy(i)' => Busy(i))
  BY <1>1, <1>9 DEF Single, Busy, A, C, H, P, H2, P2
<1> QED
  BY <1>1, <1>10, ImageFrame

LEMMA InvNext == Inv /\ [Next]_vars => Inv'
<1> SUFFICES ASSUME Inv, [Next]_vars PROVE Inv'
  OBVIOUS
<1>1. TypeInv /\ TypeInv'
  BY TypeInvNext DEF Inv
<1> SUFFICES ASSUME NEW k \in Images PROVE ImageInv(k)'
  BY <1>1 DEF Inv
<1>2. ImageInv(k)
  BY DEF Inv
<1>3. ASSUME UNCHANGED network, held' = held PROVE Single(k)' /\ (Busy(k)' => Busy(k))
  BY <1>1, <1>2, <1>3, NetworkKeepsLoads DEF ImageInv
<1>4. /\ life \in [Images -> {"unborn", "alive", "dying", "dead"}]
      /\ frames \in [Images -> {"none", "some", "nothing"}]
      /\ sweep \in {None} \cup [todo : SUBSET Images, img : Images \cup {None}, stuck : BOOLEAN]
      /\ posted \in Seq(Posts)
  BY <1>1 DEF TypeInv, ImageTypes, NetworkInv, NetworkTypes
<1>5. ASSUME NEW i \in Images, FromUrl(i) PROVE ImageInv(k)'
  <2>1. UNCHANGED <<network, held, frames, tracked>> /\ gui' = gui \cup {i}
    BY <1>5 DEF FromUrl
  <2>2. \/ life[i] = "alive" /\ UNCHANGED <<life, shouldLoad>>
        \/ /\ life[i] = "unborn" /\ life' = [life EXCEPT ![i] = "alive"]
           /\ shouldLoad' = shouldLoad \cup {i}
    BY <1>5 DEF FromUrl
  <2>3. Single(k)' /\ (Busy(k)' => Busy(k))
    BY <1>3, <2>1
  <2> QED
    BY <1>2, <1>4, <2>1, <2>2, <2>3 DEF ImageInv
<1>6. ASSUME NEW i \in Images, Drop(i) PROVE ImageInv(k)'
  <2>1. /\ UNCHANGED <<network, held, frames, shouldLoad>> /\ gui' = gui \ {i}
        /\ \/ UNCHANGED <<life, tracked>>
           \/ life' = [life EXCEPT ![i] = "dead"] /\ tracked' = tracked \ {i}
    BY <1>6 DEF Drop
  <2>2. Single(k)' /\ (Busy(k)' => Busy(k))
    BY <1>3, <2>1
  <2>3. i \in gui => life[i] = "alive"
    BY DEF Inv, ImageInv
  <2> QED
    BY <1>2, <1>4, <1>6, <2>1, <2>2, <2>3 DEF ImageInv, Drop
<1>7. ASSUME NEW i \in Images, Paint(i) PROVE ImageInv(k)'
  BY <1>7, PaintStep
<1>8. ASSUME NEW i \in Images, Age(i) PROVE ImageInv(k)'
  BY <1>2, <1>3, <1>8, ImageFrame DEF Age
<1>9. ASSUME NEW i \in Images, NEW d \in {"some", "nothing"}, AssignFrames(i, d) PROVE ImageInv(k)'
  BY <1>9, AssignStep
<1>10. ASSUME NEW i \in Images, Lock(i) PROVE ImageInv(k)'
  <2>1. /\ UNCHANGED <<network, held, frames, shouldLoad, life, gui>>
        /\ tracked' = tracked \/ (tracked' = tracked \ {i} /\ life[i] # "alive")
    BY <1>10 DEF Lock
  <2>2. Single(k)' /\ (Busy(k)' => Busy(k))
    BY <1>3, <2>1
  <2> QED
    BY <1>2, <2>1, <2>2 DEF ImageInv
<1>11. ASSUME NEW i \in Images, Destroy(i) PROVE ImageInv(k)'
  <2>1. /\ UNCHANGED <<network, held, frames, shouldLoad, gui>>
        /\ life[i] = "dying" /\ life' = [life EXCEPT ![i] = "dead"] /\ tracked' = tracked \ {i}
    BY <1>11 DEF Destroy
  <2>2. Single(k)' /\ (Busy(k)' => Busy(k))
    BY <1>3, <2>1
  <2> QED
    BY <1>2, <1>4, <2>1, <2>2 DEF ImageInv
<1>12. ASSUME FreeOld \/ Unlock PROVE ImageInv(k)'
  <2>1. UNCHANGED <<network, held, frames, shouldLoad, gui, life, tracked>>
    BY <1>12 DEF FreeOld, Unlock, images
  <2> QED
    BY <1>2, <1>3, <2>1, ImageFrame
<1>13. ASSUME Expire PROVE ImageInv(k)'
  <2> DEFINE i == sweep.img
             expired == frames[i] = "some" /\ i \in idle
             last == i \notin gui /\ ~HeldByLoad(i, held)
  <2>1. UNCHANGED <<network, held, gui>> /\ i \in Images
    BY <1>4, <1>13 DEF Expire, Free
  <2>2. /\ IF expired
           THEN /\ frames' = [frames EXCEPT ![i] = "none"]
                /\ shouldLoad' = shouldLoad \cup {i} /\ tracked' = tracked \ {i}
           ELSE UNCHANGED <<frames, shouldLoad, tracked>>
        /\ life' = IF last THEN [life EXCEPT ![i] = "dying"] ELSE life
    BY <1>13 DEF Expire
  <2>3. Single(k)' /\ (Busy(k)' => Busy(k))
    BY <1>3, <2>1
  <2>4. last => i \notin gui
    OBVIOUS
  <2> HIDE DEF i, last
  <2>5. CASE k = i
    <3>1. CASE expired
      <4>1. ~Busy(k) /\ life[k] # "unborn" /\ frames'[k] = "none" /\ k \notin tracked'
        BY <1>2, <1>4, <2>1, <2>2, <2>5, <3>1 DEF ImageInv
      <4>2. life'[k] = life[k] \/ (life'[k] = "dying" /\ k \notin gui)
        BY <1>4, <2>1, <2>2, <2>4, <2>5
      <4> QED
        BY <1>2, <2>1, <2>3, <4>1, <4>2 DEF ImageInv
    <3>2. CASE ~expired
      <4>1. UNCHANGED <<frames, shouldLoad, tracked>>
        BY <2>2, <3>2
      <4>2. life'[k] = life[k] \/ (life'[k] = "dying" /\ k \notin gui)
        BY <1>4, <2>1, <2>2, <2>4, <2>5
      <4> QED
        BY <1>2, <2>1, <2>3, <4>1, <4>2 DEF ImageInv
    <3> QED
      BY <3>1, <3>2
  <2>6. CASE k # i
    <3>1. /\ life'[k] = life[k] /\ frames'[k] = frames[k]
          /\ k \in shouldLoad' <=> k \in shouldLoad
          /\ k \in tracked' <=> k \in tracked
      BY <1>4, <2>1, <2>2, <2>6
    <3> QED
      BY <1>2, <2>1, <2>3, <3>1, ImageFrame
  <2> QED
    BY <2>5, <2>6
<1>14. ASSUME NEW r \in Others, Ask(r) PROVE ImageInv(k)'
  <2>1. /\ Execute(r) /\ UNCHANGED images /\ r \notin Loads
    BY <1>14 DEF Ask, Others
  <2>2. /\ \A s \in Loads : stage'[s] = stage[s]
        /\ jobs' \subseteq jobs \cup {Lookup(r)} /\ posted' = posted
    BY <1>1, <2>1, LoadsAreRequests DEF Execute, At, TypeInv, NetworkInv, NetworkTypes
  <2>3. Single(k)' /\ (Busy(k)' => Busy(k))
    <3>1. jobs' \cap LoadCalls(k) \subseteq jobs /\ held' \cap LoadCalls(k) \subseteq held
          /\ Shifted(Frames(k), posted, posted', 0) /\ Single(k)
      BY <1>2, <1>4, <2>1, <2>2, PostsApart, ShiftedByNothing DEF images, ImageInv
    <3> QED
      BY <2>2, <3>1, LoadsStay
  <2> QED
    BY <1>2, <2>1, <2>3, ImageFrame DEF images
<1>15. ASSUME NEW r \in Others, CallerDestroyed(r) PROVE ImageInv(k)'
  <2>1. UNCHANGED <<stage, jobs, posted>> /\ UNCHANGED images
    BY <1>15 DEF CallerDestroyed, CallerGone
  <2>2. Single(k)' /\ (Busy(k)' => Busy(k))
    BY <1>2, <2>1 DEF ImageInv, Single, Busy, images
  <2> QED
    BY <1>2, <2>1, <2>2, ImageFrame DEF images
<1>16. ASSUME Answered PROVE ImageInv(k)'
  <2>1. /\ posted # <<>> /\ "request" \in DOMAIN Head(posted) /\ posted' = Tail(posted)
        /\ UNCHANGED <<stage, jobs>> /\ UNCHANGED images
    BY <1>16 DEF Answered, CallOnGui
  <2>2. Shifted(Frames(k), posted, posted', 1)
    BY <1>4, <2>1, PostsApart, ShiftedByTail
  <2>3. Single(k)' /\ (Busy(k)' => Busy(k))
    <3>1. jobs' \cap LoadCalls(k) \subseteq jobs /\ held' \cap LoadCalls(k) \subseteq held /\ Single(k)
      BY <1>2, <2>1 DEF images, ImageInv
    <3> QED
      BY <2>1, <2>2, <3>1, LoadsStay
  <2> QED
    BY <1>2, <2>1, <2>3, ImageFrame DEF images
<1>17. ASSUME NEW c \in jobs, LoadAnswered(c) PROVE ImageInv(k)'
  BY <1>17, AnswerStep
<1>18. ASSUME NEW h \in held, Decode(h) PROVE ImageInv(k)'
  BY <1>18, DecodeStep
<1>19. ASSUME NEW h \in held, Release(h) PROVE ImageInv(k)'
  <2> DEFINE i == h.request[1]
  <2>1. /\ UNCHANGED <<network, frames, shouldLoad, tracked, gui>>
        /\ held' = held \ {h} /\ h.what = "done"
        /\ life' = life \/ (life' = [life EXCEPT ![i] = "dying"] /\ i \notin gui)
    BY <1>19 DEF Release
  <2>2. Single(k)' /\ (Busy(k)' => Busy(k))
    <3>1. held' \cap LoadCalls(k) = held \cap LoadCalls(k)
      BY <2>1, PostsApart DEF Outcome
    <3> QED
      BY <1>2, <2>1, <3>1 DEF ImageInv, Single, Busy, network
  <2>3. i \in Images
    BY <1>1, LoadsAreRequests DEF TypeInv, ImageTypes, Running
  <2> HIDE DEF i
  <2>4. \/ life'[k] = life[k]
        \/ life'[k] = "dying" /\ k \notin gui /\ life[k] # "unborn"
        \/ life[k] = "unborn"
    BY <1>4, <2>1, <2>3
  <2> QED
    BY <1>2, <2>1, <2>2, <2>4 DEF ImageInv
<1>20. ASSUME NEW r \in Requests, Network(r) PROVE ImageInv(k)'
  <2>1. Single(k)' /\ (Busy(k)' => Busy(k))
    BY <1>1, <1>2, <1>20, NetworkMoves DEF ImageInv
  <2>2. UNCHANGED images
    BY <1>20 DEF Network
  <2> QED
    BY <1>2, <2>1, <2>2, ImageFrame DEF images
<1>21. ASSUME UNCHANGED vars PROVE ImageInv(k)'
  BY <1>2, <1>3, <1>21, ImageFrame DEF vars, images
<1> QED
  BY <1>5, <1>6, <1>7, <1>8, <1>9, <1>10, <1>11, <1>12, <1>13, <1>14, <1>15, <1>16, <1>17, <1>18,
     <1>19, <1>20, <1>21 DEF Next, Gui, Callbacks

\* Through any number of loads, expirations and last references on any thread, an
\* image with frames is known to the expiration pool, which knows none that is gone.
THEOREM LoadedIsTrackedHolds == Spec => []LoadedIsTracked
<1>1. Inv => LoadedIsTracked
  BY InvParts
<1> QED
  BY <1>1, InvInit, InvNext, PTL DEF Spec

\* An image is loaded once at a time: no second request, callback or result of it is
\* ever under way.
THEOREM LoadsOnce == Spec => [](\A i \in Images : Single(i))
<1>1. Inv => \A i \in Images : Single(i)
  BY DEF Inv, ImageInv
<1> QED
  BY <1>1, InvInit, InvNext, PTL DEF Spec
================================================================================
