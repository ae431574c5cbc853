---------------------------- MODULE EventSubProofs ----------------------------
(***************************************************************************)
(* Theorems about EventSub for every finite set of requests, every choice  *)
(* of faults and every value of the bounds.                                *)
(***************************************************************************)
EXTENDS EventSub, FiniteSetTheorems, NaturalsInduction, SequenceTheorems, WellFoundedInduction,
        TLAPS

--------------------------------------------------------------------------------
(* Fresh numbers *)

LEMMA FreshIsNew ==
    ASSUME NEW S, IsFiniteSet(S)
    PROVE  FreshIn(S) \in Nat /\ FreshIn(S) # 0 /\ FreshIn(S) \notin S
<1> DEFINE n == Cardinality(S)
<1>1. n \in Nat
  BY FS_CardinalityType
<1>2. \E k \in 1 .. n + 1 : k \notin S
  <2> SUFFICES ASSUME 1 .. n + 1 \subseteq S PROVE FALSE
    OBVIOUS
  <2>1. Cardinality(1 .. n + 1) <= Cardinality(S)
    BY FS_Subset
  <2>2. Cardinality(1 .. n + 1) = IF 1 > n + 1 THEN 0 ELSE (n + 1) - 1 + 1
    <3>1. 1 \in Int /\ n + 1 \in Int
      BY <1>1
    <3> HIDE DEF n
    <3> QED
      BY <3>1, FS_Interval
  <2> QED
    BY <1>1, <2>1, <2>2
<1>3. FreshIn(S) \in 1 .. n + 1 /\ FreshIn(S) \notin S
  BY <1>2 DEF FreshIn
<1> HIDE DEF n
<1> QED
  BY <1>1, <1>3

LEMMA ImagesAreFinite ==
    ASSUME NEW S, IsFiniteSet(S)
    PROVE  IsFiniteSet({x.id : x \in S}) /\ IsFiniteSet({x.tag : x \in S})
<1>1. ASSUME NEW T, NEW f \in [S -> T], \A y \in T : \E x \in S : f[x] = y PROVE IsFiniteSet(T)
  <2>1. f \in Surjection(S, T)
    BY <1>1 DEF Surjection
  <2> QED
    BY <2>1, FS_Surjection
<1>2. IsFiniteSet({x.id : x \in S})
  <2> DEFINE T == {x.id : x \in S}
             f == [x \in S |-> x.id]
  <2>1. f \in [S -> T] /\ \A y \in T : \E x \in S : f[x] = y
    OBVIOUS
  <2> QED
    BY <1>1, <2>1
<1>3. IsFiniteSet({x.tag : x \in S})
  <2> DEFINE T == {x.tag : x \in S}
             f == [x \in S |-> x.tag]
  <2>1. f \in [S -> T] /\ \A y \in T : \E x \in S : f[x] = y
    OBVIOUS
  <2> QED
    BY <1>1, <2>1
<1> QED
  BY <1>2, <1>3

--------------------------------------------------------------------------------
(* Types *)

Tasks == {"subscribe", "retry", "timer"} \X Requests
Steps == {"subscribe", "place", "retry"} \X Requests
Session == [ready : BOOLEAN, logical : Nat, subs : SUBSET Requests, user : Users \cup {NoUser}]
Create == [tag : Nat, req : Requests, session : Nat, logical : Nat, id : Nat]
Delete == [tag : Nat, req : Requests, id : Nat]
Live == [id : Nat, req : Requests, logical : Nat]

TableTypes ==
    /\ state \in [Requests -> States]
    /\ refCount \in [Requests -> Nat]
    /\ conn \in [Requests -> Nat]
    /\ subID \in [Requests -> Nat]
    /\ timer \in [Requests -> {"none", "armed", "fired"}]

SessionTypes ==
    /\ nextSession \in Nat /\ nextSession >= 1
    /\ DOMAIN sessions \subseteq 1 .. nextSession - 1
    /\ sessions \in [DOMAIN sessions -> Session]

HelixTypes ==
    /\ creates \subseteq Create /\ deletes \subseteq Delete /\ live \subseteq Live
    /\ IsFiniteSet(creates) /\ IsFiniteSet(deletes) /\ IsFiniteSet(live)

QueueTypes ==
    /\ handles \in [Requests -> Nat]
    /\ tasks \in Seq(Tasks) /\ todo \in Seq(Steps)

TypeInv == TableTypes /\ SessionTypes /\ HelixTypes /\ QueueTypes

LEMMA TypeInvParts == TypeInv => TypeOK
<1> SUFFICES ASSUME TypeInv PROVE TypeOK
  OBVIOUS
<1>1. \A p \in DOMAIN sessions :
          sessions[p] \in [ready : BOOLEAN, logical : Nat, subs : SUBSET Requests,
                           user : Users \cup {NoUser}]
  BY DEF TypeInv, SessionTypes, Session
<1> QED
  BY <1>1 DEF TypeInv, TableTypes, SessionTypes, HelixTypes, QueueTypes, TypeOK, Tasks, Steps,
              Create, Delete, Live

LEMMA TypeInvInit == Init => TypeInv
<1> SUFFICES ASSUME Init PROVE TypeInv
  OBVIOUS
<1>1. TableTypes /\ SessionTypes /\ QueueTypes
  BY DEF Init, TableTypes, SessionTypes, QueueTypes, States, None
<1>2. HelixTypes
  BY FS_EmptySet DEF Init, HelixTypes
<1> QED
  BY <1>1, <1>2 DEF TypeInv

LEMMA TableSteps ==
    ASSUME TableTypes, NEW r \in Requests
    PROVE  /\ Erase(r) => TableTypes'
           /\ RetrySubscription(r) => TableTypes'
           /\ \A isRetry : StartSubscribe(r, isRetry) => TableTypes'
           /\ UNCHANGED table => TableTypes'
<1>1. Erase(r) => TableTypes'
  BY DEF TableTypes, Erase, States, None
<1>2. RetrySubscription(r) => TableTypes'
  BY <1>1 DEF TableTypes, RetrySubscription, States
<1>3. ASSUME NEW isRetry, StartSubscribe(r, isRetry) PROVE TableTypes'
  BY <1>3 DEF TableTypes, StartSubscribe, Entered, States
<1>4. UNCHANGED table => TableTypes'
  BY DEF TableTypes, table
<1> QED
  BY <1>1, <1>2, <1>3, <1>4

LEMMA Queued ==
    ASSUME QueueTypes, NEW r \in Requests, NEW kind \in {"subscribe", "retry", "timer"}, Enqueue(kind, r)
    PROVE  tasks' \in Seq(Tasks)
<1>1. <<kind, r>> \in Tasks
  BY DEF Tasks
<1> QED
  BY <1>1, AppendProperties DEF QueueTypes, Enqueue

LEMMA ListenerTypes ==
    ASSUME SessionTypes, NEW r \in Requests, NEW p \in DOMAIN sessions,
           \/ sessions' = Listening(p, r)
           \/ sessions' = NotListening(p, r)
           \/ sessions' = [sessions EXCEPT ![p].ready = TRUE],
           nextSession' = nextSession
    PROVE  SessionTypes'
<1>1. sessions[p] \in Session /\ Owner[r] \in Users
  BY DEF SessionTypes, Users
<1>2. PICK s \in Session : sessions' = [sessions EXCEPT ![p] = s]
  <2>1. CASE sessions' = Listening(p, r)
    <3>1. [sessions[p] EXCEPT !.subs = @ \cup {r}, !.user = Owner[r]] \in Session
      BY <1>1 DEF Session
    <3>2. sessions' = [sessions EXCEPT ![p] = [sessions[p] EXCEPT !.subs = @ \cup {r}, !.user = Owner[r]]]
      BY <2>1, <1>1 DEF Listening, Session, SessionTypes
    <3> QED
      BY <3>1, <3>2
  <2>2. CASE sessions' = NotListening(p, r)
    <3> DEFINE u == IF sessions[p].subs \subseteq {r} THEN NoUser ELSE sessions[p].user
    <3>1. [sessions[p] EXCEPT !.subs = @ \ {r}, !.user = u] \in Session
      BY <1>1 DEF Session
    <3>2. sessions' = [sessions EXCEPT ![p] = [sessions[p] EXCEPT !.subs = @ \ {r}, !.user = u]]
      BY <2>2, <1>1 DEF NotListening, Session, SessionTypes
    <3> QED
      BY <3>1, <3>2
  <2>3. CASE sessions' = [sessions EXCEPT ![p].ready = TRUE]
    <3>1. [sessions[p] EXCEPT !.ready = TRUE] \in Session
      BY <1>1 DEF Session
    <3> QED
      BY <2>3, <3>1
  <2> QED
    BY <2>1, <2>2, <2>3
<1> QED
  BY <1>2 DEF SessionTypes

LEMMA NewSessionTypes ==
    ASSUME SessionTypes, NEW p, NEW s \in Session, NewSession(p, s)
    PROVE  SessionTypes'
BY DEF SessionTypes, NewSession

LEMMA LostSessionTypes ==
    ASSUME SessionTypes, NEW p, sessions' = [q \in DOMAIN sessions \ {p} |-> sessions[q]],
           nextSession' = nextSession
    PROVE  SessionTypes'
BY DEF SessionTypes

LEMMA AllIdsAreFinite ==
    ASSUME TypeInv
    PROVE  IsFiniteSet(IdsInUse)
<1> DEFINE T == {subID[r] : r \in Requests}
<1>1. IsFiniteSet(live \cup deletes \cup creates)
  BY FS_Union DEF TypeInv, HelixTypes
<1>2. IsFiniteSet(T)
  <2>1. subID \in Surjection(Requests, T)
    BY DEF TypeInv, TableTypes, Surjection
  <2> QED
    BY <2>1, RequestsAssumption, FS_Surjection
<1>3. IsFiniteSet({x.id : x \in live \cup deletes \cup creates})
  BY <1>1, ImagesAreFinite
<1> QED
  BY <1>2, <1>3, FS_Union DEF IdsInUse

\* Every sequence of a listener's requests can be called.
LEMMA OrderedSteps ==
    ASSUME NEW S \in SUBSET Requests, NEW order \in SetToSeqs(S)
    PROVE  [i \in DOMAIN order |-> <<"subscribe", order[i]>>] \in Seq(Steps)
<1>1. IsFiniteSet(S) /\ Cardinality(S) \in Nat
  BY RequestsAssumption, FS_Subset, FS_CardinalityType
<1> DEFINE n == Cardinality(S)
<1>2. order \in [1 .. n -> S]
  BY DEF SetToSeqs
<1> HIDE DEF n
<1>3. n \in Nat
  BY <1>1 DEF n
<1>4. [i \in DOMAIN order |-> <<"subscribe", order[i]>>] \in [1 .. n -> Steps]
  BY <1>2 DEF Steps
<1> QED
  BY <1>3, <1>4

LEMMA SmallestIn ==
    ASSUME NEW S \in SUBSET Nat, S # {}
    PROVE  \E v \in S : \A w \in S : v <= w
<1>1. PICK v \in S : \A w \in S : ~(<<w, v>> \in OpToRel(<, Nat))
  BY NatLessThanWellFounded, WFMin
<1>2. \A w \in S : w \in Nat /\ v \in Nat /\ ~(w < v)
  BY <1>1 DEF OpToRel
<1> QED
  BY <1>2

LEMMA HeadRequests ==
    ASSUME TypeInv
    PROVE  /\ tasks # <<>> => Head(tasks)[2] \in Requests
           /\ todo # <<>> => Head(todo)[2] \in Requests
<1>1. tasks # <<>> => Head(tasks) \in Tasks
  BY HeadTailProperties DEF TypeInv, QueueTypes
<1>2. todo # <<>> => Head(todo) \in Steps
  BY HeadTailProperties DEF TypeInv, QueueTypes
<1> QED
  BY <1>1, <1>2 DEF Tasks, Steps

LEMMA GuiTypes == TypeInv /\ Gui => TypeInv'
<1> SUFFICES ASSUME TypeInv, Gui PROVE TypeInv'
  OBVIOUS
<1> USE DEF TypeInv
<1>1. ASSUME NEW r \in Requests, Subscribe(r) PROVE TypeInv'
  <2>1. TableTypes'
    BY <1>1 DEF Subscribe, TableTypes, States
  <2>2. tasks' \in Seq(Tasks)
    BY <1>1, Queued DEF Subscribe, QueueTypes
  <2>3. handles' \in [Requests -> Nat]
    BY <1>1 DEF Subscribe, QueueTypes
  <2> QED
    BY <1>1, <2>1, <2>2, <2>3 DEF Subscribe, QueueTypes, SessionTypes, HelixTypes, helix
<1>2. ASSUME NEW r \in Requests, RemoveRef(r) PROVE TypeInv'
  <2>1. TableTypes'
    <3>1. refCount' \in [Requests -> Nat]
      <4>1. (IF refCount[r] = 0 THEN 0 ELSE refCount[r] - 1) \in Nat
        BY DEF TableTypes
      <4> QED
        BY <1>2, <4>1 DEF RemoveRef, TableTypes
    <3> QED
      BY <1>2, <3>1 DEF RemoveRef, TableTypes, States, None
  <2>2. handles' \in [Requests -> Nat]
    <3>1. handles[r] - 1 \in Nat
      BY <1>2 DEF RemoveRef, QueueTypes
    <3> QED
      BY <1>2, <3>1 DEF RemoveRef, QueueTypes
  <2>3. deletes' \subseteq Delete /\ IsFiniteSet(deletes')
    <3> DEFINE t == FreshIn({d.tag : d \in deletes})
               new == [tag |-> t, req |-> r, id |-> subID[r]]
    <3>1. t \in Nat
      BY ImagesAreFinite, FreshIsNew DEF HelixTypes
    <3> HIDE DEF t
    <3>2. new \in Delete
      BY <3>1 DEF Delete, TableTypes
    <3>3. deletes' = deletes \/ deletes' = deletes \cup {new}
      BY <1>2 DEF RemoveRef, t
    <3> HIDE DEF new
    <3> QED
      BY <3>2, <3>3, FS_AddElement DEF HelixTypes
  <2> QED
    BY <1>2, <2>1, <2>2, <2>3 DEF RemoveRef, QueueTypes, SessionTypes, HelixTypes
<1>3. ASSUME NEW c \in creates PROVE c.req \in Requests /\ c.session \in Nat /\ c.id \in Nat
                                     /\ creates \ {c} \subseteq Create /\ IsFiniteSet(creates \ {c})
  BY FS_RemoveElement DEF HelixTypes, Create
<1>4. ASSUME NEW c \in creates, CreateOk(c) PROVE TypeInv'
  <2>1. CASE c.session \notin DOMAIN sessions
    BY <1>3, <1>4, <2>1 DEF CreateOk, MarkSubscribed, TableTypes, SessionTypes, QueueTypes, HelixTypes,
                            table
  <2>2. CASE c.session \in DOMAIN sessions
    <3>1. sessions' = Listening(c.session, c.req) /\ nextSession' = nextSession
      BY <1>4, <2>2 DEF CreateOk, MarkSubscribed
    <3>2. SessionTypes'
      BY <1>3, <2>2, <3>1, ListenerTypes
    <3>3. TableTypes'
      BY <1>3, <1>4, <2>2 DEF CreateOk, MarkSubscribed, TableTypes, States
    <3> QED
      BY <1>3, <1>4, <3>2, <3>3 DEF CreateOk, QueueTypes, HelixTypes
  <2> QED
    BY <2>1, <2>2
<1>5. ASSUME NEW c \in creates, CreateFailed(c) \/ CreateForbidden(c) PROVE TypeInv'
  <2>1. TableTypes'
    BY <1>3, <1>5 DEF CreateFailed, CreateForbidden, TableTypes, States, table
  <2> QED
    BY <1>3, <1>5, <2>1 DEF CreateFailed, CreateForbidden, QueueTypes, SessionTypes, HelixTypes
<1>6. ASSUME NEW c \in creates, CreateRetry(c) PROVE TypeInv'
  <2>1. tasks' \in Seq(Tasks)
    BY <1>3, <1>6, Queued DEF CreateRetry
  <2> QED
    BY <1>3, <1>6, <2>1 DEF CreateRetry, QueueTypes, SessionTypes, HelixTypes, TableTypes, table
<1>7. ASSUME NEW d \in deletes, DeleteDone(d) PROVE TypeInv'
  <2>1. d.req \in Requests /\ deletes \ {d} \subseteq Delete /\ IsFiniteSet(deletes \ {d})
    BY FS_RemoveElement DEF HelixTypes, Delete
  <2>2. live' \subseteq live /\ deletes' = deletes \ {d} /\ creates' = creates
        /\ MarkUnsubscribed(d.req) /\ UNCHANGED <<handles, todo, nextSession>>
    BY <1>7 DEF DeleteDone
  <2>3. HelixTypes'
    BY <2>1, <2>2, FS_Subset DEF HelixTypes
  <2>4. SessionTypes'
    <3>1. sessions' = sessions \/ (conn[d.req] \in DOMAIN sessions
                                    /\ sessions' = NotListening(conn[d.req], d.req))
      BY <2>2 DEF MarkUnsubscribed
    <3> QED
      BY <2>1, <2>2, <3>1, ListenerTypes DEF SessionTypes
  <2>5. TableTypes'
    BY <2>1, <2>2, TableSteps DEF MarkUnsubscribed, TableTypes, States, None
  <2>6. tasks' \in Seq(Tasks)
    BY <2>1, <2>2, Queued DEF MarkUnsubscribed, QueueTypes
  <2> QED
    BY <2>2, <2>3, <2>4, <2>5, <2>6 DEF QueueTypes
<1> QED
  BY <1>1, <1>2, <1>4, <1>5, <1>6, <1>7 DEF Gui

LEMMA IoTypes == TypeInv /\ Io => TypeInv'
<1> SUFFICES ASSUME TypeInv, Io PROVE TypeInv'
  OBVIOUS
<1> USE DEF TypeInv
<1>1. CASE RunTask
  <2>1. Head(tasks) \in Tasks /\ Tail(tasks) \in Seq(Tasks)
    BY <1>1, HeadTailProperties DEF RunTask, QueueTypes
  <2>2. Head(tasks)[2] \in Requests
    BY <2>1 DEF Tasks
  <2>3. TableTypes'
    BY <1>1, <2>2, TableSteps DEF RunTask
  <2>4. todo' \in Seq(Steps)
    <3>1. <<"place", Head(tasks)[2]>> \in Steps
      BY <2>2 DEF Steps
    <3>2. todo' = todo \/ todo' = <<<<"place", Head(tasks)[2]>>>>
      BY <1>1 DEF RunTask
    <3>3. \A e \in Steps : <<e>> \in Seq(Steps)
      OBVIOUS
    <3>4. todo \in Seq(Steps)
      BY DEF QueueTypes
    <3> QED
      BY <3>1, <3>2, <3>3, <3>4
  <2> QED
    BY <1>1, <2>1, <2>3, <2>4 DEF RunTask, QueueTypes, SessionTypes, HelixTypes, helix
<1>2. ASSUME NEW kind, Step(kind)
      PROVE  /\ Head(todo)[2] \in Requests /\ Tail(todo) \in Seq(Steps)
             /\ \A k \in {"place", "retry"} :
                   /\ <<<<k, Head(todo)[2]>>>> \o Tail(todo) \in Seq(Steps)
  <2>1. todo # <<>> /\ todo \in Seq(Steps)
    BY <1>2 DEF Step, QueueTypes
  <2>2. Head(todo) \in Steps /\ Tail(todo) \in Seq(Steps)
    BY <2>1, HeadTailProperties
  <2>3. Head(todo)[2] \in Requests
    BY <2>2 DEF Steps
  <2> DEFINE r == Head(todo)[2]
  <2> HIDE DEF r
  <2>4. ASSUME NEW k \in {"place", "retry"} PROVE <<<<k, r>>>> \o Tail(todo) \in Seq(Steps)
    <3>1. <<k, r>> \in Steps
      BY <2>3 DEF Steps, r
    <3>2. <<<<k, r>>>> \in Seq(Steps)
      BY <3>1
    <3> QED
      BY <2>2, <3>2, ConcatProperties
  <2> QED
    BY <2>2, <2>3, <2>4 DEF r
<1>3. CASE NextSubscribe
  <2>1. TableTypes'
    BY <1>2, <1>3, TableSteps DEF NextSubscribe
  <2>2. todo' \in Seq(Steps)
    BY <1>2, <1>3 DEF NextSubscribe
  <2> QED
    BY <1>3, <2>1, <2>2 DEF NextSubscribe, QueueTypes, SessionTypes, HelixTypes, helix
<1>4. CASE PlaceLater
  <2>1. TableTypes'
    BY <1>2, <1>4, TableSteps DEF PlaceLater
  <2>2. todo' \in Seq(Steps)
    BY <1>2, <1>4 DEF PlaceLater
  <2> QED
    BY <1>4, <2>1, <2>2 DEF PlaceLater, QueueTypes, SessionTypes, HelixTypes, helix
<1>5. CASE Place
  <2> DEFINE r == Head(todo)[2]
  <2>1. r \in Requests /\ Step("place") /\ UNCHANGED <<table, handles, tasks, deletes, live>>
    BY <1>2, <1>5 DEF Place
  <2>2. todo' \in Seq(Steps)
    BY <1>2, <1>5 DEF Place
  <2>3. SessionTypes'
    <3>1. \/ UNCHANGED <<sessions, nextSession>>
          \/ NewSession(None, [ready |-> FALSE, logical |-> nextSession, subs |-> {}, user |-> NoUser])
      BY <1>5 DEF Place
    <3>2. [ready |-> FALSE, logical |-> nextSession, subs |-> {}, user |-> NoUser] \in Session
      BY DEF Session, SessionTypes
    <3> QED
      BY <3>1, <3>2, NewSessionTypes DEF SessionTypes
  <2>4. HelixTypes'
    <3>1. CASE Viable(r) = {}
      BY <1>5, <2>1, <3>1 DEF Place, HelixTypes
    <3>2. CASE Viable(r) # {}
      <4> DEFINE p == CHOOSE v \in Viable(r) : \A w \in Viable(r) : v <= w
                 t == FreshIn({c.tag : c \in creates})
                 new == [tag |-> t, req |-> r, session |-> p, logical |-> sessions[p].logical,
                         id |-> None]
      <4>1. t \in Nat
        BY ImagesAreFinite, FreshIsNew DEF HelixTypes
      <4>2. p \in Viable(r)
        <5>1. Viable(r) \subseteq Nat
          BY DEF Viable, SessionTypes
        <5>2. PICK v \in Viable(r) : \A w \in Viable(r) : v <= w
          BY <3>2, <5>1, SmallestIn
        <5> QED
          BY <5>2
      <4>3. creates' = creates \cup {new}
        BY <1>5, <3>2 DEF Place
      <4> HIDE DEF p, t
      <4>4. p \in Nat /\ sessions[p].logical \in Nat
        BY <4>2 DEF Viable, SessionTypes, Session
      <4>5. new \in Create
        BY <2>1, <4>1, <4>4 DEF Create, None
      <4> HIDE DEF new
      <4> QED
        BY <2>1, <4>3, <4>5, FS_AddElement DEF HelixTypes
    <3> QED
      BY <3>1, <3>2
  <2> QED
    BY <2>1, <2>2, <2>3, <2>4 DEF QueueTypes, TableTypes, table
<1>6. ASSUME NEW p \in DOMAIN sessions, Welcome(p) PROVE TypeInv'
  <2>1. SessionTypes'
    <3>1. sessions' = [sessions EXCEPT ![p].ready = TRUE] /\ nextSession' = nextSession
      BY <1>6 DEF Welcome
    <3>2. [sessions[p] EXCEPT !.ready = TRUE] \in Session
      BY DEF SessionTypes, Session
    <3> QED
      BY <3>1, <3>2 DEF SessionTypes
  <2> QED
    BY <1>6, <2>1 DEF Welcome, QueueTypes, HelixTypes, TableTypes, table, helix
<1>7. ASSUME NEW p \in DOMAIN sessions, SessionLost(p) PROVE TypeInv'
  <2>1. SessionTypes'
    BY <1>7, LostSessionTypes DEF SessionLost
  <2>2. TableTypes'
    BY <1>7 DEF SessionLost, ResetSubscriptions, TableTypes, States, None
  <2>3. todo' \in Seq(Steps)
    <3>1. sessions[p].subs \in SUBSET Requests
      BY DEF SessionTypes, Session
    <3>2. PICK order \in SetToSeqs(sessions[p].subs) :
             todo' = [i \in DOMAIN order |-> <<"subscribe", order[i]>>]
      BY <1>7 DEF SessionLost
    <3> QED
      BY <3>1, <3>2, OrderedSteps
  <2>4. live' \subseteq live /\ UNCHANGED <<handles, tasks, creates, deletes>>
    BY <1>7 DEF SessionLost
  <2> QED
    BY <2>1, <2>2, <2>3, <2>4, FS_Subset DEF QueueTypes, HelixTypes
<1>8. ASSUME NEW p \in DOMAIN sessions, SessionReconnect(p) PROVE TypeInv'
  <2>1. live' \subseteq live /\ UNCHANGED <<table, handles, tasks, todo, creates, deletes>>
    BY <1>8 DEF SessionReconnect
  <2>2. SessionTypes'
    <3>1. \/ /\ sessions' = [q \in DOMAIN sessions \ {p} |-> sessions[q]]
             /\ nextSession' = nextSession
          \/ NewSession(p, sessions[p])
      BY <1>8 DEF SessionReconnect
    <3>2. sessions[p] \in Session
      BY DEF SessionTypes
    <3> QED
      BY <3>1, <3>2, NewSessionTypes, LostSessionTypes
  <2> QED
    BY <2>1, <2>2, FS_Subset DEF QueueTypes, HelixTypes, TableTypes, table
<1> QED
  BY <1>1, <1>3, <1>4, <1>5, <1>6, <1>7, <1>8 DEF Io

LEMMA EnvironmentTypes == TypeInv /\ Environment => TypeInv'
<1> SUFFICES ASSUME TypeInv, Environment PROVE TypeInv'
  OBVIOUS
<1> USE DEF TypeInv
<1>1. ASSUME NEW c \in creates, Accept(c) PROVE TypeInv'
  <2> DEFINE id == FreshIn(IdsInUse \ {None})
             made == [id |-> id, req |-> c.req, logical |-> c.logical]
             answered == [c EXCEPT !.id = id]
  <2>1. id \in Nat
    BY AllIdsAreFinite, FS_RemoveElement, FreshIsNew
  <2>2. c \in Create
    BY DEF HelixTypes
  <2>3. /\ live' = live \cup {made} /\ creates' = (creates \ {c}) \cup {answered}
        /\ UNCHANGED <<table, handles, tasks, todo, sessions, nextSession, deletes>>
    BY <1>1 DEF Accept
  <2> HIDE DEF id
  <2>4. made \in Live /\ answered \in Create
    BY <2>1, <2>2 DEF Live, Create
  <2> HIDE DEF made, answered
  <2>5. HelixTypes'
    <3>1. IsFiniteSet(creates \ {c})
      BY FS_RemoveElement DEF HelixTypes
    <3> QED
      BY <2>3, <2>4, <3>1, FS_AddElement DEF HelixTypes
  <2> QED
    BY <2>3, <2>5 DEF QueueTypes, SessionTypes, TableTypes, table
<1>2. ASSUME NEW r \in Requests, TimerFire(r) PROVE TypeInv'
  <2>1. tasks' \in Seq(Tasks)
    BY <1>2, Queued DEF TimerFire
  <2> QED
    BY <1>2, <2>1 DEF TimerFire, QueueTypes, SessionTypes, HelixTypes, helix, TableTypes
<1> QED
  BY <1>1, <1>2 DEF Environment

LEMMA TypeInvNext == TypeInv /\ [Next]_vars => TypeInv'
<1>1. TypeInv /\ UNCHANGED vars => TypeInv'
  BY DEF TypeInv, QueueTypes, SessionTypes, HelixTypes, TableTypes, vars, table, helix
<1> QED
  BY <1>1, GuiTypes, IoTypes, EnvironmentTypes DEF Next

\* Table, sessions, queues and the requests to Helix keep their types, whatever
\* faults are allowed; tags and ids are numbers since only finitely many are in use.
THEOREM TypeCorrect == Spec => []TypeOK
<1>1. TypeInv => TypeOK
  BY TypeInvParts
<1> QED
  BY <1>1, TypeInvInit, TypeInvNext, PTL DEF Spec

--------------------------------------------------------------------------------
(* One connection is opening at a time *)

LEMMA OneConnectingStep == TypeInv /\ OneConnecting /\ [Next]_vars => OneConnecting'
<1> SUFFICES ASSUME TypeInv, OneConnecting, [Next]_vars PROVE OneConnecting'
  OBVIOUS
<1>1. sessions \in [DOMAIN sessions -> Session] /\ nextSession \in Nat
      /\ \A p \in DOMAIN sessions : p \in Nat /\ p < nextSession
  BY DEF TypeInv, SessionTypes
<1>2. ASSUME UNCHANGED sessions PROVE OneConnecting'
  BY <1>2 DEF OneConnecting
<1>3. ASSUME NEW r \in Requests, NEW p \in DOMAIN sessions,
             sessions' = Listening(p, r) \/ sessions' = NotListening(p, r)
      PROVE  OneConnecting'
  <2>1. sessions[p] \in Session
    BY <1>1
  <2>2. DOMAIN sessions' = DOMAIN sessions
        /\ \A q \in DOMAIN sessions : sessions'[q].ready = sessions[q].ready
    BY <1>1, <1>3, <2>1 DEF Listening, NotListening, Session
  <2> QED
    BY <2>2 DEF OneConnecting
<1>4. ASSUME NEW c \in creates, CreateOk(c) PROVE OneConnecting'
  <2>1. c.req \in Requests
    BY DEF TypeInv, HelixTypes, Create
  <2>2. UNCHANGED sessions \/ (c.session \in DOMAIN sessions /\ sessions' = Listening(c.session, c.req))
    BY <1>4 DEF CreateOk, MarkSubscribed
  <2> QED
    BY <1>2, <1>3, <2>1, <2>2
<1>5. ASSUME NEW d \in deletes, DeleteDone(d) PROVE OneConnecting'
  <2>1. d.req \in Requests
    BY DEF TypeInv, HelixTypes, Delete
  <2>2. \/ UNCHANGED sessions
        \/ conn[d.req] \in DOMAIN sessions /\ sessions' = NotListening(conn[d.req], d.req)
    BY <1>5 DEF DeleteDone, MarkUnsubscribed
  <2> QED
    BY <1>2, <1>3, <2>1, <2>2
<1>6. ASSUME Place PROVE OneConnecting'
  <2>1. CASE NotReady = {}
    <3>1. \A p \in DOMAIN sessions : sessions[p].ready
      BY <2>1 DEF NotReady
    <3>2. \/ UNCHANGED sessions
          \/ NewSession(None, [ready |-> FALSE, logical |-> nextSession, subs |-> {}, user |-> NoUser])
      BY <1>6 DEF Place
    <3> QED
      BY <1>1, <3>1, <3>2 DEF OneConnecting, NewSession
  <2>2. CASE NotReady # {}
    BY <1>2, <1>6, <2>2 DEF Place
  <2> QED
    BY <2>1, <2>2
<1>7. ASSUME NEW p \in DOMAIN sessions, Welcome(p) PROVE OneConnecting'
  <2>1. DOMAIN sessions' = DOMAIN sessions /\ sessions[p] \in Session
        /\ \A q \in DOMAIN sessions : ~sessions'[q].ready => ~sessions[q].ready
    BY <1>1, <1>7 DEF Welcome, Session
  <2> QED
    BY <2>1 DEF OneConnecting
<1>8. ASSUME NEW p \in DOMAIN sessions, SessionLost(p) \/ SessionReconnect(p) PROVE OneConnecting'
  <2>1. \/ sessions' = [q \in DOMAIN sessions \ {p} |-> sessions[q]]
        \/ NewSession(p, sessions[p]) /\ sessions[p].ready
    BY <1>8 DEF SessionLost, SessionReconnect
  <2>2. CASE sessions' = [q \in DOMAIN sessions \ {p} |-> sessions[q]]
    BY <2>2 DEF OneConnecting
  <2>3. CASE NewSession(p, sessions[p]) /\ sessions[p].ready
    BY <1>1, <2>3 DEF OneConnecting, NewSession
  <2> QED
    BY <2>1, <2>2, <2>3
<1> QED
  BY <1>2, <1>4, <1>5, <1>6, <1>7, <1>8
     DEF Next, Gui, Io, Environment, Subscribe, RemoveRef, CreateFailed, CreateForbidden, CreateRetry,
         RunTask, NextSubscribe, PlaceLater, Accept, TimerFire, vars

\* However requests, timers, deaths and reconnects interleave, at most one
\* connection is open without a welcome, for any number of sessions.
THEOREM OneConnectingHolds == Spec => []OneConnecting
<1>1. Init => OneConnecting
  BY DEF Init, OneConnecting
<1> QED
  BY <1>1, TypeInvInit, TypeInvNext, OneConnectingStep, PTL DEF Spec

--------------------------------------------------------------------------------
(* The table *)

\* What the answers and the tasks do to an entry.
LEMMA ReferencesStep ==
    TypeInv /\ ReferencesAreCounted /\ [Next]_vars => ReferencesAreCounted'
<1> SUFFICES ASSUME TypeInv, ReferencesAreCounted, [Next]_vars PROVE ReferencesAreCounted'
  OBVIOUS
<1>1. /\ state \in [Requests -> States] /\ refCount \in [Requests -> Nat]
      /\ handles \in [Requests -> Nat]
      /\ \A r \in Requests : /\ refCount[r] = handles[r]
                             /\ handles[r] > 0 => state[r] \notin {"absent", "Unsubscribed"}
  BY DEF TypeInv, TableTypes, QueueTypes, ReferencesAreCounted
<1>2. ASSUME NEW r \in Requests,
             \/ Erase(r) /\ refCount[r] = 0
             \/ /\ UNCHANGED refCount
                /\ \/ UNCHANGED state
                   \/ \E s : /\ state' = [state EXCEPT ![r] = s]
                             /\ s \in {"absent", "Unsubscribed"} => state[r] \in {"absent", "Unsubscribed"},
             UNCHANGED handles
      PROVE  ReferencesAreCounted'
  BY <1>1, <1>2 DEF ReferencesAreCounted, Erase
<1>3. ASSUME UNCHANGED <<state, refCount, handles>> PROVE ReferencesAreCounted'
  BY <1>3 DEF ReferencesAreCounted
<1>4. ASSUME NEW r \in Requests, Subscribe(r) PROVE ReferencesAreCounted'
  BY <1>1, <1>4 DEF Subscribe, ReferencesAreCounted, Entered
<1>5. ASSUME NEW r \in Requests, RemoveRef(r) PROVE ReferencesAreCounted'
  <2>1. /\ handles' = [handles EXCEPT ![r] = @ - 1] /\ handles[r] > 0
        /\ refCount' = [refCount EXCEPT ![r] = IF @ = 0 THEN 0 ELSE @ - 1]
        /\ state' = state \/ state' = [state EXCEPT ![r] = "Unsubscribing"]
    BY <1>5 DEF RemoveRef
  <2> QED
    BY <1>1, <2>1 DEF ReferencesAreCounted
<1>6. ASSUME NEW c \in creates, CreateOk(c) \/ CreateFailed(c) \/ CreateForbidden(c) \/ CreateRetry(c)
      PROVE  ReferencesAreCounted'
  <2>1. c.req \in Requests
    BY DEF TypeInv, HelixTypes, Create
  <2>2. /\ UNCHANGED <<refCount, handles>>
        /\ \/ UNCHANGED state
           \/ \E s \in {"Subscribed", "Failed"} : state' = [state EXCEPT ![c.req] = s]
    BY <1>6 DEF CreateOk, MarkSubscribed, CreateFailed, CreateForbidden, CreateRetry, table
  <2> QED
    BY <1>2, <2>1, <2>2
<1>7. ASSUME NEW d \in deletes, DeleteDone(d) PROVE ReferencesAreCounted'
  <2>1. d.req \in Requests
    BY DEF TypeInv, HelixTypes, Delete
  <2>2. /\ UNCHANGED handles
        /\ \/ Erase(d.req) /\ refCount[d.req] = 0
           \/ UNCHANGED refCount /\ state' = [state EXCEPT ![d.req] = "Subscribing"]
    BY <1>7 DEF DeleteDone, MarkUnsubscribed
  <2> QED
    BY <1>2, <2>1, <2>2
<1>8. ASSUME NEW r \in Requests, RetrySubscription(r), UNCHANGED handles PROVE ReferencesAreCounted'
  <2>1. \/ Erase(r) /\ refCount[r] = 0
        \/ UNCHANGED refCount /\ state' = [state EXCEPT ![r] = "Retrying"]
    BY <1>8 DEF RetrySubscription
  <2> QED
    BY <1>2, <1>8, <2>1
<1>9. ASSUME NEW r \in Requests, NEW isRetry, StartSubscribe(r, isRetry), UNCHANGED handles
      PROVE  ReferencesAreCounted'
  <2>1. UNCHANGED refCount /\ state' = [state EXCEPT ![r] = Entered(r)]
        /\ (Entered(r) \in {"absent", "Unsubscribed"} => state[r] \in {"absent", "Unsubscribed"})
    BY <1>9 DEF StartSubscribe, Entered
  <2> QED
    BY <1>2, <1>9, <2>1
<1>10. /\ tasks # <<>> => Head(tasks)[2] \in Requests
       /\ todo # <<>> => Head(todo)[2] \in Requests
  BY HeadRequests
<1>11. CASE RunTask \/ NextSubscribe \/ PlaceLater
  BY <1>8, <1>9, <1>10, <1>11 DEF RunTask, NextSubscribe, PlaceLater, Step
<1>12. ASSUME NEW p \in DOMAIN sessions, SessionLost(p) PROVE ReferencesAreCounted'
  BY <1>1, <1>12 DEF SessionLost, ResetSubscriptions, ReferencesAreCounted
<1> QED
  BY <1>3, <1>4, <1>5, <1>6, <1>7, <1>11, <1>12
     DEF Next, Gui, Io, Environment, Place, Welcome, SessionReconnect, Accept, TimerFire, vars, table

\* The table counts the handles of every request and never forgets one somebody
\* holds, whatever sessions, answers and retries do on the other thread.
THEOREM ReferencesAreCountedHolds == Spec => []ReferencesAreCounted
<1>1. Init => ReferencesAreCounted
  BY DEF Init, ReferencesAreCounted
<1> QED
  BY <1>1, TypeInvInit, TypeInvNext, ReferencesStep, PTL DEF Spec

--------------------------------------------------------------------------------
(* Deletes *)

LEMMA UnsubscribingStep ==
    TypeInv /\ UnsubscribingHasDelete /\ [Next]_vars => UnsubscribingHasDelete'
<1> SUFFICES ASSUME TypeInv, UnsubscribingHasDelete, [Next]_vars PROVE UnsubscribingHasDelete'
  OBVIOUS
<1>1. state \in [Requests -> States] /\ deletes \subseteq Delete
  BY DEF TypeInv, TableTypes, HelixTypes
<1>2. ASSUME deletes \subseteq deletes',
             \A r \in Requests : state'[r] = "Unsubscribing" => state[r] = "Unsubscribing"
      PROVE  UnsubscribingHasDelete'
  BY <1>2 DEF UnsubscribingHasDelete
<1>3. ASSUME NEW r \in Requests, RemoveRef(r) PROVE UnsubscribingHasDelete'
  <2>1. CASE UNCHANGED <<state, deletes>>
    BY <1>2, <2>1
  <2>2. CASE ~UNCHANGED <<state, deletes>>
    <3> DEFINE new == [tag |-> FreshIn({d.tag : d \in deletes}), req |-> r, id |-> subID[r]]
    <3>1. state' = [state EXCEPT ![r] = "Unsubscribing"] /\ deletes' = deletes \cup {new}
      BY <1>3, <2>2 DEF RemoveRef
    <3>2. new.req = r
      OBVIOUS
    <3> HIDE DEF new
    <3> QED
      BY <1>1, <3>1, <3>2 DEF UnsubscribingHasDelete
  <2> QED
    BY <2>1, <2>2
<1>4. ASSUME NEW d \in deletes, DeleteDone(d) PROVE UnsubscribingHasDelete'
  <2>1. d.req \in Requests
    BY <1>1 DEF Delete
  <2>2. /\ deletes' = deletes \ {d}
        /\ \E s \in {"absent", "Subscribing"} : state' = [state EXCEPT ![d.req] = s]
    BY <1>4 DEF DeleteDone, MarkUnsubscribed, Erase
  <2> QED
    BY <1>1, <2>1, <2>2 DEF UnsubscribingHasDelete
<1>5. ASSUME NEW r, NEW s, state' = [state EXCEPT ![r] = s], UNCHANGED deletes,
             s = "Unsubscribing" => state[r] = "Unsubscribing"
      PROVE  UnsubscribingHasDelete'
  BY <1>1, <1>2, <1>5
<1>6. ASSUME NEW c \in creates, CreateOk(c) \/ CreateFailed(c) PROVE UnsubscribingHasDelete'
  <2>1. \/ UNCHANGED <<state, deletes>>
        \/ state' = [state EXCEPT ![c.req] = "Subscribed"] /\ UNCHANGED deletes
        \/ state' = [state EXCEPT ![c.req] = "Failed"] /\ UNCHANGED deletes
    BY <1>6 DEF CreateOk, MarkSubscribed, CreateFailed, table
  <2> QED
    BY <1>2, <1>5, <2>1
<1>7. ASSUME NEW r, RetrySubscription(r), UNCHANGED deletes PROVE UnsubscribingHasDelete'
  BY <1>5, <1>7 DEF RetrySubscription, Erase
<1>8. ASSUME NEW r, NEW isRetry, StartSubscribe(r, isRetry), UNCHANGED deletes
      PROVE  UnsubscribingHasDelete'
  BY <1>5, <1>8 DEF StartSubscribe, Entered
<1>9. CASE RunTask \/ NextSubscribe \/ PlaceLater
  BY <1>7, <1>8, <1>9 DEF RunTask, NextSubscribe, PlaceLater, helix
<1>10. ASSUME NEW p \in DOMAIN sessions, SessionLost(p) PROVE UnsubscribingHasDelete'
  BY <1>1, <1>2, <1>10 DEF SessionLost, ResetSubscriptions
<1>11. ASSUME NEW r \in Requests, Subscribe(r) PROVE UnsubscribingHasDelete'
  <2>1. UNCHANGED deletes /\ (UNCHANGED state \/ state' = [state EXCEPT ![r] = "Subscribing"])
    BY <1>11 DEF Subscribe, helix
  <2> QED
    BY <1>2, <1>5, <2>1
<1>12. ASSUME UNCHANGED <<state, deletes>> PROVE UnsubscribingHasDelete'
  BY <1>2, <1>12
<1> QED
  BY <1>3, <1>4, <1>6, <1>9, <1>10, <1>11, <1>12
     DEF Next, Gui, Io, Environment, CreateForbidden, CreateRetry, Place, Welcome, SessionReconnect,
         Accept, TimerFire, vars, table, helix

\* An entry is Unsubscribing only while a delete of it is unanswered, also when
\* its session dies and it is taken again in the meantime.
THEOREM UnsubscribingHasDeleteHolds == Spec => []UnsubscribingHasDelete
<1>1. Init => UnsubscribingHasDelete
  BY DEF Init, UnsubscribingHasDelete
<1> QED
  BY <1>1, TypeInvInit, TypeInvNext, UnsubscribingStep, PTL DEF Spec

--------------------------------------------------------------------------------
(* Table and listeners *)

\* No entry names a session that is still to come.
ConnectionsMade == \A r \in Requests : conn[r] < nextSession

ConnectionInv == ConnectionsMade /\ ConnectionKnowsRequest

LEMMA ConnectionStep == TypeInv /\ ConnectionInv /\ [Next]_vars => ConnectionInv'
<1> SUFFICES ASSUME TypeInv, ConnectionInv, [Next]_vars PROVE ConnectionInv'
  OBVIOUS
<1>1. /\ conn \in [Requests -> Nat] /\ nextSession \in Nat /\ nextSession > 0
      /\ \A p \in DOMAIN sessions : p \in Nat /\ p > 0 /\ p < nextSession
      /\ sessions \in [DOMAIN sessions -> Session]
  BY DEF TypeInv, TableTypes, SessionTypes
<1>2. \A r \in Requests : /\ conn[r] < nextSession
                          /\ conn[r] \in DOMAIN sessions => r \in sessions[conn[r]].subs
  BY DEF ConnectionInv, ConnectionsMade, ConnectionKnowsRequest
<1>3. ASSUME \A r \in Requests : conn'[r] \in {conn[r], None},
             \/ UNCHANGED <<sessions, nextSession>>
             \/ \E p : UNCHANGED nextSession /\ sessions' = [q \in DOMAIN sessions \ {p} |-> sessions[q]]
             \/ \E p, s : NewSession(p, s)
      PROVE  ConnectionInv'
  <2> DEFINE Kept == /\ nextSession' \in Nat /\ nextSession <= nextSession'
                     /\ \A q \in DOMAIN sessions' :
                           /\ q < nextSession => q \in DOMAIN sessions /\ sessions'[q] = sessions[q]
                           /\ q # None
  <2>1. Kept
    <3>1. CASE UNCHANGED <<sessions, nextSession>>
      BY <1>1, <3>1 DEF None
    <3>2. ASSUME NEW p, UNCHANGED nextSession, sessions' = [q \in DOMAIN sessions \ {p} |-> sessions[q]]
          PROVE  Kept
      BY <1>1, <3>2 DEF None
    <3>3. ASSUME NEW p, NEW s, NewSession(p, s) PROVE Kept
      <4>1. /\ nextSession' = nextSession + 1
            /\ DOMAIN sessions' = (DOMAIN sessions \ {p}) \cup {nextSession}
            /\ \A q \in DOMAIN sessions' : q # nextSession => sessions'[q] = sessions[q]
        BY <3>3 DEF NewSession
      <4> QED
        BY <1>1, <4>1 DEF None
    <3> QED
      BY <1>3, <3>1, <3>2, <3>3
  <2>2. ConnectionsMade'
    BY <1>1, <1>2, <1>3, <2>1 DEF ConnectionsMade, None
  <2>3. ASSUME NEW r \in Requests, conn'[r] \in DOMAIN sessions' PROVE r \in sessions'[conn'[r]].subs
    <3>1. conn'[r] = conn[r]
      BY <1>3, <2>1, <2>3
    <3> QED
      BY <1>1, <1>2, <2>1, <2>3, <3>1
  <2> QED
    BY <2>2, <2>3 DEF ConnectionInv, ConnectionKnowsRequest
<1>4. ASSUME NEW c \in creates, CreateOk(c) PROVE ConnectionInv'
  <2>1. c.req \in Requests
    BY DEF TypeInv, HelixTypes, Create
  <2>2. CASE c.session \notin DOMAIN sessions
    BY <1>3, <1>4, <2>2 DEF CreateOk, MarkSubscribed, table
  <2>3. CASE c.session \in DOMAIN sessions
    <3>1. /\ conn' = [conn EXCEPT ![c.req] = c.session] /\ nextSession' = nextSession
          /\ sessions' = Listening(c.session, c.req)
      BY <1>4, <2>3 DEF CreateOk, MarkSubscribed
    <3>2. sessions[c.session] \in Session
      BY <1>1, <2>3
    <3>3. /\ DOMAIN sessions' = DOMAIN sessions
          /\ c.req \in sessions'[c.session].subs
          /\ \A q \in DOMAIN sessions : sessions[q].subs \subseteq sessions'[q].subs
      BY <1>1, <2>3, <3>1, <3>2 DEF Listening, Session
    <3>4. ConnectionsMade'
      BY <1>1, <1>2, <2>3, <3>1 DEF ConnectionsMade
    <3> QED
      BY <1>1, <1>2, <2>1, <3>1, <3>3, <3>4 DEF ConnectionInv, ConnectionKnowsRequest
  <2> QED
    BY <2>2, <2>3
<1>5. ASSUME NEW d \in deletes, DeleteDone(d) PROVE ConnectionInv'
  <2> DEFINE r == d.req
  <2>1. r \in Requests
    BY DEF TypeInv, HelixTypes, Delete
  <2> HIDE DEF r
  <2>2. conn' = [conn EXCEPT ![r] = None] /\ nextSession' = nextSession
        /\ sessions' = IF conn[r] \in DOMAIN sessions THEN NotListening(conn[r], r) ELSE sessions
    BY <1>5 DEF DeleteDone, MarkUnsubscribed, Erase, r
  <2>3. ASSUME NEW q \in DOMAIN sessions'
        PROVE  q \in DOMAIN sessions /\ sessions[q].subs \ {r} \subseteq sessions'[q].subs
    <3>1. CASE conn[r] \in DOMAIN sessions
      <4>1. sessions[conn[r]] \in Session
        BY <1>1, <3>1
      <4> QED
        BY <1>1, <2>2, <2>3, <3>1, <4>1 DEF NotListening, Session
    <3> QED
      BY <2>2, <2>3, <3>1
  <2>4. ConnectionsMade'
    BY <1>1, <1>2, <2>1, <2>2 DEF ConnectionsMade, None
  <2>5. ASSUME NEW s \in Requests, conn'[s] \in DOMAIN sessions' PROVE s \in sessions'[conn'[s]].subs
    <3>1. s # r /\ conn'[s] = conn[s]
      BY <1>1, <2>1, <2>2, <2>3, <2>5 DEF None
    <3> QED
      BY <1>2, <2>3, <2>5, <3>1
  <2> QED
    BY <2>4, <2>5 DEF ConnectionInv, ConnectionKnowsRequest
<1>6. ASSUME NEW p \in DOMAIN sessions, Welcome(p) PROVE ConnectionInv'
  <2>1. sessions[p] \in Session
    BY <1>1
  <2>2. DOMAIN sessions' = DOMAIN sessions /\ nextSession' = nextSession /\ conn' = conn
        /\ \A q \in DOMAIN sessions : sessions'[q].subs = sessions[q].subs
    BY <1>1, <1>6, <2>1 DEF Welcome, Session, table
  <2> QED
    BY <1>2, <2>2 DEF ConnectionInv, ConnectionsMade, ConnectionKnowsRequest
<1>7. ASSUME UNCHANGED <<conn, sessions, nextSession>> PROVE ConnectionInv'
  BY <1>3, <1>7
<1>8. ASSUME NEW r, \/ RetrySubscription(r)
                    \/ \E isRetry : StartSubscribe(r, isRetry),
             UNCHANGED <<sessions, nextSession>>
      PROVE  ConnectionInv'
  <2>1. conn' = conn \/ conn' = [conn EXCEPT ![r] = None]
    BY <1>8 DEF RetrySubscription, StartSubscribe, Erase
  <2> QED
    BY <1>1, <1>3, <1>8, <2>1
<1>9. CASE RunTask \/ NextSubscribe \/ PlaceLater
  BY <1>8, <1>9 DEF RunTask, NextSubscribe, PlaceLater
<1>10. CASE Place
  <2>1. conn' = conn /\ (UNCHANGED <<sessions, nextSession>> \/ \E p, s : NewSession(p, s))
    BY <1>10 DEF Place, table
  <2> QED
    BY <1>3, <2>1
<1>11. ASSUME NEW p \in DOMAIN sessions, SessionLost(p) PROVE ConnectionInv'
  <2>1. /\ \A r \in Requests : conn'[r] \in {conn[r], None}
        /\ UNCHANGED nextSession /\ sessions' = [q \in DOMAIN sessions \ {p} |-> sessions[q]]
    BY <1>11 DEF SessionLost, ResetSubscriptions
  <2> QED
    BY <1>3, <2>1
<1>12. ASSUME NEW p \in DOMAIN sessions, SessionReconnect(p) PROVE ConnectionInv'
  <2>1. /\ conn' = conn
        /\ \/ UNCHANGED nextSession /\ sessions' = [q \in DOMAIN sessions \ {p} |-> sessions[q]]
           \/ NewSession(p, sessions[p])
    BY <1>12 DEF SessionReconnect, table
  <2> QED
    BY <1>3, <2>1
<1> QED
  BY <1>4, <1>5, <1>6, <1>7, <1>9, <1>10, <1>11, <1>12
     DEF Next, Gui, Io, Environment, Subscribe, RemoveRef, CreateFailed, CreateForbidden, CreateRetry,
         Accept, TimerFire, vars, table

\* The table, changed on the GUI thread, and the listeners, changed on both, agree:
\* an entry names a session with a listener only if that listener has the request.
THEOREM ConnectionKnowsRequestHolds == Spec => []ConnectionKnowsRequest
<1>1. Init => ConnectionInv
  BY DEF Init, ConnectionInv, ConnectionsMade, ConnectionKnowsRequest, None
<1>2. ConnectionInv => ConnectionKnowsRequest
  BY DEF ConnectionInv
<1> QED
  BY <1>1, <1>2, TypeInvInit, TypeInvNext, ConnectionStep, PTL DEF Spec

--------------------------------------------------------------------------------
(* Identifiers: an id is used by one create, one entry, or the deletes of one     *)
(* request, and what exists at Twitch under it is the same request's.             *)

CreatedApart ==
    \A c \in creates : c.id # None =>
        /\ \A e \in creates : e.id = c.id => e = c
        /\ \A d \in deletes : d.id # c.id
        /\ \A r \in Requests : subID[r] # c.id

IdsNameRequests ==
    \A l \in live :
        /\ l.id # None
        /\ \A x \in creates \cup deletes : x.id = l.id => x.req = l.req
        /\ \A r \in Requests : subID[r] = l.id => r = l.req

IdsInv == CreatedApart /\ IdsNameRequests

\* Ids that only go out of use stay apart.
LEMMA IdsFade ==
    ASSUME TypeInv, IdsInv, live' \subseteq live, deletes' \subseteq deletes,
           \A c \in creates' : c \in creates \/ c.id = None,
           \A r \in Requests : subID'[r] \in {subID[r], None}
    PROVE  IdsInv'
<1>1. CreatedApart'
  BY DEF IdsInv, CreatedApart
<1>2. IdsNameRequests'
  BY DEF IdsInv, IdsNameRequests
<1> QED
  BY <1>1, <1>2 DEF IdsInv

LEMMA IdsStep == TypeInv /\ IdsInv /\ [Next]_vars => IdsInv'
<1> SUFFICES ASSUME TypeInv, IdsInv, [Next]_vars PROVE IdsInv'
  OBVIOUS
<1>1. subID \in [Requests -> Nat] /\ creates \subseteq Create /\ deletes \subseteq Delete
      /\ live \subseteq Live
  BY DEF TypeInv, TableTypes, HelixTypes
<1>2. ASSUME UNCHANGED <<subID, creates, deletes, live>> PROVE IdsInv'
  BY <1>2 DEF IdsInv, CreatedApart, IdsNameRequests
<1>3. ASSUME NEW r \in Requests, RemoveRef(r) PROVE IdsInv'
  <2>1. CASE UNCHANGED <<subID, deletes>>
    BY <1>2, <1>3, <2>1 DEF RemoveRef
  <2>2. CASE ~UNCHANGED <<subID, deletes>>
    <3> DEFINE new == [tag |-> FreshIn({d.tag : d \in deletes}), req |-> r, id |-> subID[r]]
    <3>1. /\ subID' = [subID EXCEPT ![r] = None] /\ deletes' = deletes \cup {new}
          /\ UNCHANGED <<creates, live>>
      BY <1>3, <2>2 DEF RemoveRef
    <3>2. new.req = r /\ new.id = subID[r]
      OBVIOUS
    <3> HIDE DEF new
    <3>3. CreatedApart'
      BY <1>1, <3>1, <3>2 DEF IdsInv, CreatedApart
    <3>4. IdsNameRequests'
      BY <1>1, <3>1, <3>2 DEF IdsInv, IdsNameRequests
    <3> QED
      BY <3>3, <3>4 DEF IdsInv
  <2> QED
    BY <2>1, <2>2
<1>4. ASSUME NEW c \in creates, CreateOk(c) PROVE IdsInv'
  <2>1. c.req \in Requests /\ c.id # None
        /\ creates' = creates \ {c} /\ UNCHANGED <<deletes, live>>
    BY <1>1, <1>4 DEF CreateOk, Create
  <2>2. UNCHANGED subID \/ subID' = [subID EXCEPT ![c.req] = c.id]
    BY <1>4 DEF CreateOk, MarkSubscribed, table
  <2>3. CreatedApart'
    BY <1>1, <2>1, <2>2 DEF IdsInv, CreatedApart
  <2>4. IdsNameRequests'
    BY <1>1, <2>1, <2>2 DEF IdsInv, IdsNameRequests
  <2> QED
    BY <2>3, <2>4 DEF IdsInv
<1>5. ASSUME NEW c \in creates, CreateFailed(c) \/ CreateForbidden(c) \/ CreateRetry(c) PROVE IdsInv'
  <2>1. UNCHANGED <<subID, deletes, live>> /\ creates' \subseteq creates
    BY <1>5 DEF CreateFailed, CreateForbidden, CreateRetry, table
  <2> QED
    BY <2>1, IdsFade
<1>6. ASSUME NEW d \in deletes, DeleteDone(d) PROVE IdsInv'
  <2>1. UNCHANGED creates /\ deletes' \subseteq deletes /\ live' \subseteq live
        /\ (UNCHANGED subID \/ subID' = [subID EXCEPT ![d.req] = None])
    BY <1>6 DEF DeleteDone, MarkUnsubscribed, Erase
  <2>2. \A r \in Requests : subID'[r] \in {subID[r], None}
    BY <1>1, <2>1
  <2> QED
    BY <2>1, <2>2, IdsFade
<1>7. ASSUME NEW c \in creates, Accept(c) PROVE IdsInv'
  <2> DEFINE id == FreshIn(IdsInUse \ {None})
             made == [id |-> id, req |-> c.req, logical |-> c.logical]
             answered == [c EXCEPT !.id = id]
  <2>1. id # None /\ id \notin IdsInUse
    BY AllIdsAreFinite, FS_RemoveElement, FreshIsNew DEF None
  <2>2. /\ live' = live \cup {made} /\ creates' = (creates \ {c}) \cup {answered}
        /\ UNCHANGED <<subID, deletes>>
    BY <1>7 DEF Accept, table
  <2> HIDE DEF id
  <2>3. made.id = id /\ made.req = c.req /\ answered.id = id /\ answered.req = c.req
    BY <1>1 DEF Create
  <2>4. /\ \A x \in live \cup deletes \cup creates : x.id # id
        /\ \A r \in Requests : subID[r] # id
    BY <2>1 DEF IdsInUse
  <2> HIDE DEF made, answered
  <2>5. CreatedApart'
    BY <2>2, <2>3, <2>4 DEF IdsInv, CreatedApart
  <2>6. IdsNameRequests'
    BY <2>1, <2>2, <2>3, <2>4 DEF IdsInv, IdsNameRequests
  <2> QED
    BY <2>5, <2>6 DEF IdsInv
<1>8. ASSUME NEW r, \/ RetrySubscription(r)
                    \/ \E isRetry : StartSubscribe(r, isRetry),
             UNCHANGED helix
      PROVE  IdsInv'
  <2>1. subID' = subID \/ subID' = [subID EXCEPT ![r] = None]
    BY <1>8 DEF RetrySubscription, StartSubscribe, Erase
  <2> QED
    BY <1>1, <1>8, <2>1, IdsFade DEF helix
<1>9. CASE RunTask \/ NextSubscribe \/ PlaceLater
  BY <1>8, <1>9 DEF RunTask, NextSubscribe, PlaceLater
<1>10. CASE Place
  <2>1. UNCHANGED <<subID, deletes, live>> /\ \A c \in creates' : c \in creates \/ c.id = None
    <3> DEFINE r == Head(todo)[2]
    <3>1. CASE Viable(r) = {}
      BY <1>10, <3>1 DEF Place, table
    <3>2. CASE Viable(r) # {}
      <4> DEFINE p == CHOOSE v \in Viable(r) : \A w \in Viable(r) : v <= w
                 new == [tag |-> FreshIn({c.tag : c \in creates}), req |-> r, session |-> p,
                         logical |-> sessions[p].logical, id |-> None]
      <4>1. creates' = creates \cup {new} /\ UNCHANGED <<subID, deletes, live>>
        BY <1>10, <3>2 DEF Place, table
      <4>2. new.id = None
        OBVIOUS
      <4> HIDE DEF new
      <4> QED
        BY <4>1, <4>2
    <3> QED
      BY <3>1, <3>2
  <2> QED
    BY <2>1, IdsFade
<1>11. ASSUME NEW p \in DOMAIN sessions, SessionLost(p) \/ SessionReconnect(p) PROVE IdsInv'
  <2>1. UNCHANGED <<subID, creates, deletes>> /\ live' \subseteq live
    BY <1>11 DEF SessionLost, SessionReconnect, table
  <2> QED
    BY <2>1, IdsFade
<1> QED
  BY <1>2, <1>3, <1>4, <1>5, <1>6, <1>7, <1>9, <1>10, <1>11
     DEF Next, Gui, Io, Environment, Subscribe, Welcome, TimerFire, vars, table, helix

--------------------------------------------------------------------------------
(* Sessions and what exists on them *)

\* No two listeners are on one session of Twitch, and a create knows the session
\* of Twitch its connection is on.
SessionsApart ==
    /\ \A p, q \in DOMAIN sessions : sessions[p].logical = sessions[q].logical => p = q
    /\ \A p \in DOMAIN sessions : sessions[p].logical < nextSession
    /\ \A c \in creates :
          /\ c.session < nextSession
          /\ c.session \in DOMAIN sessions => sessions[c.session].logical = c.logical

LEMMA SessionsApartStep == TypeInv /\ SessionsApart /\ [Next]_vars => SessionsApart'
<1> SUFFICES ASSUME TypeInv, SessionsApart, [Next]_vars PROVE SessionsApart'
  OBVIOUS
<1>1. /\ nextSession \in Nat /\ \A p \in DOMAIN sessions : p \in Nat /\ p < nextSession
      /\ sessions \in [DOMAIN sessions -> Session] /\ creates \subseteq Create
      /\ \A p \in DOMAIN sessions : sessions[p].logical \in Nat
  BY DEF TypeInv, SessionTypes, HelixTypes, Session
<1>2. ASSUME UNCHANGED nextSession, DOMAIN sessions' \subseteq DOMAIN sessions,
             \A p \in DOMAIN sessions' : sessions'[p].logical = sessions[p].logical,
             \A c \in creates' : \/ c \in creates
                                 \/ \E e \in creates : c.session = e.session /\ c.logical = e.logical
                                 \/ c.session \in DOMAIN sessions
                                    /\ c.logical = sessions[c.session].logical
      PROVE  SessionsApart'
  BY <1>1, <1>2 DEF SessionsApart
<1>3. ASSUME NEW p, NEW s, NewSession(p, s), UNCHANGED creates,
             s.logical = nextSession \/ (p \in DOMAIN sessions /\ s.logical = sessions[p].logical)
      PROVE  SessionsApart'
  <2>1. /\ nextSession' = nextSession + 1
        /\ DOMAIN sessions' = (DOMAIN sessions \ {p}) \cup {nextSession}
        /\ sessions'[nextSession] = s
        /\ \A q \in DOMAIN sessions' : q # nextSession => sessions'[q] = sessions[q]
    BY <1>3 DEF NewSession
  <2>2. \A q \in DOMAIN sessions' : sessions'[q].logical < nextSession'
    BY <1>1, <1>3, <2>1 DEF SessionsApart
  <2>3. \A q, m \in DOMAIN sessions' : sessions'[q].logical = sessions'[m].logical => q = m
    BY <1>1, <1>3, <2>1 DEF SessionsApart
  <2>4. ASSUME NEW c \in creates'
        PROVE  /\ c.session < nextSession'
               /\ c.session \in DOMAIN sessions' => sessions'[c.session].logical = c.logical
    <3>1. c.session \in Nat /\ c.session < nextSession
      BY <1>1, <1>3, <2>4 DEF SessionsApart, Create
    <3> QED
      BY <1>1, <1>3, <2>1, <2>4, <3>1 DEF SessionsApart
  <2> QED
    BY <2>2, <2>3, <2>4 DEF SessionsApart
<1>4. ASSUME NEW r, NEW p \in DOMAIN sessions,
             \/ sessions' = Listening(p, r)
             \/ sessions' = NotListening(p, r)
             \/ sessions' = [sessions EXCEPT ![p].ready = TRUE]
      PROVE  DOMAIN sessions' = DOMAIN sessions
             /\ \A q \in DOMAIN sessions : sessions'[q].logical = sessions[q].logical
  <2>1. sessions[p] \in Session
    BY <1>1
  <2> QED
    BY <1>1, <1>4, <2>1 DEF Listening, NotListening, Session
<1>5. ASSUME NEW c \in creates, CreateOk(c) PROVE SessionsApart'
  <2>1. creates' = creates \ {c} /\ UNCHANGED nextSession
        /\ (UNCHANGED sessions \/ (c.session \in DOMAIN sessions /\ sessions' = Listening(c.session, c.req)))
    BY <1>5 DEF CreateOk, MarkSubscribed
  <2> QED
    BY <1>2, <1>4, <2>1
<1>6. ASSUME NEW d \in deletes, DeleteDone(d) PROVE SessionsApart'
  <2>1. UNCHANGED <<creates, nextSession>>
        /\ \/ UNCHANGED sessions
           \/ conn[d.req] \in DOMAIN sessions /\ sessions' = NotListening(conn[d.req], d.req)
    BY <1>6 DEF DeleteDone, MarkUnsubscribed
  <2> QED
    BY <1>2, <1>4, <2>1
<1>7. ASSUME UNCHANGED <<sessions, nextSession>>, creates' \subseteq creates PROVE SessionsApart'
  BY <1>2, <1>7
<1>8. ASSUME NEW p \in DOMAIN sessions, Welcome(p) PROVE SessionsApart'
  BY <1>2, <1>4, <1>8 DEF Welcome, helix
<1>9. ASSUME NEW p \in DOMAIN sessions, SessionLost(p) \/ SessionReconnect(p) PROVE SessionsApart'
  <2>1. /\ UNCHANGED creates
        /\ \/ UNCHANGED nextSession /\ sessions' = [q \in DOMAIN sessions \ {p} |-> sessions[q]]
           \/ NewSession(p, sessions[p])
    BY <1>9 DEF SessionLost, SessionReconnect
  <2>2. CASE sessions' = [q \in DOMAIN sessions \ {p} |-> sessions[q]] /\ UNCHANGED nextSession
    BY <1>2, <2>1, <2>2
  <2> QED
    BY <1>3, <2>1, <2>2
<1>10. ASSUME NEW c \in creates, Accept(c) PROVE SessionsApart'
  <2> DEFINE answered == [c EXCEPT !.id = FreshIn(IdsInUse \ {None})]
  <2>1. creates' = (creates \ {c}) \cup {answered} /\ UNCHANGED <<sessions, nextSession>>
    BY <1>10 DEF Accept
  <2>2. answered.session = c.session /\ answered.logical = c.logical
    BY <1>1 DEF Create
  <2> HIDE DEF answered
  <2> QED
    BY <1>2, <2>1, <2>2
<1>11. CASE Place
  <2> DEFINE r == Head(todo)[2]
  <2>1. CASE Viable(r) = {}
    <3>1. \/ UNCHANGED <<sessions, nextSession>>
          \/ NewSession(None, [ready |-> FALSE, logical |-> nextSession, subs |-> {}, user |-> NoUser])
      BY <1>11, <2>1 DEF Place
    <3>2. UNCHANGED creates
      BY <1>11, <2>1 DEF Place
    <3> QED
      BY <1>3, <1>7, <3>1, <3>2
  <2>2. CASE Viable(r) # {}
    <3> DEFINE p == CHOOSE v \in Viable(r) : \A w \in Viable(r) : v <= w
               new == [tag |-> FreshIn({c.tag : c \in creates}), req |-> r, session |-> p,
                       logical |-> sessions[p].logical, id |-> None]
    <3>1. p \in Viable(r)
      <4>1. Viable(r) \subseteq Nat
        BY <1>1 DEF Viable
      <4>2. PICK v \in Viable(r) : \A w \in Viable(r) : v <= w
        BY <2>2, <4>1, SmallestIn
      <4> QED
        BY <4>2
    <3>2. creates' = creates \cup {new} /\ UNCHANGED <<sessions, nextSession>>
      BY <1>11, <2>2 DEF Place
    <3> HIDE DEF p
    <3>3. p \in DOMAIN sessions
      BY <3>1 DEF Viable
    <3>4. new.session = p /\ new.logical = sessions[p].logical
      OBVIOUS
    <3> HIDE DEF new
    <3> QED
      BY <1>2, <3>2, <3>3, <3>4
  <2> QED
    BY <2>1, <2>2
<1> QED
  BY <1>5, <1>6, <1>7, <1>8, <1>9, <1>10, <1>11
     DEF Next, Gui, Io, Environment, Subscribe, RemoveRef, CreateFailed, CreateForbidden, CreateRetry,
         RunTask, NextSubscribe, PlaceLater, TimerFire, vars, helix

\* A create that Twitch has carried out, on a connection that still listens, is the
\* create of a subscription that exists.
CreatedIsLive ==
    \A c \in creates : c.id # None /\ c.session \in DOMAIN sessions =>
        \E l \in live : l.id = c.id /\ l.req = c.req /\ l.logical = c.logical

HeardInv == IdsInv /\ SessionsApart /\ CreatedIsLive /\ SubscribedIsHeard

LEMMA CreatedIsLiveStep ==
    TypeInv /\ HeardInv /\ [Next]_vars => CreatedIsLive'
<1> SUFFICES ASSUME TypeInv, HeardInv, [Next]_vars PROVE CreatedIsLive'
  OBVIOUS
<1>1. /\ nextSession \in Nat /\ \A p \in DOMAIN sessions : p \in Nat /\ p < nextSession
      /\ sessions \in [DOMAIN sessions -> Session] /\ creates \subseteq Create
      /\ deletes \subseteq Delete /\ live \subseteq Live
  BY DEF TypeInv, SessionTypes, HelixTypes
<1>2. \A c \in creates : c.id # None /\ c.session \in DOMAIN sessions =>
        \E l \in live : l.id = c.id /\ l.req = c.req /\ l.logical = c.logical
  BY DEF HeardInv, CreatedIsLive
<1>3. ASSUME live \subseteq live', DOMAIN sessions' \subseteq DOMAIN sessions,
             \A c \in creates' : c \in creates \/ c.id = None
      PROVE  CreatedIsLive'
  <2> SUFFICES ASSUME NEW c \in creates', c.id # None, c.session \in DOMAIN sessions'
               PROVE  \E l \in live' : l.id = c.id /\ l.req = c.req /\ l.logical = c.logical
    BY DEF CreatedIsLive
  <2>1. PICK l \in live : l.id = c.id /\ l.req = c.req /\ l.logical = c.logical
    BY <1>2, <1>3
  <2> QED
    BY <1>3, <2>1
<1>4. ASSUME NEW c \in creates, CreateOk(c) PROVE CreatedIsLive'
  <2>1. creates' = creates \ {c} /\ UNCHANGED live
        /\ (UNCHANGED sessions \/ (c.session \in DOMAIN sessions /\ sessions' = Listening(c.session, c.req)))
    BY <1>4 DEF CreateOk, MarkSubscribed
  <2>2. DOMAIN sessions' \subseteq DOMAIN sessions
    BY <2>1 DEF Listening
  <2> QED
    BY <1>3, <2>1, <2>2
<1>5. ASSUME NEW d \in deletes, DeleteDone(d) PROVE CreatedIsLive'
  <2>1. /\ UNCHANGED creates
        /\ UNCHANGED live \/ live' = {l \in live : l.id # d.id}
        /\ \/ UNCHANGED sessions
           \/ conn[d.req] \in DOMAIN sessions /\ sessions' = NotListening(conn[d.req], d.req)
    BY <1>5 DEF DeleteDone, MarkUnsubscribed
  <2>2. DOMAIN sessions' \subseteq DOMAIN sessions
    BY <2>1 DEF NotListening
  <2>3. \A c \in creates : c.id # None => d.id # c.id
    BY DEF HeardInv, IdsInv, CreatedApart
  <2> QED
    BY <1>2, <2>1, <2>2, <2>3 DEF CreatedIsLive
<1>6. ASSUME NEW p \in DOMAIN sessions, SessionLost(p) \/ SessionReconnect(p) PROVE CreatedIsLive'
  <2>1. /\ UNCHANGED creates
        /\ \/ /\ sessions' = [q \in DOMAIN sessions \ {p} |-> sessions[q]]
              /\ live' = {l \in live : l.logical # sessions[p].logical}
           \/ NewSession(p, sessions[p]) /\ UNCHANGED live
    BY <1>6 DEF SessionLost, SessionReconnect
  <2> SUFFICES ASSUME NEW c \in creates, c.id # None, c.session \in DOMAIN sessions'
               PROVE  \E l \in live' : l.id = c.id /\ l.req = c.req /\ l.logical = c.logical
    BY <2>1 DEF CreatedIsLive
  <2>2. c.session \in Nat /\ c.session < nextSession
    BY <1>1 DEF HeardInv, SessionsApart, Create
  <2>3. c.session \in DOMAIN sessions /\ c.session # p
    BY <1>1, <2>1, <2>2 DEF NewSession
  <2>4. PICK l \in live : l.id = c.id /\ l.req = c.req /\ l.logical = c.logical
    BY <1>2, <2>3
  <2>5. c.logical = sessions[c.session].logical /\ c.logical # sessions[p].logical
    BY <2>3 DEF HeardInv, SessionsApart
  <2> QED
    BY <2>1, <2>4, <2>5
<1>7. ASSUME NEW c \in creates, Accept(c) PROVE CreatedIsLive'
  <2> DEFINE id == FreshIn(IdsInUse \ {None})
             made == [id |-> id, req |-> c.req, logical |-> c.logical]
             answered == [c EXCEPT !.id = id]
  <2>1. /\ live' = live \cup {made} /\ creates' = (creates \ {c}) \cup {answered}
        /\ UNCHANGED sessions
    BY <1>7 DEF Accept
  <2>2. /\ made.id = id /\ made.req = c.req /\ made.logical = c.logical
        /\ answered.id = id /\ answered.req = c.req /\ answered.logical = c.logical
    BY <1>1 DEF Create
  <2> HIDE DEF made, answered, id
  <2> SUFFICES ASSUME NEW e \in creates', e.id # None, e.session \in DOMAIN sessions
               PROVE  \E l \in live' : l.id = e.id /\ l.req = e.req /\ l.logical = e.logical
    BY <2>1 DEF CreatedIsLive
  <2> QED
    BY <1>2, <2>1, <2>2
<1>8. CASE Place
  <2> DEFINE r == Head(todo)[2]
  <2>1. CASE Viable(r) = {}
    <3>1. \/ UNCHANGED <<sessions, nextSession>>
          \/ NewSession(None, [ready |-> FALSE, logical |-> nextSession, subs |-> {}, user |-> NoUser])
      BY <1>8, <2>1 DEF Place
    <3>2. UNCHANGED <<creates, live>>
      BY <1>8, <2>1 DEF Place
    <3> SUFFICES ASSUME NEW c \in creates, c.id # None, c.session \in DOMAIN sessions'
                 PROVE  \E l \in live : l.id = c.id /\ l.req = c.req /\ l.logical = c.logical
      BY <3>2 DEF CreatedIsLive
    <3>3. c.session \in Nat /\ c.session < nextSession
      BY <1>1 DEF HeardInv, SessionsApart, Create
    <3>4. c.session \in DOMAIN sessions
      BY <1>1, <3>1, <3>3 DEF NewSession
    <3> QED
      BY <1>2, <3>4
  <2>2. CASE Viable(r) # {}
    <3> DEFINE p == CHOOSE v \in Viable(r) : \A w \in Viable(r) : v <= w
               new == [tag |-> FreshIn({c.tag : c \in creates}), req |-> r, session |-> p,
                       logical |-> sessions[p].logical, id |-> None]
    <3>1. creates' = creates \cup {new} /\ UNCHANGED <<live, sessions>>
      BY <1>8, <2>2 DEF Place
    <3>2. new.id = None
      OBVIOUS
    <3> HIDE DEF new
    <3> QED
      BY <1>3, <3>1, <3>2
  <2> QED
    BY <2>1, <2>2
<1>9. ASSUME NEW p \in DOMAIN sessions, Welcome(p) PROVE CreatedIsLive'
  BY <1>3, <1>9 DEF Welcome, helix
<1>10. ASSUME UNCHANGED <<live, sessions>>, creates' \subseteq creates PROVE CreatedIsLive'
  BY <1>3, <1>10
<1> QED
  BY <1>4, <1>5, <1>6, <1>7, <1>8, <1>9, <1>10
     DEF Next, Gui, Io, Environment, Subscribe, RemoveRef, CreateFailed, CreateForbidden, CreateRetry,
         RunTask, NextSubscribe, PlaceLater, TimerFire, vars, helix

\* Request r is heard: what SubscribedIsHeard asks for a request that is Subscribed.
Heard(r) ==
    \E p \in DOMAIN sessions : /\ r \in sessions[p].subs
                               /\ \E l \in live : l.req = r /\ l.logical = sessions[p].logical

LEMMA SubscribedIsHeardStep ==
    TypeInv /\ HeardInv /\ [Next]_vars => SubscribedIsHeard'
<1> SUFFICES ASSUME TypeInv, HeardInv, [Next]_vars PROVE SubscribedIsHeard'
  OBVIOUS
<1>1. /\ nextSession \in Nat /\ \A p \in DOMAIN sessions : p \in Nat /\ p < nextSession
      /\ sessions \in [DOMAIN sessions -> Session] /\ creates \subseteq Create
      /\ deletes \subseteq Delete /\ live \subseteq Live /\ state \in [Requests -> States]
  BY DEF TypeInv, SessionTypes, HelixTypes, TableTypes
<1>2. \A r \in Requests : state[r] = "Subscribed" => Heard(r)
  BY DEF HeardInv, SubscribedIsHeard, Heard
<1>3. (\A r \in Requests : state'[r] = "Subscribed" => Heard(r)') => SubscribedIsHeard'
  BY DEF SubscribedIsHeard, Heard
<1>4. ASSUME \A r \in Requests : state'[r] = "Subscribed" => state[r] = "Subscribed",
             live \subseteq live', UNCHANGED sessions
      PROVE  SubscribedIsHeard'
  <2> SUFFICES ASSUME NEW r \in Requests, Heard(r) PROVE Heard(r)'
    BY <1>2, <1>3, <1>4
  <2> QED
    BY <1>4 DEF Heard
<1>5. ASSUME NEW c \in creates, CreateOk(c) PROVE SubscribedIsHeard'
  <2>1. CASE c.session \notin DOMAIN sessions
    BY <1>4, <1>5, <2>1 DEF CreateOk, MarkSubscribed, table
  <2>2. CASE c.session \in DOMAIN sessions
    <3> DEFINE p == c.session
    <3>1. /\ sessions' = Listening(p, c.req) /\ UNCHANGED live /\ c.id # None
          /\ state' = [state EXCEPT ![c.req] = "Subscribed"]
      BY <1>5, <2>2 DEF CreateOk, MarkSubscribed
    <3>2. p \in DOMAIN sessions /\ sessions[p] \in Session
      BY <1>1, <2>2
    <3> HIDE DEF p
    <3>3. /\ DOMAIN sessions' = DOMAIN sessions
          /\ c.req \in sessions'[p].subs
          /\ \A q \in DOMAIN sessions : /\ sessions[q].subs \subseteq sessions'[q].subs
                                        /\ sessions'[q].logical = sessions[q].logical
      BY <1>1, <3>1, <3>2 DEF Listening, Session
    <3>4. Heard(c.req)'
      <4>1. PICK l \in live : l.req = c.req /\ l.logical = c.logical
        BY <2>2, <3>1 DEF HeardInv, CreatedIsLive
      <4>2. sessions[p].logical = c.logical
        BY <2>2 DEF HeardInv, SessionsApart, p
      <4> QED
        BY <3>1, <3>2, <3>3, <4>1, <4>2 DEF Heard
    <3>5. ASSUME NEW r \in Requests, state[r] = "Subscribed" PROVE Heard(r)'
      BY <1>2, <3>1, <3>3, <3>5 DEF Heard
    <3> QED
      BY <1>1, <1>3, <3>1, <3>4, <3>5
  <2> QED
    BY <2>1, <2>2
<1>6. ASSUME NEW d \in deletes, DeleteDone(d) PROVE SubscribedIsHeard'
  <2>1. d.req \in Requests
    BY <1>1 DEF Delete
  <2>2. /\ live' = live \/ live' = {l \in live : l.id # d.id}
        /\ \/ UNCHANGED sessions
           \/ conn[d.req] \in DOMAIN sessions /\ sessions' = NotListening(conn[d.req], d.req)
        /\ \E s \in {"absent", "Subscribing"} : state' = [state EXCEPT ![d.req] = s]
    BY <1>6 DEF DeleteDone, MarkUnsubscribed, Erase
  <2>3. DOMAIN sessions' = DOMAIN sessions
        /\ \A q \in DOMAIN sessions : /\ sessions[q].subs \ {d.req} \subseteq sessions'[q].subs
                                      /\ sessions'[q].logical = sessions[q].logical
    <3>1. CASE conn[d.req] \in DOMAIN sessions /\ sessions' = NotListening(conn[d.req], d.req)
      <4>1. sessions[conn[d.req]] \in Session
        BY <1>1, <3>1
      <4> QED
        BY <1>1, <3>1, <4>1 DEF NotListening, Session
    <3> QED
      BY <2>2, <3>1
  <2>4. \A l \in live : l.req # d.req => l \in live'
    BY <2>2 DEF HeardInv, IdsInv, IdsNameRequests
  <2> SUFFICES ASSUME NEW r \in Requests, state'[r] = "Subscribed" PROVE Heard(r)'
    BY <1>3
  <2>5. r # d.req /\ state[r] = "Subscribed"
    BY <1>1, <2>1, <2>2
  <2>6. PICK q \in DOMAIN sessions : /\ r \in sessions[q].subs
                                     /\ \E l \in live : l.req = r /\ l.logical = sessions[q].logical
    BY <1>2, <2>5 DEF Heard
  <2> QED
    BY <2>3, <2>4, <2>5, <2>6 DEF Heard
<1>7. ASSUME NEW p \in DOMAIN sessions,
             sessions' = [q \in DOMAIN sessions \ {p} |-> sessions[q]],
             live' = {l \in live : l.logical # sessions[p].logical},
             \A r \in Requests : state'[r] = "Subscribed"
                                    => state[r] = "Subscribed" /\ r \notin sessions[p].subs
      PROVE  SubscribedIsHeard'
  <2> SUFFICES ASSUME NEW r \in Requests, state'[r] = "Subscribed" PROVE Heard(r)'
    BY <1>3
  <2>1. PICK q \in DOMAIN sessions : /\ r \in sessions[q].subs
                                     /\ \E l \in live : l.req = r /\ l.logical = sessions[q].logical
    BY <1>2, <1>7 DEF Heard
  <2>2. q # p
    BY <1>7, <2>1
  <2>3. sessions[q].logical # sessions[p].logical
    BY <2>2 DEF HeardInv, SessionsApart
  <2> QED
    BY <1>7, <2>1, <2>2, <2>3 DEF Heard
<1>8. ASSUME NEW p, NEW s, NewSession(p, s), p \in DOMAIN sessions => s = sessions[p],
             UNCHANGED <<state, live>>
      PROVE  SubscribedIsHeard'
  <2> SUFFICES ASSUME NEW r \in Requests, state[r] = "Subscribed" PROVE Heard(r)'
    BY <1>3, <1>8
  <2>1. PICK q \in DOMAIN sessions : /\ r \in sessions[q].subs
                                     /\ \E l \in live : l.req = r /\ l.logical = sessions[q].logical
    BY <1>2 DEF Heard
  <2>2. PICK m \in DOMAIN sessions' : sessions'[m] = sessions[q]
    <3>1. CASE q = p
      BY <1>8, <3>1 DEF NewSession
    <3>2. CASE q # p
      <4>1. q # nextSession
        BY <1>1
      <4> QED
        BY <1>8, <3>2, <4>1 DEF NewSession
    <3> QED
      BY <3>1, <3>2
  <2> QED
    BY <1>8, <2>1, <2>2 DEF Heard
<1>9. ASSUME NEW p \in DOMAIN sessions, SessionLost(p) PROVE SubscribedIsHeard'
  <2>1. \A r \in Requests : state'[r] = "Subscribed"
                               => state[r] = "Subscribed" /\ r \notin sessions[p].subs
    BY <1>1, <1>9 DEF SessionLost, ResetSubscriptions
  <2> QED
    BY <1>7, <1>9, <2>1 DEF SessionLost
<1>10. ASSUME NEW p \in DOMAIN sessions, SessionReconnect(p) PROVE SubscribedIsHeard'
  <2>1. CASE sessions[p].subs = {}
    BY <1>7, <1>10, <2>1 DEF SessionReconnect, table
  <2>2. CASE sessions[p].subs # {}
    BY <1>8, <1>10, <2>2 DEF SessionReconnect, table
  <2> QED
    BY <2>1, <2>2
<1>11. CASE Place
  <2>1. UNCHANGED <<state, live>>
        /\ \/ UNCHANGED sessions
           \/ NewSession(None, [ready |-> FALSE, logical |-> nextSession, subs |-> {}, user |-> NoUser])
    BY <1>11 DEF Place, table
  <2>2. None \notin DOMAIN sessions
    BY DEF TypeInv, SessionTypes, None
  <2> QED
    BY <1>4, <1>8, <2>1, <2>2
<1>12. ASSUME NEW p \in DOMAIN sessions, Welcome(p) PROVE SubscribedIsHeard'
  <2>1. sessions[p] \in Session
    BY <1>1
  <2>2. /\ DOMAIN sessions' = DOMAIN sessions /\ UNCHANGED <<state, live>>
        /\ \A q \in DOMAIN sessions : /\ sessions[q].subs = sessions'[q].subs
                                      /\ sessions'[q].logical = sessions[q].logical
    BY <1>1, <1>12, <2>1 DEF Welcome, Session, table, helix
  <2>3. \A r : Heard(r) => Heard(r)'
    BY <2>2 DEF Heard
  <2> QED
    BY <1>2, <1>3, <2>2, <2>3
<1>13. ASSUME NEW r, NEW s, state' = [state EXCEPT ![r] = s], s = "Subscribed" => state[r] = s,
              live \subseteq live', UNCHANGED sessions
       PROVE  SubscribedIsHeard'
  BY <1>1, <1>4, <1>13
<1>14. ASSUME NEW r, \/ RetrySubscription(r)
                     \/ \E isRetry : StartSubscribe(r, isRetry),
              UNCHANGED <<sessions, helix>>
       PROVE  SubscribedIsHeard'
  BY <1>13, <1>14 DEF RetrySubscription, StartSubscribe, Erase, Entered, helix
<1>15. CASE RunTask \/ NextSubscribe \/ PlaceLater
  BY <1>14, <1>15 DEF RunTask, NextSubscribe, PlaceLater, helix
<1>16. ASSUME UNCHANGED <<state, sessions>>, live \subseteq live' PROVE SubscribedIsHeard'
  BY <1>4, <1>16
<1>17. ASSUME NEW r \in Requests, Subscribe(r) \/ RemoveRef(r) PROVE SubscribedIsHeard'
  <2>1. /\ UNCHANGED <<sessions, live>>
        /\ \/ UNCHANGED state
           \/ \E s \in {"Subscribing", "Unsubscribing"} : state' = [state EXCEPT ![r] = s]
    BY <1>17 DEF Subscribe, RemoveRef, helix
  <2> QED
    BY <1>13, <1>16, <2>1
<1>18. ASSUME NEW c \in creates, CreateFailed(c) PROVE SubscribedIsHeard'
  BY <1>13, <1>18 DEF CreateFailed
<1> QED
  BY <1>5, <1>6, <1>9, <1>10, <1>11, <1>12, <1>15, <1>16, <1>17, <1>18
     DEF Next, Gui, Io, Environment, CreateForbidden, CreateRetry, Accept, TimerFire, vars, table, helix

\* A subscription that is Subscribed exists at Twitch on a session whose listener
\* remembers it, for any interleaving of answers, deaths, reconnects and deletes.
THEOREM SubscribedIsHeardHolds == Spec => []SubscribedIsHeard
<1>1. Init => HeardInv
  BY DEF Init, HeardInv, IdsInv, CreatedApart, IdsNameRequests, SessionsApart, CreatedIsLive,
         SubscribedIsHeard
<1>2. TypeInv /\ HeardInv /\ [Next]_vars => HeardInv'
  BY IdsStep, SessionsApartStep, CreatedIsLiveStep, SubscribedIsHeardStep DEF HeardInv
<1>3. HeardInv => SubscribedIsHeard
  BY DEF HeardInv
<1> QED
  BY <1>1, <1>2, <1>3, TypeInvInit, TypeInvNext, PTL DEF Spec

--------------------------------------------------------------------------------
(* One user *)

OneUser == \A r, s \in Requests : Owner[r] = Owner[s]

OneSession == \A p, q \in DOMAIN sessions : p = q
LiveIsAlive == \A l \in live : Alive(l.logical)
OneUserInv == OneSession /\ LiveIsAlive /\ OneSubscription

LEMMA OneUserStep ==
    ASSUME OneUser, TypeInv, OneUserInv, [Next]_vars
    PROVE  OneUserInv'
<1>1. /\ nextSession \in Nat /\ \A p \in DOMAIN sessions : p \in Nat /\ p < nextSession
      /\ sessions \in [DOMAIN sessions -> Session] /\ creates \subseteq Create
      /\ None \notin DOMAIN sessions
  BY DEF TypeInv, SessionTypes, HelixTypes, None
<1>2. ASSUME live' \subseteq live, DOMAIN sessions' = DOMAIN sessions,
             \A p \in DOMAIN sessions : sessions'[p].logical = sessions[p].logical
      PROVE  OneUserInv'
  BY <1>2 DEF OneUserInv, OneSession, LiveIsAlive, OneSubscription, Alive
<1>3. ASSUME NEW r, NEW p \in DOMAIN sessions,
             \/ sessions' = Listening(p, r)
             \/ sessions' = NotListening(p, r)
             \/ sessions' = [sessions EXCEPT ![p].ready = TRUE],
             live' \subseteq live
      PROVE  OneUserInv'
  <2>1. sessions[p] \in Session
    BY <1>1
  <2>2. DOMAIN sessions' = DOMAIN sessions
        /\ \A q \in DOMAIN sessions : sessions'[q].logical = sessions[q].logical
    BY <1>1, <1>3, <2>1 DEF Listening, NotListening, Session
  <2> QED
    BY <1>2, <1>3, <2>2
<1>4. ASSUME UNCHANGED <<sessions, live>> PROVE OneUserInv'
  BY <1>2, <1>4
<1>5. ASSUME NEW c \in creates, CreateOk(c) PROVE OneUserInv'
  <2>1. UNCHANGED live
        /\ (UNCHANGED sessions \/ (c.session \in DOMAIN sessions /\ sessions' = Listening(c.session, c.req)))
    BY <1>5 DEF CreateOk, MarkSubscribed
  <2> QED
    BY <1>3, <1>4, <2>1
<1>6. ASSUME NEW d \in deletes, DeleteDone(d) PROVE OneUserInv'
  <2>1. live' \subseteq live
        /\ \/ UNCHANGED sessions
           \/ conn[d.req] \in DOMAIN sessions /\ sessions' = NotListening(conn[d.req], d.req)
    BY <1>6 DEF DeleteDone, MarkUnsubscribed
  <2> QED
    BY <1>2, <1>3, <2>1
<1>7. ASSUME NEW c \in creates, Accept(c) PROVE OneUserInv'
  <2> DEFINE made == [id |-> FreshIn(IdsInUse \ {None}), req |-> c.req, logical |-> c.logical]
  <2>1. /\ live' = live \cup {made} /\ UNCHANGED sessions /\ Alive(c.logical)
        /\ \A l \in live : l.req = c.req => l.logical # c.logical
    BY <1>7 DEF Accept, Conflict
  <2>2. made.req = c.req /\ made.logical = c.logical
    OBVIOUS
  <2> HIDE DEF made
  <2>3. \A l \in live : l.logical = c.logical
    BY <2>1 DEF OneUserInv, OneSession, LiveIsAlive, Alive
  <2> QED
    BY <2>1, <2>2, <2>3 DEF OneUserInv, OneSession, LiveIsAlive, OneSubscription, Alive
<1>8. CASE Place
  <2> DEFINE r == Head(todo)[2]
             new == [ready |-> FALSE, logical |-> nextSession, subs |-> {}, user |-> NoUser]
  <2>1. r \in Requests
    BY <1>8, HeadRequests DEF Place, Step
  <2>2. CASE Viable(r) = {} /\ NotReady = {}
    <3>1. \A p \in DOMAIN sessions : sessions[p].ready
      BY <2>2 DEF NotReady
    <3>2. \A p \in DOMAIN sessions : sessions[p].user \in {NoUser, Owner[r]}
      BY <1>1, <2>1 DEF Session, Users, OneUser
    <3>3. DOMAIN sessions = {}
      BY <2>2, <3>1, <3>2 DEF Viable
    <3>4. UNCHANGED live /\ NewSession(None, new)
      BY <1>8, <2>2 DEF Place
    <3>5. live = {} /\ DOMAIN sessions' = {nextSession}
      BY <3>3, <3>4 DEF NewSession, OneUserInv, LiveIsAlive, Alive
    <3> QED
      BY <3>4, <3>5 DEF OneUserInv, OneSession, LiveIsAlive, OneSubscription
  <2>3. CASE ~(Viable(r) = {} /\ NotReady = {})
    BY <1>4, <1>8, <2>3 DEF Place
  <2> QED
    BY <2>2, <2>3
<1>9. ASSUME NEW p \in DOMAIN sessions, Welcome(p) PROVE OneUserInv'
  BY <1>3, <1>9 DEF Welcome, helix
<1>10. ASSUME NEW p \in DOMAIN sessions, SessionLost(p) \/ SessionReconnect(p) PROVE OneUserInv'
  <2>1. \/ /\ sessions' = [q \in DOMAIN sessions \ {p} |-> sessions[q]]
           /\ live' = {l \in live : l.logical # sessions[p].logical}
        \/ NewSession(p, sessions[p]) /\ UNCHANGED live
    BY <1>10 DEF SessionLost, SessionReconnect
  <2>2. CASE /\ sessions' = [q \in DOMAIN sessions \ {p} |-> sessions[q]]
             /\ live' = {l \in live : l.logical # sessions[p].logical}
    <3>1. live' = {}
      BY <2>2 DEF OneUserInv, OneSession, LiveIsAlive, Alive
    <3> QED
      BY <2>2, <3>1 DEF OneUserInv, OneSession, LiveIsAlive, OneSubscription
  <2>3. CASE NewSession(p, sessions[p]) /\ UNCHANGED live
    <3>1. DOMAIN sessions = {p} /\ DOMAIN sessions' = {nextSession}
          /\ sessions'[nextSession] = sessions[p]
      BY <2>3 DEF NewSession, OneUserInv, OneSession
    <3> QED
      BY <2>3, <3>1 DEF OneUserInv, OneSession, LiveIsAlive, OneSubscription, Alive
  <2> QED
    BY <2>1, <2>2, <2>3
<1> QED
  BY <1>4, <1>5, <1>6, <1>7, <1>8, <1>9, <1>10
     DEF Next, Gui, Io, Environment, Subscribe, RemoveRef, CreateFailed, CreateForbidden, CreateRetry,
         RunTask, NextSubscribe, PlaceLater, TimerFire, vars, helix

\* A client with one Twitch user has at most one subscription of a request at Twitch,
\* although answers are lost, sessions die and attempts are repeated: all of them are
\* made on the only session there is, and Twitch refuses the second.
THEOREM OneSubscriptionHolds ==
    ASSUME OneUser
    PROVE  Spec => []OneSubscription
<1>1. Init => OneUserInv
  BY DEF Init, OneUserInv, OneSession, LiveIsAlive, OneSubscription
<1>2. TypeInv /\ OneUserInv /\ [Next]_vars => OneUserInv'
  BY OneUserStep
<1>3. OneUserInv => OneSubscription
  BY DEF OneUserInv
<1> QED
  BY <1>1, <1>2, <1>3, TypeInvInit, TypeInvNext, PTL DEF Spec

--------------------------------------------------------------------------------
(* One attempt at a time, as long as no handle is dropped *)

\* The requests that the entries of a queue are about, and those of timer handlers.
Named(q) == {q[i][2] : i \in DOMAIN q}
Timed(q) == {q[i][2] : i \in {j \in DOMAIN q : q[j][1] = "timer"}}
Once(q) == \A i, j \in DOMAIN q : q[i][2] = q[j][2] => i = j

LEMMA NamedAppend ==
    ASSUME NEW T, NEW q \in Seq(T), NEW e, Once(q), e[2] \notin Named(q)
    PROVE  /\ Once(Append(q, e)) /\ Named(Append(q, e)) = Named(q) \cup {e[2]}
           /\ Timed(Append(q, e)) = IF e[1] = "timer" THEN Timed(q) \cup {e[2]} ELSE Timed(q)
<1> DEFINE n == Len(q)
           w == Append(q, e)
<1>1. /\ n \in Nat /\ DOMAIN q = 1 .. n /\ DOMAIN w = 1 .. n + 1
      /\ \A i \in 1 .. n : w[i] = q[i]
      /\ w[n + 1] = e
  <2>1. q \in Seq(T \cup {e})
    OBVIOUS
  <2> QED
    BY <2>1, AppendProperties, LenProperties
<1> HIDE DEF n, w
<1>2. \A i \in DOMAIN w : i \in DOMAIN q \/ i = n + 1
  BY <1>1
<1>3. \A i \in DOMAIN q : i \in DOMAIN w /\ w[i] = q[i] /\ i # n + 1
  BY <1>1
<1>4. n + 1 \in DOMAIN w
  BY <1>1
<1>5. Once(w)
  BY <1>1, <1>2, <1>3 DEF Once, Named
<1>6. Named(w) = Named(q) \cup {e[2]}
  BY <1>1, <1>2, <1>3, <1>4 DEF Named
<1>7. Timed(w) = IF e[1] = "timer" THEN Timed(q) \cup {e[2]} ELSE Timed(q)
  BY <1>1, <1>2, <1>3, <1>4 DEF Timed
<1> QED
  BY <1>5, <1>6, <1>7 DEF w

LEMMA NamedTail ==
    ASSUME NEW T, NEW q \in Seq(T), q # <<>>, Once(q)
    PROVE  /\ Once(Tail(q)) /\ Named(Tail(q)) = Named(q) \ {Head(q)[2]}
           /\ Timed(Tail(q)) = Timed(q) \ {Head(q)[2]}
           /\ Head(q)[2] \in Named(q)
           /\ Head(q)[1] = "timer" <=> Head(q)[2] \in Timed(q)
<1> DEFINE n == Len(q)
           w == Tail(q)
<1>1. /\ n \in Nat /\ n > 0 /\ DOMAIN q = 1 .. n /\ DOMAIN w = 1 .. n - 1
      /\ \A i \in 1 .. n - 1 : w[i] = q[i + 1]
      /\ Head(q) = q[1]
  BY HeadTailProperties, EmptySeq, LenProperties
<1> HIDE DEF n, w
<1>2. \A i \in DOMAIN w : i + 1 \in DOMAIN q /\ i + 1 # 1 /\ w[i] = q[i + 1]
  BY <1>1
<1>3. \A i \in DOMAIN q : i = 1 \/ (i - 1 \in DOMAIN w /\ w[i - 1] = q[i])
  <2>1. \A i \in DOMAIN q : i # 1 => i - 1 \in DOMAIN w /\ (i - 1) + 1 = i
    BY <1>1
  <2> QED
    BY <1>2, <2>1
<1>4. 1 \in DOMAIN q
  BY <1>1
<1>5. Once(w)
  <2>1. \A i, j \in DOMAIN w : i + 1 = j + 1 => i = j
    BY <1>1
  <2> QED
    BY <1>2, <2>1 DEF Once
<1>6. Named(w) = Named(q) \ {q[1][2]}
  BY <1>2, <1>3, <1>4 DEF Named, Once
<1>7. Timed(w) = Timed(q) \ {q[1][2]}
  BY <1>2, <1>3, <1>4 DEF Timed, Once
<1>8. q[1][2] \in Named(q) /\ (q[1][1] = "timer" <=> q[1][2] \in Timed(q))
  BY <1>4 DEF Named, Timed, Once
<1> QED
  BY <1>1, <1>5, <1>6, <1>7, <1>8 DEF w

LEMMA NamedReplace ==
    ASSUME NEW T, NEW q \in Seq(T), q # <<>>, Once(q), NEW e, e[2] = Head(q)[2]
    PROVE  Once(<<e>> \o Tail(q)) /\ Named(<<e>> \o Tail(q)) = Named(q)
<1> DEFINE n == Len(q)
           w == <<e>> \o Tail(q)
<1>1. /\ n \in Nat /\ n > 0 /\ DOMAIN q = 1 .. n /\ DOMAIN w = 1 .. n
      /\ \A i \in 1 .. n : w[i][2] = q[i][2]
  <2>1. /\ n \in Nat /\ n > 0 /\ DOMAIN q = 1 .. n /\ Tail(q) \in Seq(T) /\ Len(Tail(q)) = n - 1
        /\ \A i \in 1 .. n - 1 : Tail(q)[i] = q[i + 1]
        /\ Head(q) = q[1]
    BY HeadTailProperties, EmptySeq, LenProperties
  <2>2. <<e>> \in Seq(T \cup {e}) /\ Tail(q) \in Seq(T \cup {e}) /\ Len(<<e>>) = 1 /\ <<e>>[1] = e
    BY <2>1
  <2> HIDE DEF n
  <2>3. DOMAIN w = 1 .. n /\ \A i \in 1 .. n : w[i] = IF i <= 1 THEN <<e>>[i] ELSE Tail(q)[i - 1]
    <3>1. w \in Seq(T \cup {e}) /\ Len(w) = 1 + (n - 1)
          /\ \A i \in 1 .. 1 + (n - 1) : w[i] = IF i <= 1 THEN <<e>>[i] ELSE Tail(q)[i - 1]
      BY <2>1, <2>2, ConcatProperties
    <3> QED
      BY <2>1, <3>1, LenProperties
  <2>4. \A i \in 1 .. n : i = 1 \/ (i > 1 /\ i - 1 \in 1 .. n - 1 /\ (i - 1) + 1 = i)
    BY <2>1
  <2> HIDE DEF w
  <2> QED
    BY <2>1, <2>2, <2>3, <2>4
<1> HIDE DEF n, w
<1>2. Once(w)
  BY <1>1 DEF Once
<1>3. Named(w) = Named(q)
  BY <1>1 DEF Named
<1> QED
  BY <1>2, <1>3 DEF w

\* The calls for the requests of a dead session, in some order.
LEMMA NamedOrder ==
    ASSUME NEW S \in SUBSET Requests, NEW order \in SetToSeqs(S),
           NEW q, q = [i \in DOMAIN order |-> <<"subscribe", order[i]>>]
    PROVE  Once(q) /\ Named(q) \subseteq S
<1>1. IsFiniteSet(S) /\ Cardinality(S) \in Nat
  BY RequestsAssumption, FS_Subset, FS_CardinalityType
<1> DEFINE n == Cardinality(S)
<1>2. order \in [1 .. n -> S] /\ \A i, j \in 1 .. n : order[i] = order[j] => i = j
  BY DEF SetToSeqs
<1> HIDE DEF n
<1>3. DOMAIN q = 1 .. n /\ \A i \in 1 .. n : q[i][2] = order[i]
  BY <1>2
<1>4. Once(q) /\ Named(q) \subseteq S
  BY <1>2, <1>3 DEF Once, Named
<1> QED
  BY <1>4

Asked == {c.req : c \in creates}
Kept == UNION {sessions[p].subs : p \in DOMAIN sessions}

\* A request is in one place: queued, about to be tried, asked of Helix, waiting for
\* its timer, or kept by a listener; and its state says in which.
AttemptOf(r) ==
    /\ r \in Named(tasks) => r \notin Named(todo) \cup Asked /\ timer[r] # "armed"
    /\ r \in Named(todo) => r \notin Asked /\ timer[r] # "armed"
    /\ r \in Asked => timer[r] # "armed"
    /\ timer[r] = "fired" <=> r \in Timed(tasks)
    /\ r \in Named(tasks) \cup Named(todo) \cup Asked \/ timer[r] = "armed"
          => state[r] \in {"Subscribing", "Retrying"}
    /\ r \in Kept => state[r] = "Subscribed"
    /\ state[r] # "absent" => refCount[r] > 0

Singles ==
    /\ Once(tasks) /\ Once(todo)
    /\ \A c, e \in creates : c.req = e.req => c = e
    /\ \A p, q \in DOMAIN sessions : \A r \in sessions[p].subs : r \in sessions[q].subs => p = q
    /\ deletes = {}

AttemptInv == Singles /\ \A r \in Requests : AttemptOf(r)

\* What a step leaves to a request, or takes from it.
Fades(r) ==
    /\ r \in Named(tasks') => r \in Named(tasks)
    /\ r \in Timed(tasks') <=> r \in Timed(tasks)
    /\ r \in Named(todo') => r \in Named(todo)
    /\ r \in Asked' => r \in Asked
    /\ r \in Kept' => r \in Kept
    /\ timer'[r] = timer[r] /\ state'[r] = state[r] /\ refCount'[r] = refCount[r]

LEMMA AttemptFades ==
    ASSUME NEW r, AttemptOf(r), Fades(r)
    PROVE  AttemptOf(r)'
BY DEF AttemptOf, Fades

LEMMA TimedAreNamed == ASSUME NEW q PROVE Timed(q) \subseteq Named(q)
BY DEF Timed, Named

LEMMA AttemptGui ==
    ASSUME "release" \notin Faults, TypeInv, AttemptInv, Gui
    PROVE  AttemptInv'
<1>1. /\ creates \subseteq Create /\ tasks \in Seq(Tasks) /\ sessions \in [DOMAIN sessions -> Session]
      /\ state \in [Requests -> States] /\ refCount \in [Requests -> Nat]
      /\ timer \in [Requests -> {"none", "armed", "fired"}]
  BY DEF TypeInv, HelixTypes, QueueTypes, SessionTypes, TableTypes
<1>2. Singles /\ \A r \in Requests : AttemptOf(r)
  BY DEF AttemptInv
<1>3. Timed(tasks) \subseteq Named(tasks)
  BY TimedAreNamed
<1>4. ASSUME NEW r \in Requests, Subscribe(r) PROVE AttemptInv'
  <2>1. /\ UNCHANGED <<timer, todo, sessions, creates, deletes>>
        /\ refCount' = [refCount EXCEPT ![r] = @ + 1]
    BY <1>4 DEF Subscribe, helix
  <2>2. Asked' = Asked /\ Kept' = Kept
    BY <2>1 DEF Asked, Kept
  <2>3. CASE Entered(r) \in {"Unsubscribed", "Failed"}
    <3>1. state' = [state EXCEPT ![r] = "Subscribing"] /\ tasks' = Append(tasks, <<"subscribe", r>>)
      BY <1>4, <2>3 DEF Subscribe, Enqueue
    <3>2. /\ state[r] \notin {"Subscribing", "Retrying", "Subscribed"}
      BY <2>3 DEF Entered
    <3>3. r \notin Named(tasks) \cup Named(todo) \cup Asked \cup Kept /\ timer[r] = "none"
      BY <1>1, <1>2, <1>3, <3>2 DEF AttemptOf
    <3>4. Once(tasks') /\ Named(tasks') = Named(tasks) \cup {r} /\ Timed(tasks') = Timed(tasks)
      <4>1. /\ <<"subscribe", r>>[2] = r /\ <<"subscribe", r>>[1] # "timer"
        OBVIOUS
      <4> QED
        BY <1>1, <1>2, <3>1, <3>3, <4>1, NamedAppend DEF Singles
    <3>5. Singles'
      BY <1>2, <2>1, <3>4 DEF Singles
    <3>6. AttemptOf(r)'
      BY <1>1, <1>3, <2>1, <2>2, <3>1, <3>3, <3>4 DEF AttemptOf
    <3>7. \A s \in Requests : s # r => Fades(s)
      BY <1>1, <2>1, <2>2, <3>1, <3>4 DEF Fades
    <3> QED
      BY <1>2, <3>5, <3>6, <3>7, AttemptFades DEF AttemptInv
  <2>4. CASE Entered(r) \notin {"Unsubscribed", "Failed"}
    <3>1. UNCHANGED <<state, tasks>>
      BY <1>4, <2>4 DEF Subscribe
    <3>2. Singles'
      BY <1>2, <2>1, <3>1 DEF Singles
    <3>3. \A s \in Requests : AttemptOf(s)'
      BY <1>1, <1>2, <2>1, <2>2, <3>1 DEF AttemptOf
    <3> QED
      BY <3>2, <3>3 DEF AttemptInv
  <2> QED
    BY <2>3, <2>4
<1>5. ASSUME NEW c \in creates
      PROVE  /\ c.req \in Requests /\ c.req \in Asked
             /\ {e.req : e \in creates \ {c}} = Asked \ {c.req}
             /\ c.req \notin Named(tasks) \cup Named(todo) /\ timer[c.req] = "none"
             /\ state[c.req] \in {"Subscribing", "Retrying"} /\ c.req \notin Kept
             /\ refCount[c.req] > 0
  <2>1. c.req \in Requests /\ c.req \in Asked
    BY <1>1 DEF Create, Asked
  <2>2. {e.req : e \in creates \ {c}} = Asked \ {c.req}
    BY <1>2 DEF Singles, Asked
  <2>3. state[c.req] \in {"Subscribing", "Retrying"} /\ c.req \notin Named(tasks) \cup Named(todo)
    BY <1>2, <2>1 DEF AttemptOf
  <2>4. timer[c.req] # "armed" /\ timer[c.req] # "fired"
    BY <1>2, <1>3, <2>1, <2>3 DEF AttemptOf
  <2>5. refCount[c.req] > 0 /\ c.req \notin Kept
    BY <1>2, <2>1, <2>3 DEF AttemptOf
  <2> QED
    BY <1>1, <2>1, <2>2, <2>3, <2>4, <2>5
<1>6. ASSUME NEW c \in creates, CreateOk(c) PROVE AttemptInv'
  <2>1. creates' = creates \ {c} /\ UNCHANGED <<tasks, todo, deletes, timer, refCount>>
    BY <1>6 DEF CreateOk, MarkSubscribed, table
  <2>2. Asked' = Asked \ {c.req}
    BY <1>5, <2>1 DEF Asked
  <2>3. CASE c.session \notin DOMAIN sessions
    <3>1. UNCHANGED <<state, sessions>>
      BY <1>6, <2>3 DEF CreateOk, MarkSubscribed, table
    <3>2. Kept' = Kept
      BY <3>1 DEF Kept
    <3>3. Singles'
      BY <1>2, <2>1, <3>1 DEF Singles
    <3>4. \A s \in Requests : Fades(s)
      BY <2>1, <2>2, <3>1, <3>2 DEF Fades
    <3> QED
      BY <1>2, <3>3, <3>4, AttemptFades DEF AttemptInv
  <2>4. CASE c.session \in DOMAIN sessions
    <3> DEFINE p == c.session
    <3>1. sessions' = Listening(p, c.req) /\ state' = [state EXCEPT ![c.req] = "Subscribed"]
      BY <1>6, <2>4 DEF CreateOk, MarkSubscribed
    <3>2. p \in DOMAIN sessions /\ sessions[p] \in Session
      BY <1>1, <2>4
    <3> HIDE DEF p
    <3>3. /\ DOMAIN sessions' = DOMAIN sessions
          /\ sessions'[p].subs = sessions[p].subs \cup {c.req}
          /\ \A q \in DOMAIN sessions : q # p => sessions'[q].subs = sessions[q].subs
      BY <1>1, <3>1, <3>2 DEF Listening, Session
    <3>4. Kept' \subseteq Kept \cup {c.req}
      BY <3>3 DEF Kept
    <3>5. \A q \in DOMAIN sessions : c.req \notin sessions[q].subs
      BY <1>5 DEF Kept
    <3>6. Singles'
      BY <1>2, <2>1, <3>2, <3>3, <3>5 DEF Singles
    <3>7. AttemptOf(c.req)'
      BY <1>1, <1>3, <1>5, <2>1, <2>2, <3>1 DEF AttemptOf
    <3>8. \A s \in Requests : s # c.req => Fades(s)
      BY <1>1, <2>1, <2>2, <3>1, <3>4 DEF Fades
    <3> QED
      BY <1>2, <3>6, <3>7, <3>8, AttemptFades DEF AttemptInv
  <2> QED
    BY <2>3, <2>4
<1>7. ASSUME NEW c \in creates, CreateFailed(c) \/ CreateForbidden(c) PROVE AttemptInv'
  <2>1. creates' = creates \ {c} /\ UNCHANGED <<tasks, todo, deletes, timer, refCount, sessions>>
        /\ (UNCHANGED state \/ state' = [state EXCEPT ![c.req] = "Failed"])
    BY <1>7 DEF CreateFailed, CreateForbidden, table
  <2>2. Asked' = Asked \ {c.req} /\ Kept' = Kept
    <3>1. Asked' = Asked \ {c.req}
      BY <1>5, <2>1 DEF Asked
    <3>2. Kept' = Kept
      BY <2>1 DEF Kept
    <3> QED
      BY <3>1, <3>2
  <2>3. Singles'
    BY <1>2, <2>1 DEF Singles
  <2>4. AttemptOf(c.req)'
    BY <1>1, <1>2, <1>3, <1>5, <2>1, <2>2 DEF AttemptOf
  <2>5. \A s \in Requests : s # c.req => Fades(s)
    BY <1>1, <2>1, <2>2 DEF Fades
  <2> QED
    BY <1>2, <2>3, <2>4, <2>5, AttemptFades DEF AttemptInv
<1>8. ASSUME NEW c \in creates, CreateRetry(c) PROVE AttemptInv'
  <2> DEFINE e == <<"retry", c.req>>
  <2>1. /\ creates' = creates \ {c} /\ tasks' = Append(tasks, e)
        /\ UNCHANGED <<todo, deletes, timer, refCount, sessions, state>>
    BY <1>8 DEF CreateRetry, Enqueue, table
  <2>2. Asked' = Asked \ {c.req} /\ Kept' = Kept
    <3>1. Asked' = Asked \ {c.req}
      BY <1>5, <2>1 DEF Asked
    <3>2. Kept' = Kept
      BY <2>1 DEF Kept
    <3> QED
      BY <3>1, <3>2
  <2>3. e[2] = c.req /\ e[1] # "timer"
    OBVIOUS
  <2> HIDE DEF e
  <2>4. Once(tasks') /\ Named(tasks') = Named(tasks) \cup {c.req} /\ Timed(tasks') = Timed(tasks)
    BY <1>1, <1>2, <1>5, <2>1, <2>3, NamedAppend DEF Singles
  <2>5. Singles'
    BY <1>2, <2>1, <2>4 DEF Singles
  <2>6. AttemptOf(c.req)'
    BY <1>1, <1>2, <1>3, <1>5, <2>1, <2>2, <2>4 DEF AttemptOf
  <2>7. \A s \in Requests : s # c.req => Fades(s)
    BY <1>1, <2>1, <2>2, <2>4 DEF Fades
  <2> QED
    BY <1>2, <2>5, <2>6, <2>7, AttemptFades DEF AttemptInv
<1>9. deletes = {}
  BY <1>2 DEF Singles
<1> QED
  BY <1>4, <1>6, <1>7, <1>8, <1>9 DEF Gui, RemoveRef

LEMMA AttemptIo ==
    ASSUME "release" \notin Faults, TypeInv, AttemptInv, Io
    PROVE  AttemptInv'
<1>1. /\ creates \subseteq Create /\ tasks \in Seq(Tasks) /\ todo \in Seq(Steps)
      /\ sessions \in [DOMAIN sessions -> Session] /\ nextSession \in Nat
      /\ \A p \in DOMAIN sessions : p \in Nat /\ p < nextSession
      /\ state \in [Requests -> States] /\ refCount \in [Requests -> Nat]
      /\ timer \in [Requests -> {"none", "armed", "fired"}]
  BY DEF TypeInv, HelixTypes, QueueTypes, SessionTypes, TableTypes
<1>2. Singles /\ \A r \in Requests : AttemptOf(r)
  BY DEF AttemptInv
<1>3. Timed(tasks) \subseteq Named(tasks) /\ Timed(tasks') \subseteq Named(tasks')
  BY TimedAreNamed
<1>4. CASE RunTask
  <2>a. PICK r \in Requests : r = Head(tasks)[2]
    BY <1>4, HeadRequests DEF RunTask
  <2>1. /\ tasks # <<>> /\ todo = <<>> /\ tasks' = Tail(tasks) /\ r \in Requests
        /\ UNCHANGED <<sessions, creates, deletes>>
    BY <1>4 DEF RunTask, ioIdle, helix
  <2>2. /\ Once(tasks') /\ Named(tasks') = Named(tasks) \ {r} /\ Timed(tasks') = Timed(tasks) \ {r}
        /\ r \in Named(tasks) /\ (Head(tasks)[1] = "timer" <=> r \in Timed(tasks))
    BY <1>1, <1>2, <2>a, <2>1, NamedTail DEF Singles
  <2>3. Asked' = Asked /\ Kept' = Kept
    BY <2>1 DEF Asked, Kept
  <2>4. Named(todo) = {}
    BY <2>1 DEF Named
  <2>5. CASE Head(tasks)[1] = "retry"
    <3>1. RetrySubscription(r) /\ UNCHANGED todo
      BY <1>4, <2>a, <2>5 DEF RunTask
    <3>2. refCount[r] > 0 /\ state[r] # "absent" /\ r \notin Kept
      BY <1>2, <2>1, <2>2 DEF AttemptOf
    <3>3. state' = [state EXCEPT ![r] = "Retrying"] /\ timer' = [timer EXCEPT ![r] = "armed"]
          /\ UNCHANGED refCount
      BY <3>1, <3>2 DEF RetrySubscription
    <3>4. AttemptOf(r)'
      BY <1>1, <1>2, <1>3, <2>1, <2>2, <2>3, <2>4, <2>5, <3>1, <3>2, <3>3 DEF AttemptOf
    <3>5. \A s \in Requests : s # r => Fades(s)
      BY <1>1, <2>2, <2>3, <3>1, <3>3 DEF Fades
    <3>6. Singles'
      BY <1>2, <2>1, <2>2, <3>1 DEF Singles
    <3> QED
      BY <1>2, <3>4, <3>5, <3>6, AttemptFades DEF AttemptInv
  <2>6. CASE Head(tasks)[1] # "retry"
    <3> DEFINE isTimer == Head(tasks)[1] = "timer"
    <3>1. StartSubscribe(r, isTimer) /\ todo' = <<<<"place", r>>>>
      BY <1>4, <2>a, <2>6 DEF RunTask
    <3>2. state[r] \in {"Subscribing", "Retrying"} /\ r \notin Kept /\ refCount[r] > 0
      BY <1>2, <2>1, <2>2 DEF AttemptOf
    <3>3. /\ UNCHANGED <<state, refCount>>
          /\ timer' = [timer EXCEPT ![r] = IF isTimer THEN "none" ELSE @]
      BY <1>1, <2>1, <3>1, <3>2 DEF StartSubscribe, Entered
    <3>4. Once(todo') /\ Named(todo') = {r}
      <4> DEFINE e == <<"place", r>>
      <4>1. e[2] = r
        OBVIOUS
      <4> HIDE DEF e
      <4>2. DOMAIN <<e>> = {1} /\ <<e>>[1] = e
        OBVIOUS
      <4>3. Once(<<e>>)
        BY <4>2 DEF Once
      <4>4. Named(<<e>>) = {r}
        BY <4>1, <4>2 DEF Named
      <4> QED
        BY <3>1, <4>3, <4>4 DEF e
    <3>5. timer'[r] = "none"
      BY <1>1, <1>2, <2>1, <2>2, <3>3 DEF AttemptOf
    <3> HIDE DEF isTimer
    <3>6. r \notin Asked
      BY <1>2, <2>1, <2>2 DEF AttemptOf
    <3>7. AttemptOf(r)'
      BY <1>1, <1>3, <2>1, <2>2, <2>3, <3>2, <3>3, <3>4, <3>5, <3>6 DEF AttemptOf
    <3>8. \A s \in Requests : s # r => Fades(s)
      BY <1>1, <2>2, <2>3, <3>3, <3>4 DEF Fades
    <3>9. Singles'
      BY <1>2, <2>1, <2>2, <3>4 DEF Singles
    <3> QED
      BY <1>2, <3>7, <3>8, <3>9, AttemptFades DEF AttemptInv
  <2> QED
    BY <2>5, <2>6
<1>5. ASSUME NEW kind, Step(kind)
      PROVE  LET r == Head(todo)[2]
             IN /\ r \in Requests /\ todo # <<>>
                /\ Once(Tail(todo)) /\ Named(Tail(todo)) = Named(todo) \ {r}
                /\ \A k : Once(<<<<k, r>>>> \o Tail(todo))
                          /\ Named(<<<<k, r>>>> \o Tail(todo)) = Named(todo)
                /\ r \in Named(todo) /\ r \notin Asked /\ r \notin Kept /\ r \notin Named(tasks)
                /\ timer[r] = "none" /\ state[r] \in {"Subscribing", "Retrying"} /\ refCount[r] > 0
  <2> DEFINE r == Head(todo)[2]
  <2>1. r \in Requests /\ todo # <<>>
    BY <1>5, HeadRequests DEF Step
  <2>2. /\ Once(Tail(todo)) /\ Named(Tail(todo)) = Named(todo) \ {r} /\ r \in Named(todo)
    BY <1>1, <1>2, <2>1, NamedTail DEF Singles
  <2>3. ASSUME NEW k
        PROVE  Once(<<<<k, r>>>> \o Tail(todo)) /\ Named(<<<<k, r>>>> \o Tail(todo)) = Named(todo)
    <3> DEFINE e == <<k, r>>
    <3>1. e[2] = Head(todo)[2]
      OBVIOUS
    <3> HIDE DEF e
    <3>2. Once(<<e>> \o Tail(todo)) /\ Named(<<e>> \o Tail(todo)) = Named(todo)
      BY <1>1, <1>2, <2>1, <3>1, NamedReplace DEF Singles
    <3> QED
      BY <3>2 DEF e
  <2> HIDE DEF r
  <2>4. /\ r \notin Asked /\ r \notin Named(tasks) /\ timer[r] # "armed"
        /\ state[r] \in {"Subscribing", "Retrying"}
    BY <1>2, <2>1, <2>2 DEF AttemptOf
  <2>5. timer[r] = "none" /\ r \notin Kept /\ refCount[r] > 0
    BY <1>1, <1>2, <1>3, <2>1, <2>4 DEF AttemptOf
  <2> QED
    BY <2>1, <2>2, <2>3, <2>4, <2>5 DEF r
<1>6. CASE NextSubscribe
  <2> DEFINE r == Head(todo)[2]
  <2>1. /\ UNCHANGED <<tasks, sessions, creates, deletes>> /\ StartSubscribe(r, FALSE)
        /\ todo' = <<<<"place", r>>>> \o Tail(todo) /\ Step("subscribe")
    BY <1>6 DEF NextSubscribe, helix
  <2>2. /\ r \in Requests /\ Once(todo') /\ Named(todo') = Named(todo)
        /\ state[r] \in {"Subscribing", "Retrying"}
    BY <1>5, <2>1
  <2>3. UNCHANGED <<state, timer, refCount>>
    BY <1>1, <2>1, <2>2 DEF StartSubscribe, Entered
  <2>4. Asked' = Asked /\ Kept' = Kept
    BY <2>1 DEF Asked, Kept
  <2>5. Singles'
    BY <1>2, <2>1, <2>2 DEF Singles
  <2>6. \A s \in Requests : Fades(s)
    BY <2>1, <2>2, <2>3, <2>4 DEF Fades
  <2> QED
    BY <1>2, <2>5, <2>6, AttemptFades DEF AttemptInv
<1>7. CASE PlaceLater
  <2>a. PICK r \in Requests : r = Head(todo)[2]
    BY <1>7, HeadRequests DEF PlaceLater, Step
  <2>1. /\ UNCHANGED <<tasks, sessions, creates, deletes>> /\ RetrySubscription(r)
        /\ todo' = Tail(todo) /\ Step("retry")
    BY <1>7, <2>a DEF PlaceLater, helix
  <2>2. /\ r \in Requests /\ Once(todo') /\ Named(todo') = Named(todo) \ {r}
        /\ r \notin Asked /\ r \notin Kept /\ r \notin Named(tasks) /\ refCount[r] > 0
    BY <1>5, <2>a, <2>1
  <2>3. state' = [state EXCEPT ![r] = "Retrying"] /\ timer' = [timer EXCEPT ![r] = "armed"]
        /\ UNCHANGED refCount
    BY <2>1, <2>2 DEF RetrySubscription
  <2>4. Asked' = Asked /\ Kept' = Kept
    BY <2>1 DEF Asked, Kept
  <2>5. Singles'
    BY <1>2, <2>1, <2>2 DEF Singles
  <2>6. AttemptOf(r)'
    BY <1>1, <1>3, <2>1, <2>2, <2>3, <2>4 DEF AttemptOf
  <2>7. \A s \in Requests : s # r => Fades(s)
    BY <1>1, <2>1, <2>2, <2>3, <2>4 DEF Fades
  <2> QED
    BY <1>2, <2>5, <2>6, <2>7, AttemptFades DEF AttemptInv
<1>8. ASSUME NEW p, NEW s, NewSession(p, s), p \in DOMAIN sessions => s = sessions[p],
             p \in DOMAIN sessions \/ s.subs = {}
      PROVE  /\ Kept' \subseteq Kept
             /\ \A q, m \in DOMAIN sessions' :
                   \A r \in sessions'[q].subs : r \in sessions'[m].subs => q = m
  <2>1. /\ DOMAIN sessions' = (DOMAIN sessions \ {p}) \cup {nextSession}
        /\ sessions'[nextSession] = s
        /\ \A q \in DOMAIN sessions \ {p} : sessions'[q] = sessions[q]
    BY <1>1, <1>8 DEF NewSession
  <2>2. Kept' \subseteq Kept
    BY <1>8, <2>1 DEF Kept
  <2>3. ASSUME NEW q \in DOMAIN sessions', NEW m \in DOMAIN sessions', NEW r \in sessions'[q].subs,
               r \in sessions'[m].subs
        PROVE  q = m
    BY <1>2, <1>8, <2>1, <2>3 DEF Singles
  <2> QED
    BY <2>2, <2>3
<1>9. CASE Place
  <2>a. PICK r \in Requests : r = Head(todo)[2]
    BY <1>9, HeadRequests DEF Place, Step
  <2>1. Step("place") /\ UNCHANGED <<state, timer, refCount, tasks, deletes>>
    BY <1>9 DEF Place, table
  <2>2. /\ r \in Requests /\ Once(Tail(todo)) /\ Named(Tail(todo)) = Named(todo) \ {r}
        /\ Once(<<<<"retry", r>>>> \o Tail(todo))
        /\ Named(<<<<"retry", r>>>> \o Tail(todo)) = Named(todo)
        /\ r \notin Asked /\ r \notin Kept /\ r \notin Named(tasks)
        /\ timer[r] = "none" /\ state[r] \in {"Subscribing", "Retrying"} /\ refCount[r] > 0
    BY <1>5, <2>a, <2>1
  <2>3. CASE Viable(r) = {}
    <3>1. /\ UNCHANGED creates /\ todo' = <<<<"retry", r>>>> \o Tail(todo)
          /\ \/ UNCHANGED sessions
             \/ NewSession(None, [ready |-> FALSE, logical |-> nextSession, subs |-> {}, user |-> NoUser])
      BY <1>9, <2>a, <2>3 DEF Place
    <3>2. None \notin DOMAIN sessions
      BY DEF TypeInv, SessionTypes, None
    <3>3. Asked' = Asked
      BY <3>1 DEF Asked
    <3>4. /\ Kept' \subseteq Kept
          /\ \A q, m \in DOMAIN sessions' :
                   \A x \in sessions'[q].subs : x \in sessions'[m].subs => q = m
      <4>1. CASE UNCHANGED sessions
        BY <1>2, <4>1 DEF Kept, Singles
      <4>2. CASE ~UNCHANGED sessions
        BY <1>8, <3>1, <3>2, <4>2
      <4> QED
        BY <4>1, <4>2
    <3>5. Singles'
      BY <1>2, <2>1, <2>2, <3>1, <3>4 DEF Singles
    <3>6. \A s \in Requests : Fades(s)
      BY <2>1, <2>2, <3>1, <3>3, <3>4 DEF Fades
    <3> QED
      BY <1>2, <3>5, <3>6, AttemptFades DEF AttemptInv
  <2>4. CASE Viable(r) # {}
    <3> DEFINE p == CHOOSE v \in Viable(r) : \A w \in Viable(r) : v <= w
               new == [tag |-> FreshIn({c.tag : c \in creates}), req |-> r, session |-> p,
                       logical |-> sessions[p].logical, id |-> None]
    <3>1. creates' = creates \cup {new} /\ UNCHANGED sessions /\ todo' = Tail(todo)
      BY <1>9, <2>a, <2>4 DEF Place
    <3>2. new.req = r
      OBVIOUS
    <3> HIDE DEF new
    <3>3. Asked' = Asked \cup {r}
      BY <3>1, <3>2 DEF Asked
    <3>4. Kept' = Kept
      BY <3>1 DEF Kept
    <3>5. \A c \in creates : c.req # r
      BY <2>2 DEF Asked
    <3>6. Singles'
      BY <1>2, <2>1, <2>2, <3>1, <3>2, <3>5 DEF Singles
    <3>7. AttemptOf(r)'
      BY <1>1, <1>3, <2>1, <2>2, <3>1, <3>3, <3>4 DEF AttemptOf
    <3>8. \A s \in Requests : s # r => Fades(s)
      BY <2>1, <2>2, <3>1, <3>3, <3>4 DEF Fades
    <3> QED
      BY <1>2, <3>6, <3>7, <3>8, AttemptFades DEF AttemptInv
  <2> QED
    BY <2>3, <2>4
<1>10. ASSUME NEW p \in DOMAIN sessions, Welcome(p) PROVE AttemptInv'
  <2>1. sessions[p] \in Session
    BY <1>1
  <2>2. /\ UNCHANGED <<state, timer, refCount, tasks, todo, creates, deletes>>
        /\ DOMAIN sessions' = DOMAIN sessions
        /\ \A q \in DOMAIN sessions : sessions'[q].subs = sessions[q].subs
    BY <1>1, <1>10, <2>1 DEF Welcome, Session, table, helix
  <2>3. Asked' = Asked /\ Kept' = Kept
    BY <2>2 DEF Asked, Kept
  <2>4. Singles'
    BY <1>2, <2>2 DEF Singles
  <2>5. \A s \in Requests : Fades(s)
    BY <2>2, <2>3 DEF Fades
  <2> QED
    BY <1>2, <2>4, <2>5, AttemptFades DEF AttemptInv
<1>11. ASSUME NEW p \in DOMAIN sessions, sessions' = [q \in DOMAIN sessions \ {p} |-> sessions[q]]
       PROVE  /\ Kept' \subseteq Kept \ sessions[p].subs
              /\ \A q, m \in DOMAIN sessions' :
                    \A r \in sessions'[q].subs : r \in sessions'[m].subs => q = m
  BY <1>2, <1>11 DEF Singles, Kept
<1>12. ASSUME NEW p \in DOMAIN sessions, SessionLost(p) PROVE AttemptInv'
  <2> DEFINE S == sessions[p].subs
  <2>1. /\ sessions' = [q \in DOMAIN sessions \ {p} |-> sessions[q]] /\ todo = <<>>
        /\ ResetSubscriptions(S) /\ UNCHANGED <<refCount, timer, tasks, creates, deletes>>
    BY <1>12 DEF SessionLost, ioIdle
  <2>2. S \in SUBSET Requests /\ S \subseteq Kept
    BY <1>1 DEF Session, Kept
  <2>3. Once(todo') /\ Named(todo') \subseteq S
    <3>1. PICK order \in SetToSeqs(S) : todo' = [i \in DOMAIN order |-> <<"subscribe", order[i]>>]
      BY <1>12 DEF SessionLost
    <3> HIDE DEF S
    <3> QED
      BY <2>2, <3>1, NamedOrder
  <2>4. Named(todo) = {}
    BY <2>1 DEF Named
  <2>5. Asked' = Asked
    BY <2>1 DEF Asked
  <2>6. Kept' \subseteq Kept \ S
    BY <1>11, <2>1
  <2>7. Singles'
    BY <1>2, <1>11, <2>1, <2>3 DEF Singles
  <2> HIDE DEF S
  <2>8. ASSUME NEW r \in S PROVE AttemptOf(r)'
    <3>1. r \in Requests /\ r \in Kept /\ AttemptOf(r)
      BY <1>2, <2>2
    <3>2. state[r] = "Subscribed"
      BY <3>1 DEF AttemptOf
    <3>3. /\ r \notin Named(tasks) \cup Asked /\ timer[r] # "armed" /\ refCount[r] > 0
      BY <3>1, <3>2 DEF AttemptOf
    <3>4. state'[r] = "Subscribing"
      BY <2>1, <3>1, <3>2 DEF ResetSubscriptions
    <3>5. timer[r] = "fired" <=> r \in Timed(tasks)
      BY <3>1 DEF AttemptOf
    <3> QED
      BY <2>1, <2>5, <2>6, <3>3, <3>4, <3>5 DEF AttemptOf
  <2>9. ASSUME NEW r \in Requests, r \notin S PROVE Fades(r)
    <3>1. state'[r] = state[r]
      BY <2>1, <2>9 DEF ResetSubscriptions
    <3> QED
      BY <2>1, <2>3, <2>5, <2>6, <2>9, <3>1 DEF Fades
  <2> QED
    BY <1>2, <2>7, <2>8, <2>9, AttemptFades DEF AttemptInv
<1>13. ASSUME NEW p \in DOMAIN sessions, SessionReconnect(p) PROVE AttemptInv'
  <2>1. /\ UNCHANGED <<state, refCount, timer, tasks, todo, creates, deletes>>
        /\ \/ sessions' = [q \in DOMAIN sessions \ {p} |-> sessions[q]]
           \/ NewSession(p, sessions[p])
    BY <1>13 DEF SessionReconnect, table
  <2>2. /\ Kept' \subseteq Kept
        /\ \A q, m \in DOMAIN sessions' :
              \A r \in sessions'[q].subs : r \in sessions'[m].subs => q = m
    BY <1>8, <1>11, <2>1
  <2>3. Asked' = Asked
    BY <2>1 DEF Asked
  <2>4. Singles'
    BY <1>2, <2>1, <2>2 DEF Singles
  <2>5. \A s \in Requests : Fades(s)
    BY <2>1, <2>2, <2>3 DEF Fades
  <2> QED
    BY <1>2, <2>4, <2>5, AttemptFades DEF AttemptInv
<1> QED
  BY <1>4, <1>6, <1>7, <1>9, <1>10, <1>12, <1>13 DEF Io

LEMMA AttemptEnvironment ==
    ASSUME TypeInv, AttemptInv, Environment
    PROVE  AttemptInv'
<1>1. /\ creates \subseteq Create /\ tasks \in Seq(Tasks)
      /\ timer \in [Requests -> {"none", "armed", "fired"}]
  BY DEF TypeInv, HelixTypes, QueueTypes, TableTypes
<1>2. Singles /\ \A r \in Requests : AttemptOf(r)
  BY DEF AttemptInv
<1>3. ASSUME NEW c \in creates, Accept(c) PROVE AttemptInv'
  <2> DEFINE answered == [c EXCEPT !.id = FreshIn(IdsInUse \ {None})]
  <2>1. /\ creates' = (creates \ {c}) \cup {answered}
        /\ UNCHANGED <<state, refCount, timer, tasks, todo, deletes, sessions>>
    BY <1>3 DEF Accept, table
  <2>2. answered.req = c.req
    BY <1>1 DEF Create
  <2> HIDE DEF answered
  <2>3. Asked' = Asked
    BY <2>1, <2>2 DEF Asked
  <2>4. Kept' = Kept
    BY <2>1 DEF Kept
  <2>5. Singles'
    BY <1>2, <2>1, <2>2 DEF Singles
  <2>6. \A s \in Requests : Fades(s)
    BY <2>1, <2>3, <2>4 DEF Fades
  <2> QED
    BY <1>2, <2>5, <2>6, AttemptFades DEF AttemptInv
<1>4. ASSUME NEW r \in Requests, TimerFire(r) PROVE AttemptInv'
  <2> DEFINE e == <<"timer", r>>
  <2>1. /\ timer[r] = "armed" /\ timer' = [timer EXCEPT ![r] = "fired"] /\ tasks' = Append(tasks, e)
        /\ UNCHANGED <<state, refCount, todo, creates, deletes, sessions>>
    BY <1>4 DEF TimerFire, Enqueue, helix
  <2>2. e[2] = r /\ e[1] = "timer"
    OBVIOUS
  <2> HIDE DEF e
  <2>3. /\ r \notin Named(tasks) \cup Named(todo) \cup Asked
        /\ state[r] \in {"Subscribing", "Retrying"} /\ r \notin Kept /\ refCount[r] > 0
    BY <1>2, <2>1 DEF AttemptOf
  <2>4. Once(tasks') /\ Named(tasks') = Named(tasks) \cup {r} /\ Timed(tasks') = Timed(tasks) \cup {r}
    BY <1>1, <1>2, <2>1, <2>2, <2>3, NamedAppend DEF Singles
  <2>5. Asked' = Asked /\ Kept' = Kept
    BY <2>1 DEF Asked, Kept
  <2>6. Singles'
    BY <1>2, <2>1, <2>4 DEF Singles
  <2>7. AttemptOf(r)'
    BY <1>1, <2>1, <2>3, <2>4, <2>5 DEF AttemptOf
  <2>8. \A s \in Requests : s # r => Fades(s)
    BY <1>1, <2>1, <2>4, <2>5 DEF Fades
  <2> QED
    BY <1>2, <2>6, <2>7, <2>8, AttemptFades DEF AttemptInv
<1> QED
  BY <1>3, <1>4 DEF Environment

LEMMA ExclusiveAttempts ==
    ASSUME TypeInv, AttemptInv
    PROVE  AttemptsAreExclusive
<1>1. /\ tasks \in Seq(Tasks) /\ todo \in Seq(Steps) /\ creates \subseteq Create
      /\ timer \in [Requests -> {"none", "armed", "fired"}]
  BY DEF TypeInv, HelixTypes, QueueTypes, TableTypes
<1>2. Singles /\ \A r \in Requests : AttemptOf(r)
  BY DEF AttemptInv
<1>3. /\ \A i \in DOMAIN tasks : tasks[i][2] \in Requests /\ tasks[i][2] \in Named(tasks)
      /\ \A i \in DOMAIN todo : todo[i][2] \in Requests /\ todo[i][2] \in Named(todo)
  <2>1. \A i \in DOMAIN tasks : tasks[i] \in Tasks
    BY <1>1
  <2>2. \A i \in DOMAIN todo : todo[i] \in Steps
    BY <1>1
  <2> QED
    BY <2>1, <2>2 DEF Tasks, Steps, Named
<1>4. Timed(tasks) \subseteq Named(tasks)
  BY TimedAreNamed
<1>5. RetryFindsTimer
  <2> SUFFICES ASSUME NEW i \in DOMAIN tasks, tasks[i][1] = "timer" PROVE timer[tasks[i][2]] = "fired"
    BY DEF RetryFindsTimer
  <2>1. tasks[i][2] \in Timed(tasks)
    BY DEF Timed
  <2> QED
    BY <1>2, <1>3, <2>1 DEF AttemptOf
<1>6. SubscribeHasNoTimer
  <2>1. ASSUME NEW i \in DOMAIN tasks, tasks[i][1] = "subscribe" PROVE timer[tasks[i][2]] = "none"
    <3> DEFINE r == tasks[i][2]
    <3>1. r \notin Timed(tasks)
      BY <1>2, <2>1 DEF Timed, Singles, Once
    <3>2. r \in Requests /\ r \in Named(tasks)
      BY <1>3
    <3> HIDE DEF r
    <3>3. timer[r] # "armed" /\ timer[r] # "fired"
      BY <1>2, <3>1, <3>2 DEF AttemptOf
    <3> QED
      BY <1>1, <3>2, <3>3 DEF r
  <2>2. ASSUME NEW i \in DOMAIN todo PROVE timer[todo[i][2]] = "none"
    <3> DEFINE r == todo[i][2]
    <3>1. r \in Requests /\ r \in Named(todo)
      BY <1>3
    <3> HIDE DEF r
    <3>2. r \notin Named(tasks) /\ timer[r] # "armed"
      BY <1>2, <3>1 DEF AttemptOf
    <3>3. timer[r] # "fired"
      BY <1>2, <1>4, <3>1, <3>2 DEF AttemptOf
    <3> QED
      BY <1>1, <3>1, <3>2, <3>3 DEF r
  <2> QED
    BY <2>1, <2>2 DEF SubscribeHasNoTimer
<1>7. AnswerFindsAttempt
  <2> SUFFICES ASSUME NEW c \in creates PROVE state[c.req] \in {"Subscribing", "Retrying"}
    BY DEF AnswerFindsAttempt
  <2>1. c.req \in Requests /\ c.req \in Asked
    BY <1>1 DEF Create, Asked
  <2> QED
    BY <1>2, <2>1 DEF AttemptOf
<1> QED
  BY <1>5, <1>6, <1>7 DEF AttemptsAreExclusive

\* As long as no handle is dropped, the assertions about retry timers and answers hold
\* for any users, sessions and faults: a request is at one place of its attempt at a time.
THEOREM AttemptsAreExclusiveHolds ==
    ASSUME "release" \notin Faults
    PROVE  Spec => []AttemptsAreExclusive
<1>1. Init => AttemptInv
  <2> SUFFICES ASSUME Init PROVE AttemptInv
    OBVIOUS
  <2>1. Named(tasks) = {} /\ Timed(tasks) = {} /\ Named(todo) = {}
    BY DEF Init, Named, Timed
  <2>2. Asked = {} /\ Kept = {}
    BY DEF Init, Asked, Kept
  <2>3. Singles
    BY DEF Init, Singles, Once
  <2> QED
    BY <2>1, <2>2, <2>3 DEF Init, AttemptInv, AttemptOf
<1>2. AttemptInv /\ UNCHANGED vars => AttemptInv'
  <2> SUFFICES ASSUME AttemptInv, UNCHANGED vars PROVE AttemptInv'
    OBVIOUS
  <2>1. UNCHANGED <<state, refCount, timer, tasks, todo, sessions, creates, deletes>>
    BY DEF vars, table, helix
  <2>2. Asked' = Asked /\ Kept' = Kept
    BY <2>1 DEF Asked, Kept
  <2>3. Singles'
    BY <2>1 DEF AttemptInv, Singles
  <2> QED
    BY <2>1, <2>2, <2>3 DEF AttemptInv, AttemptOf
<1>3. TypeInv /\ AttemptInv /\ [Next]_vars => AttemptInv'
  BY <1>2, AttemptGui, AttemptIo, AttemptEnvironment DEF Next
<1>4. TypeInv /\ AttemptInv => AttemptsAreExclusive
  BY ExclusiveAttempts
<1> QED
  BY <1>1, <1>3, <1>4, TypeInvInit, TypeInvNext, PTL DEF Spec
================================================================================
