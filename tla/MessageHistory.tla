---------------------------- MODULE MessageHistory -----------------------------
(***************************************************************************)
(* The messages of one Twitch channel and how they get there: live over    *)
(* the read connection, at the front from the recent-messages services     *)
(* when the channel is entered, and into the gap when it is joined again   *)
(* after a lost connection.  A view of the channel follows it through a    *)
(* filtered copy (the proxy channel) and a list of layouts.                *)
(*                                                                         *)
(* The chat server's messages are 1, 2, ... in the order it sent them: a   *)
(* message is its own timestamp, and the time is the number of messages    *)
(* sent.  The program's own messages have no time.                         *)
(***************************************************************************)
EXTENDS LimitedQueue, SequencesExt

CONSTANTS
    MaxMessages,    \* messages the server sends
    Unnamed,        \* those of them without an id and flagged System (NOTICE)
    Included,       \* those the view's filter lets through
    HistoryLimit,   \* twitchMessageHistoryLimit
    Providers,      \* enabled history services
    MaxBreaks,      \* connections that are lost
    MaxFails        \* history answers that are errors or partial

ASSUME BoundsAssumption ==
    /\ Unnamed \subseteq 1 .. MaxMessages /\ Included \subseteq 1 .. MaxMessages
    /\ \A n \in {MaxMessages, HistoryLimit, MaxBreaks, MaxFails} : n \in Nat
    /\ Providers \in Nat \ {0}

VARIABLES
    log,                \* messages the server has sent
    link,               \* the read connection and the membership
    room,               \* roomId() is known
    disconnected,       \* disconnected_
    lastConnectedAt,    \* lastConnectedAt_
    fresh,              \* recentlyReceivedMessage_ of the read connection
    loading,            \* loadingRecentMessages_
    loads,              \* history loads under way
    messages,           \* messages_ of the channel
    proxy,              \* messages_ of the view's proxy channel
    layouts,            \* messages_ of the view
    breaks, fails,
    missed,             \* sent, but not delivered, since the channel is known
    excused,            \* missed ones no history load will bring
    mixed,              \* the first load reached past a live message
    cleared             \* layouts were cleared and not rebuilt since

connection == <<link, room, disconnected, lastConnectedAt, fresh, breaks>>
history == <<loading, loads, fails>>
shown == <<messages, proxy, layouts, mixed, cleared>>
server == <<log, missed>>
vars == <<connection, history, shown, server, excused>>

Server == 1 .. MaxMessages
Notice == 0             \* a system message
Disconnected == -1      \* the one with the flag DisconnectedMessage
Item == Server \cup {Notice, Disconnected}
Named(x) == x \in Server \ Unnamed
Showable == Included \cup {Notice, Disconnected}
Shown(x) == x \in Showable

\* The items of q that are in S, in their order.
Keep(q, S) ==
    LET kept[k \in 0 .. Len(q)] ==
            IF k = 0 THEN <<>>
            ELSE IF q[k] \in S THEN Append(kept[k - 1], q[k]) ELSE kept[k - 1]
    IN  kept[Len(q)]

\* The members of S in the order of their timestamps.
InTime(S) == Keep([n \in Server |-> n], S)

TypeOK ==
    /\ log \in 0 .. MaxMessages /\ lastConnectedAt \in 0 .. log
    /\ link \in {"closed", "open", "joined", "silent"}
    /\ {room, disconnected, fresh, loading, mixed, cleared} \subseteq BOOLEAN
    /\ breaks \in 0 .. MaxBreaks /\ fails \in 0 .. MaxFails
    /\ missed \cup excused \subseteq 1 .. log
    /\ \A q \in {messages, proxy, layouts} :
          q \in Seq(Item) /\ Len(q) <= Limit
    /\ loads \subseteq [first : BOOLEAN, phase : {"asked", "complete", "partial"},
                        after : 0 .. log, before : 0 .. log, provider : 1 .. Providers,
                        items : Seq(1 .. log), partial : Seq(1 .. log)]

--------------------------------------------------------------------------------
(* Channel, and the view that listens to its signals *)

\* The messages with an id in q.
Known(q) == {x \in Range(q) : Named(x)}

\* The places of the named messages of q that are later than x.
Later(q, x) == {i \in DOMAIN q : Named(q[i]) /\ x < q[i]}

\* Mutant: does not look whether the message is there.
InsertUnseen(snapshot, q, x) ==
    IF Later(snapshot, x) = {} THEN InsertAfterLast(q, x)
    ELSE InsertBefore(q, snapshot[Min(Later(snapshot, x))], x)

\* fillInMissingMessages puts a message it does not know before the first named
\* message of the snapshot that is later, or at the end.
InsertMissing(snapshot, q, x) ==
    IF x \in Known(snapshot) THEN q
    ELSE IF Later(snapshot, x) = {} THEN InsertAfterLast(q, x)
    ELSE InsertBefore(q, snapshot[Min(Later(snapshot, x))], x)

\* q with `items` filled in one after the other (`put` is a function, not an operator,
\* so that TLC evaluates each fill[k] once).
FillEach(q, items) ==
    LET put == [p \in Seq(Item) \X Item |-> InsertMissing(q, p[1], p[2])]
        fill[k \in 0 .. Len(items)] == IF k = 0 THEN q ELSE put[<<fill[k - 1], items[k]>>]
    IN  fill[Len(items)]

FillIn(q, items) == IF q = <<>> THEN PushFront(q, items) ELSE FillEach(q, items)

\* The listeners of filledInMessages hear of it.
FillsAny(q, items) == items # <<>> /\ (q = <<>> \/ Range(items) \ Known(q) # {})

\* What the three lists hold, and what each operation of the channel makes of them.
Lists == [channel |-> messages, proxy |-> proxy, layouts |-> layouts, cleared |-> cleared]

Adds(u, x) ==
    IF Shown(x)
    THEN [u EXCEPT !.channel = PushBack(@, x), !.proxy = PushBack(@, x),
                   !.layouts = PushBack(@, x)]
    ELSE [u EXCEPT !.channel = PushBack(@, x)]

AddsAtStart(u, items) ==
    LET inProxy == Fitting(u.proxy, Keep(Fitting(u.channel, items), Showable))
    IN  [u EXCEPT !.channel = PushFront(@, items), !.proxy = inProxy \o @,
                  !.layouts = PushFront(@, inProxy)]

\* Mutant: the layouts are not rebuilt when the proxy is filled.
FillsUnseen(u, items) ==
    [u EXCEPT !.channel = FillIn(@, items), !.proxy = FillIn(@, Keep(items, Showable))]

\* The proxy is given all the items; a fill of the proxy rebuilds the layouts.
Fills(u, items) ==
    LET filtered == Keep(items, Showable)
        filled == [u EXCEPT !.channel = FillIn(@, items)]
        through == FillIn(u.proxy, filtered)
    IN  IF ~FillsAny(u.channel, items) THEN u
        ELSE IF ~FillsAny(u.proxy, filtered) THEN filled
        ELSE [filled EXCEPT !.proxy = through, !.layouts = through, !.cleared = FALSE]

Replaces(u, needle, x) ==
    [u EXCEPT !.channel = ReplaceItem(@, needle, x), !.proxy = ReplaceItem(@, needle, x),
              !.layouts = ReplaceItem(@, needle, x)]

Show(u) ==
    \E w \in {u} :
        /\ messages' = w.channel /\ proxy' = w.proxy
        /\ layouts' = w.layouts /\ cleared' = w.cleared

Display(u) == Show(u) /\ UNCHANGED mixed

--------------------------------------------------------------------------------
(* Loading the history *)

Load(first, after, before) ==
    [first |-> first, phase |-> "asked", after |-> after, before |-> before,
     provider |-> 1, items |-> <<>>, partial |-> <<>>]

\* Mutant: the flag is set without being tested.
StartLoadAgain(first, after, before) ==
    /\ loading' = TRUE
    /\ loads' = loads \cup {Load(first, after, before)}

\* loadRecentMessages, loadRecentMessagesReconnect: nothing while a load is under way.
StartLoad(first, after, before) ==
    /\ loading' = TRUE
    /\ loads' = IF loading THEN loads ELSE loads \cup {Load(first, after, before)}

\* What a service knows that l asks for.
Window(l) == IF l.first THEN 1 .. log ELSE l.after + 1 .. l.before

\* The newest of S that the limit lets through.
Newest(S) == {x \in S : Cardinality({y \in S : x < y}) < HistoryLimit}

\* A service answers; what it knows is what the server has sent by then.
Answer(l, phase, S) ==
    /\ l.phase = "asked"
    /\ loads' = (loads \ {l}) \cup {[l EXCEPT !.phase = phase, !.items = InTime(S)]}
    /\ UNCHANGED <<loading, connection, shown, server, excused>>

AnswerComplete(l) ==
    /\ \E S \in {Newest(Window(l))} : Answer(l, "complete", S)
    /\ UNCHANGED fails

\* A partial answer lacks the older ones.
AnswerPartial(l) ==
    /\ fails < MaxFails /\ fails' = fails + 1
    /\ \E S \in {Newest(Window(l))} : \E oldest \in S :
          \E T \in {{x \in S : oldest <= x}} : Answer(l, "partial", T)

\* The answer was partial, or there is none: an error or the timeout.
Fails(l) ==
    \/ l.phase = "partial" /\ UNCHANGED fails
    \/ l.phase = "asked" /\ fails < MaxFails /\ fails' = fails + 1

\* onLoaded: the messages go to the front, or where they are missing.
Finish(l, u, items) ==
    /\ \E w \in {u} :
          /\ Show(IF l.first THEN AddsAtStart(w, items) ELSE Fills(w, items))
          /\ mixed' = (mixed \/ (l.first /\ items # <<>>
                                   /\ \E x \in Known(w.channel) : x <= Last(items)))
    /\ excused' = IF l.first THEN excused
                  ELSE excused \cup ((missed \cap Window(l)) \ Range(items))
    /\ loading' = FALSE
    /\ loads' = loads \ {l}

\* finishLoad with a complete answer; after a failure it says where it is from.
FinishComplete(l) ==
    /\ l.phase = "complete"
    /\ Finish(l, IF l.provider > 1 THEN Adds(Lists, Notice) ELSE Lists, l.items)
    /\ UNCHANGED <<fails, connection, server>>

\* The first partial answer is kept for the case that no service does better.
Kept(l) == IF l.partial = <<>> THEN l.items ELSE l.partial

\* A failed or partial answer is reported, and the next service is asked.
AskNext(l) ==
    /\ Fails(l) /\ l.provider < Providers
    /\ loads' = (loads \ {l}) \cup
                  {[l EXCEPT !.phase = "asked", !.provider = @ + 1, !.partial = Kept(l), !.items = <<>>]}
    /\ Display(Adds(Lists, Notice))
    /\ UNCHANGED <<loading, connection, server, excused>>

\* Mutant: onError does not reset the flag.
FinishKept(l) ==
    /\ Fails(l) /\ l.provider = Providers
    /\ IF Kept(l) # <<>> THEN Finish(l, Adds(Adds(Lists, Notice), Notice), Kept(l))
       ELSE /\ loads' = loads \ {l}
            /\ Display(Adds(Adds(Lists, Notice), Notice))
            /\ UNCHANGED <<loading, excused>>
    /\ UNCHANGED <<connection, server>>

\* No service is left: what was partial is used after a warning; without it the
\* failure is reported and onError ends the load.
FinishLast(l) ==
    /\ Fails(l) /\ l.provider = Providers
    /\ Finish(l, Adds(Adds(Lists, Notice), Notice), Kept(l))
    /\ UNCHANGED <<connection, server>>

--------------------------------------------------------------------------------
(* The chat server and the read connection *)

\* setRoomId, from ROOMSTATE or from the first message with an id.
NoteRoom(now) ==
    /\ room' = TRUE /\ disconnected' = FALSE /\ lastConnectedAt' = now
    /\ StartLoad(TRUE, 0, 0)

\* The server sends a message.  It is received if it still counts the client in.
Chat ==
    /\ log < MaxMessages
    /\ log' = log + 1
    /\ IF link = "joined"
       THEN /\ fresh' = TRUE
            /\ IF ~room /\ Named(log + 1) THEN NoteRoom(log + 1)
               ELSE UNCHANGED <<room, disconnected, lastConnectedAt, loading, loads>>
            /\ Display(Adds(Lists, log + 1))
            /\ UNCHANGED missed
       ELSE /\ missed' = IF room THEN missed \cup {log + 1} ELSE missed
            /\ UNCHANGED <<fresh, room, disconnected, lastConnectedAt, loading, loads, shown>>
    /\ UNCHANGED <<link, breaks, fails, excused>>

RoomState ==
    /\ link = "joined" /\ ~room
    /\ NoteRoom(log)
    /\ fresh' = TRUE
    /\ UNCHANGED <<link, breaks, fails, shown, server, excused>>

\* Mutant: lastConnectedAt_ is set before it is used.
LoadGapFromNow == StartLoad(FALSE, log, log)

\* The messages since the connection was last known to work.
LoadGap == StartLoad(FALSE, lastConnectedAt, log)

\* The client's own JOIN comes back.  After a lost connection the gap is loaded.
JoinMessage ==
    /\ link = "open"
    /\ link' = "joined" /\ fresh' = TRUE
    /\ Display(Adds(Lists, Notice))
    /\ IF disconnected
       THEN /\ LoadGap
            /\ excused' = IF loading THEN excused \cup (missed \cap lastConnectedAt + 1 .. log)
                          ELSE excused
            /\ lastConnectedAt' = log /\ disconnected' = FALSE
       ELSE UNCHANGED <<loading, loads, excused, lastConnectedAt, disconnected>>
    /\ UNCHANGED <<room, breaks, fails, server>>

\* onReadConnected: a trailing "disconnected" becomes "reconnected".
ReadConnected ==
    /\ link = "closed"
    /\ link' = "open" /\ fresh' = TRUE
    /\ Display(IF messages # <<>> /\ Last(messages) = Disconnected
               THEN Replaces(Lists, Disconnected, Notice)
               ELSE Adds(Lists, Notice))
    /\ UNCHANGED <<room, disconnected, lastConnectedAt, breaks, history, server, excused>>

\* The connection is gone and nobody has noticed yet.
Break ==
    /\ link = "joined" /\ breaks < MaxBreaks
    /\ link' = "silent" /\ breaks' = breaks + 1
    /\ UNCHANGED <<room, disconnected, lastConnectedAt, fresh, history, shown, server, excused>>

\* onDisconnected with markDisconnected.
OnDisconnected ==
    /\ link # "closed" /\ (link # "silent" => breaks < MaxBreaks)
    /\ link' = "closed"
    /\ breaks' = IF link = "silent" THEN breaks ELSE breaks + 1
    /\ disconnected' = (disconnected \/ room)
    /\ Display(Adds(Lists, Disconnected))
    /\ UNCHANGED <<room, lastConnectedAt, fresh, history, server, excused>>

\* markConnected; what was missed before it is not asked for.
MarkConnected ==
    IF room /\ ~disconnected
    THEN lastConnectedAt' = log /\ excused' = excused \cup missed
    ELSE UNCHANGED <<lastConnectedAt, excused>>

\* RECONNECT: the server asks for it, and the connection is closed.
ReconnectAsked ==
    /\ link = "joined" /\ breaks < MaxBreaks
    /\ MarkConnected
    /\ link' = "closed" /\ breaks' = breaks + 1
    /\ disconnected' = (disconnected \/ room)
    /\ Display(Adds(Adds(Lists, Notice), Disconnected))
    /\ UNCHANGED <<room, fresh, history, server>>

\* The ping timer finds that something was received since its last tick.  A tick
\* that comes late, after a sleep, is no heartbeat.
PingTimer(late) ==
    /\ link # "closed" /\ fresh
    /\ fresh' = FALSE
    /\ IF late THEN UNCHANGED <<lastConnectedAt, excused>> ELSE MarkConnected
    /\ UNCHANGED <<link, room, disconnected, breaks, history, shown, server>>

--------------------------------------------------------------------------------
(* The view *)

\* /clear empties the layouts and leaves the proxy alone.
ClearView ==
    /\ layouts # <<>>
    /\ layouts' = <<>> /\ cleared' = TRUE
    /\ UNCHANGED <<messages, proxy, mixed, connection, history, server, excused>>

\* setChannel: the proxy and the layouts are built anew.
SetChannel ==
    /\ proxy' = Keep(messages, Showable) /\ layouts' = Keep(messages, Showable)
    /\ cleared' = FALSE
    /\ UNCHANGED <<messages, mixed, connection, history, server, excused>>

--------------------------------------------------------------------------------
Init ==
    /\ log = 0 /\ missed = {} /\ excused = {}
    /\ link = "closed" /\ room = FALSE /\ disconnected = FALSE /\ lastConnectedAt = 0
    /\ fresh = FALSE /\ breaks = 0
    /\ loading = FALSE /\ loads = {} /\ fails = 0
    /\ messages = <<>> /\ proxy = <<>> /\ layouts = <<>>
    /\ mixed = FALSE /\ cleared = FALSE

LoadStep(l) ==
    AnswerComplete(l) \/ AnswerPartial(l) \/ FinishComplete(l) \/ AskNext(l) \/ FinishLast(l)

Connection ==
    \/ Chat \/ RoomState \/ JoinMessage \/ ReadConnected \/ Break \/ OnDisconnected
    \/ ReconnectAsked \/ \E late \in BOOLEAN : PingTimer(late)

Next == Connection \/ (\E l \in loads : LoadStep(l)) \/ ClearView \/ SetChannel

Spec == Init /\ [][Next]_vars

\* A service is asked once the timer runs out, it answers or the request times
\* out, and the GUI thread runs what is posted to it.
FairSpec == Spec /\ WF_vars(\E l \in loads : LoadStep(l))

--------------------------------------------------------------------------------
(* Properties *)

\* The places of q where a named message is not later than the named one before it.
Falls(q) ==
    {i \in DOMAIN q : Named(q[i]) /\ \E j \in 1 .. i - 1 :
        Named(q[j]) /\ q[i] <= q[j] /\ \A k \in j + 1 .. i - 1 : ~Named(q[k])}

\* loadingRecentMessages_ is set exactly while one load is under way, however
\* the load ends: a flag left behind would stop every later load.
LoadingIsUnderWay == Cardinality(loads) = IF loading THEN 1 ELSE 0

\* The messages with an id are in the order the server sent them and each is
\* there once, through live messages, filled gaps and evictions.  Only the first
\* load can break the order, at its own end, when it reached past a live message.
InOrder ==
    \A q \in {messages, proxy} : Cardinality(Falls(q)) <= IF mixed THEN 1 ELSE 0

\* What fillInMissingMessages is to give: each missing message in front of the
\* first named one that is later, and the newest Limit of all.
Merged(q, items) ==
    LET place(x) == IF Later(q, x) = {} THEN Len(q) + 1 ELSE Min(Later(q, x))
        before(i) == Keep(items, {x \in Range(items) \ Known(q) : place(x) = i})
    IN  FlattenSeq([i \in 1 .. Len(q) |-> Append(before(i), q[i])]) \o before(Len(q) + 1)

\* Filling in one message at a time into the bounded queue, which drops messages of
\* the snapshot meanwhile, gives that for every answer the
\* services can make to a load of a gap, at every moment while it is under way.
FillMerges ==
    \A l \in {k \in loads : ~k.first} : \A S \in SUBSET Window(l) :
        LET m == Merged(messages, InTime(S))
        IN  FillIn(messages, InTime(S)) =
                IF Len(m) <= Limit THEN m ELSE SubSeq(m, Len(m) - Limit + 1, Len(m))

\* The view shows every message of the channel its filter includes, back to the
\* oldest message it still holds, and its layouts are those of the proxy item by
\* item until /clear empties them.  Once the first load has broken the order a
\* missed message may be an exception: the proxy drops it with the history while
\* the channel, which dropped it before, gets it back with a gap.
ViewFollowsChannel ==
    /\ \A x \in Range(messages) \ (IF mixed THEN missed ELSE {}) : \A y \in Range(proxy) :
          Named(x) /\ Shown(x) /\ Named(y) /\ y < x => x \in Range(proxy)
    /\ cleared \/ layouts = proxy

\* A message the connection missed is shown, or a load will bring it, unless a
\* cause of loss is known for it or the channel is full; and what a full channel
\* has lost is older than all it holds, as long as the first load left it in order.
LostForAReason ==
    \A x \in missed \ excused : Named(x) =>
        \/ x \in Range(messages)
        \/ link # "joined" /\ x > lastConnectedAt
        \/ \E l \in loads : x \in Window(l)
        \/ /\ Len(messages) = Limit
           /\ mixed \/ \A y \in Range(messages) : Named(y) => x < y

\* A load that was started ends, whatever the services answer.
LoadsEnd == loading ~> ~loading
================================================================================
