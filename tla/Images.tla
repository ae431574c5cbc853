--------------------------------- MODULE Images ---------------------------------
(***************************************************************************)
(* Images (messages/Image.cpp): shared by reference counts between the GUI *)
(* thread and the callbacks of their loads on the thread pool, created     *)
(* once per key while anybody holds them, and known to an expiration pool  *)
(* that frees the frames of those not painted for a while.                 *)
(***************************************************************************)
EXTENDS NetworkRequests

CONSTANTS
    Images,         \* the images there can be, each created once
    KeyOf,          \* where the maps of fromUrl and its relatives keep each
    Dynamic,        \* images with dynamic frames
    MaxLoads,       \* loads of an image
    MaxRequests,    \* requests at all
    MaxSweeps,      \* runs of freeOld
    None

Load(i, n) == <<i, n>>

ASSUME ImagesAssumption ==
    /\ MaxLoads \in Nat /\ MaxRequests \in Nat /\ MaxSweeps \in Nat /\ Dynamic \subseteq Images /\ None \notin Images
    /\ Images \X (1 .. MaxLoads) \subseteq (Cached \cap Concurrent) \ Finally

VARIABLES
    life,           \* alive while somebody holds the image
    gui,            \* images the GUI thread holds
    held,           \* load callbacks on the pool, each of which holds its image
    shouldLoad,     \* images to be loaded when they are painted
    empty,          \* empty_
    frames,         \* frames_: none yet, some, or the result of a failed decoding
    idle,           \* not painted for the lifetime of frames
    loads,          \* loads of each image so far
    tracked,        \* allImages_ of the expiration pool
    sweep,          \* freeOld, which holds mutex_ while it runs
    sweeps

images == <<life, gui, held, shouldLoad, empty, frames, idle, loads, tracked>>
vars == <<network, images, sweep, sweeps>>

Loads == Images \X (1 .. MaxLoads)

TypeOK ==
    /\ NetworkTypeOK
    /\ life \in [Images -> {"unborn", "alive", "dying", "dead"}]
    /\ gui \cup shouldLoad \cup empty \cup idle \cup tracked \subseteq Images
    /\ frames \in [Images -> {"none", "some", "nothing"}]
    /\ loads \in [Images -> 0 .. MaxLoads]
    /\ \A h \in held : h.request \in Loads /\ h.what \in Outcome \cup {"done"}
    /\ sweep = None \/ (sweep.todo \subseteq Images /\ sweep.img \in Images \cup {None})

Init ==
    /\ NetworkInit
    /\ life = [i \in Images |-> "unborn"]
    /\ gui = {} /\ held = {} /\ shouldLoad = {} /\ empty = {} /\ idle = {} /\ tracked = {}
    /\ frames = [i \in Images |-> "none"]
    /\ loads = [i \in Images |-> 0]
    /\ sweep = None /\ sweeps = 0

\* freeOld is on the GUI thread and holds the mutex.
Free == sweep = None

MayAsk == Cardinality({r \in Requests : stage[r] # "idle"}) < MaxRequests

HeldByLoad(i, H) == \E h \in H : h.request[1] = i

--------------------------------------------------------------------------------
(* The GUI thread *)

\* fromUrl(): the image that is alive, or a new one.
FromUrl(i) ==
    /\ Free /\ i \notin gui
    /\ gui' = gui \cup {i}
    /\ \/ life[i] = "alive" /\ UNCHANGED <<life, shouldLoad>>
       \/ /\ life[i] = "unborn"
          /\ \A k \in Images : KeyOf[k] = KeyOf[i] => life[k] # "alive"
          /\ life' = [life EXCEPT ![i] = "alive"]
          /\ shouldLoad' = shouldLoad \cup {i}
    /\ UNCHANGED <<network, held, empty, frames, idle, loads, tracked, sweep, sweeps>>

\* The last message with the image goes.  If nobody else holds it, ~Image takes
\* it out of the expiration pool.
Drop(i) ==
    /\ Free /\ i \in gui
    /\ gui' = gui \ {i}
    /\ IF HeldByLoad(i, held)
       THEN UNCHANGED <<life, tracked>>
       ELSE life' = [life EXCEPT ![i] = "dead"] /\ tracked' = tracked \ {i}
    /\ UNCHANGED <<network, held, shouldLoad, empty, frames, idle, loads, sweep, sweeps>>

\* Mutant: only the first load enters the image into the expiration pool.
TracksOnce(i) == IF loads[i] = 0 THEN tracked \cup {i} ELSE tracked

\* addImagePtr.
Tracks(i) == tracked \cup {i}

\* pixmapOrLoad().
Paint(i) ==
    /\ Free /\ i \in gui
    /\ idle' = idle \ {i}
    /\ IF i \in shouldLoad
       THEN /\ MayAsk /\ loads[i] < MaxLoads
            /\ loads' = [loads EXCEPT ![i] = @ + 1]
            /\ shouldLoad' = shouldLoad \ {i}
            /\ Execute(Load(i, loads[i] + 1))
            /\ tracked' = Tracks(i)
       ELSE i \in idle /\ UNCHANGED <<loads, shouldLoad, tracked, network>>
    /\ UNCHANGED <<life, gui, held, empty, frames, sweep, sweeps>>

\* Time passes without a paint.
Age(i) ==
    /\ life[i] = "alive" /\ frames[i] = "some" /\ i \notin idle /\ idle' = idle \cup {i}
    /\ UNCHANGED <<network, life, gui, held, shouldLoad, empty, frames, loads, tracked, sweep, sweeps>>

\* The callback assignFrames() has posted, to an image that is still alive.
AssignFrames(i, decoded) ==
    /\ Free /\ posted # <<>> /\ Head(posted) = [image |-> i, what |-> decoded]
    /\ posted' = Tail(posted)
    /\ IF life[i] = "alive"
       THEN /\ frames' = [frames EXCEPT ![i] = decoded]
            /\ empty' = IF i \notin Dynamic THEN empty
                        ELSE IF decoded = "nothing" THEN empty \cup {i} ELSE empty \ {i}
       ELSE UNCHANGED <<frames, empty>>
    /\ UNCHANGED <<stage, jobs, files, gone, heard, life, gui, held, shouldLoad, idle, loads, tracked,
                   sweep, sweeps>>

--------------------------------------------------------------------------------
(* The callbacks of a load, on the pool *)

\* The callback starts and takes a reference, if there is an image left.
LoadAnswered(c) ==
    /\ c.request \in Loads /\ CallOnPool(c)
    /\ held' = IF c.what \in Outcome /\ life[c.request[1]] = "alive"
               THEN held \cup {c} ELSE held
    /\ UNCHANGED <<life, gui, shouldLoad, empty, frames, idle, loads, tracked, sweep, sweeps>>

\* Mutant: what cannot be read is not marked as empty.
DecodeSilently(h) ==
    /\ h.what \in Outcome
    /\ held' = (held \ {h}) \cup {[h EXCEPT !.what = "done"]}
    /\ empty' = IF h.what = "error" THEN empty \cup {h.request[1]} ELSE empty
    /\ posted' = IF h.what = "error" \/ h.body = "broken" THEN posted
                 ELSE Append(posted, [image |-> h.request[1],
                                      what |-> IF h.body = "whole" THEN "some" ELSE "nothing"])
    /\ UNCHANGED <<stage, jobs, files, gone, heard>>
    /\ UNCHANGED <<life, gui, shouldLoad, frames, idle, loads, tracked, sweep, sweeps>>

\* An error, or data that cannot be read, marks the image as empty; what is
\* decoded from the rest, if only nothing, is posted to the GUI thread.
Decode(h) ==
    LET i == h.request[1]
        unread == h.what = "error" \/ h.body = "broken"
    IN  /\ h.what \in Outcome
        /\ held' = (held \ {h}) \cup {[h EXCEPT !.what = "done"]}
        /\ empty' = IF unread THEN empty \cup {i} ELSE empty
        /\ posted' = IF unread THEN posted
                     ELSE Append(posted, [image |-> i,
                                          what |-> IF h.body = "whole" THEN "some" ELSE "nothing"])
        /\ UNCHANGED <<stage, jobs, files, gone, heard>>
        /\ UNCHANGED <<life, gui, shouldLoad, frames, idle, loads, tracked, sweep, sweeps>>

\* The callback ends, and with it perhaps the last reference.
Release(h) ==
    LET i == h.request[1]
    IN  /\ h.what = "done" /\ held' = held \ {h}
        /\ life' = IF i \in gui \/ HeldByLoad(i, held') \/ (~Free /\ sweep.img = i)
                   THEN life ELSE [life EXCEPT ![i] = "dying"]
        /\ UNCHANGED <<network, gui, shouldLoad, empty, frames, idle, loads, tracked, sweep, sweeps>>

\* ~Image on a pool thread, which waits for the mutex of the expiration pool.
Destroy(i) ==
    /\ Free /\ life[i] = "dying"
    /\ life' = [life EXCEPT ![i] = "dead"] /\ tracked' = tracked \ {i}
    /\ UNCHANGED <<network, gui, held, shouldLoad, empty, frames, idle, loads, sweep, sweeps>>

--------------------------------------------------------------------------------
(* ImageExpirationPool::freeOld, on the GUI thread *)

FreeOld ==
    /\ Free /\ sweeps < MaxSweeps /\ sweeps' = sweeps + 1
    /\ sweep' = [todo |-> tracked, img |-> None, stuck |-> FALSE]
    /\ UNCHANGED <<network, images>>

\* The local variable img refers to the next image; one that is dying is erased.
Lock(i) ==
    /\ ~Free /\ sweep.img = None /\ i \in sweep.todo
    /\ IF life[i] = "alive"
       THEN sweep' = [sweep EXCEPT !.todo = @ \ {i}, !.img = i] /\ UNCHANGED tracked
       ELSE sweep' = [sweep EXCEPT !.todo = @ \ {i}] /\ tracked' = tracked \ {i}
    /\ UNCHANGED <<network, life, gui, held, shouldLoad, empty, frames, idle, loads, sweeps>>

\* Frames that expired are cleared.  Then img goes; if it is the last reference by
\* now, ~Image locks the mutex this thread holds.
Expire ==
    /\ ~Free /\ sweep.img # None /\ ~sweep.stuck
    /\ LET i == sweep.img
           expired == frames[i] = "some" /\ i \in idle
           last == i \notin gui /\ ~HeldByLoad(i, held)
       IN  /\ frames' = IF expired THEN [frames EXCEPT ![i] = "none"] ELSE frames
           /\ shouldLoad' = IF expired THEN shouldLoad \cup {i} ELSE shouldLoad
           /\ tracked' = IF expired THEN tracked \ {i} ELSE tracked
           /\ life' = IF last THEN [life EXCEPT ![i] = "dying"] ELSE life
           /\ sweep' = IF last THEN [sweep EXCEPT !.stuck = TRUE] ELSE [sweep EXCEPT !.img = None]
    /\ UNCHANGED <<network, gui, held, empty, idle, loads, sweeps>>

Unlock ==
    /\ ~Free /\ sweep.todo = {} /\ sweep.img = None
    /\ sweep' = None
    /\ UNCHANGED <<network, images, sweeps>>

--------------------------------------------------------------------------------
(* Requests of others, made and answered on the GUI thread *)

Others == Requests \ Loads

Ask(r) == Free /\ r \in Others /\ MayAsk /\ Execute(r) /\ UNCHANGED <<images, sweep, sweeps>>

Answered ==
    /\ Free /\ \E r \in Others : posted # <<>> /\ "request" \in DOMAIN Head(posted)
                                  /\ Head(posted).request = r /\ CallOnGui(Head(posted))
    /\ UNCHANGED <<images, sweep, sweeps>>

CallerDestroyed(r) == Free /\ CallerGone(r) /\ UNCHANGED <<images, sweep, sweeps>>

\* Only an image asks what is in a body.
Network(r) ==
    /\ Worker(r, IF r \in Loads THEN Bodies ELSE {"whole"}) \/ Pool(r)
    /\ UNCHANGED <<images, sweep, sweeps>>

--------------------------------------------------------------------------------
Gui ==
    \/ \E i \in Images :
          \/ FromUrl(i) \/ Drop(i) \/ Paint(i) \/ Age(i) \/ Lock(i)
          \/ \E decoded \in {"some", "nothing"} : AssignFrames(i, decoded)
    \/ \E r \in Others : Ask(r) \/ CallerDestroyed(r)
    \/ FreeOld \/ Expire \/ Unlock \/ Answered

Callbacks ==
    \/ \E c \in jobs : LoadAnswered(c)
    \/ \E h \in held : Decode(h) \/ Release(h)
    \/ \E i \in Images : Destroy(i)

Next == Gui \/ Callbacks \/ \E r \in Requests : Network(r)

Spec == Init /\ [][Next]_vars

\* What the GUI thread has to do.
GuiWork ==
    \/ Expire \/ Unlock \/ Answered
    \/ \E i \in Images : Lock(i) \/ AssignFrames(i, "some") \/ AssignFrames(i, "nothing")

\* The GUI thread gets on with its work and the pool with its callbacks.  Nothing is
\* assumed of the server and the connection; a timer that runs ends.
FairSpec ==
    /\ Spec
    /\ WF_vars(GuiWork) /\ WF_vars(Callbacks)
    /\ \A r \in Timed : WF_vars(Timeout(r) /\ UNCHANGED <<images, sweep, sweeps>>)

--------------------------------------------------------------------------------
(* Properties *)

\* An image with frames is known to the expiration pool, through any number of
\* expirations and loads, so that its frames can be freed; and the pool knows no
\* image that is gone, whichever thread destroyed it.
LoadedIsTracked ==
    \A i \in Images :
        /\ life[i] = "alive" /\ frames[i] = "some" => i \in tracked
        /\ i \in tracked => life[i] \in {"alive", "dying"}

\* The GUI thread never waits for a mutex that it holds.
NeverLocksTwice == sweep # None => ~sweep.stuck

\* A plain image whose data decoded to no frames is neither loaded, nor marked as
\* empty, nor asked for again.
Blank(i) == i \notin Dynamic /\ frames[i] = "nothing"

\* A request with a timeout is answered once it was sent, unless its caller goes;
\* an image whose load was answered gets frames or is marked as empty, unless the
\* GUI thread drops it or hangs.  Excepted are plain images whose data, perhaps a file
\* of the cache that was being written, decoded to nothing (Blank).
AnswersArrive ==
    /\ \A r \in Timed \cap Others :
          stage[r] = "sent" ~> heard[r] # <<>> \/ r \in gone \/ ~NeverLocksTwice
    /\ \A i \in Images :
          (i \in gui /\ loads[i] > 0 /\ stage[Load(i, loads[i])] = "over")
             ~> \/ frames[i] = "some" \/ i \in empty \/ Blank(i)
                \/ i \in shouldLoad \/ i \notin gui \/ ~NeverLocksTwice
================================================================================
