---------------------------- MODULE NetworkRequests ----------------------------
(***************************************************************************)
(* HTTP requests (common/network).  A request is run on the worker thread, *)
(* or answered from the file cache on a thread of the pool; its callbacks  *)
(* are posted to the GUI thread, or run on the pool if it is concurrent.   *)
(* Each handler is an action with a request; who composes the module says  *)
(* what the callbacks do.                                                  *)
(***************************************************************************)
EXTENDS Naturals, Sequences, FiniteSets, SequencesExt

CONSTANTS
    Requests,
    Cached,         \* requests with cache()
    Urls, UrlOf,    \* what those are for, by which the cache knows them
    Concurrent,     \* requests with concurrent()
    Timed,          \* requests with timeout()
    Called,         \* requests with caller()
    Finally         \* requests with finally()

ASSUME RequestsAssumption ==
    /\ UrlOf \in [Cached -> Urls]
    /\ \A R \in {Cached, Concurrent, Timed, Called, Finally} : R \subseteq Requests
    /\ Called \cap Concurrent = {}      \* asserted by execute()

VARIABLES
    stage,          \* where each request is
    jobs,           \* what runs or waits on the thread pool
    posted,         \* what is posted to the GUI thread
    files,          \* the file cache
    gone,           \* requests whose caller is destroyed
    heard           \* the callbacks of each request that were called

network == <<stage, jobs, posted, files, gone, heard>>

\* A body that decodes; one whose header is fine; one that cannot be read.
Bodies == {"whole", "cut", "broken"}

Callback(r, what, body) == [request |-> r, what |-> what, body |-> body]
Outcome == {"success", "error"}

NetworkTypeOK ==
    /\ stage \in [Requests -> {"idle", "lookup", "connecting", "sent", "over"}]
    /\ files \in [Urls -> Bodies \cup {"none"}]
    /\ gone \subseteq Called
    /\ heard \in [Requests -> BoundedSeq(Outcome \cup {"finally"}, 2)]
    /\ \A j \in jobs :
          /\ j.request \in Requests /\ j.body \in Bodies \cup {"none"}
          /\ j.what \in Outcome \cup {"finally", "lookup", "write", "writing"}

NetworkInit ==
    /\ stage = [r \in Requests |-> "idle"]
    /\ jobs = {} /\ posted = <<>>
    /\ files \in [Urls -> Bodies \cup {"none"}]     \* as an earlier run left them
    /\ gone = {}
    /\ heard = [r \in Requests |-> <<>>]

--------------------------------------------------------------------------------
At(r, s) == stage' = [stage EXCEPT ![r] = s]

\* Mutant: finally() is not moved out of the request when it is emitted.
EmitFinallyTwice(r, what, body, js) ==
    LET last == Callback(r, "finally", "none")
        calls == <<Callback(r, what, body)>> \o IF r \in Finally THEN <<last, last>> ELSE <<>>
    IN  IF r \in Concurrent
        THEN jobs' = js \cup ToSet(calls) /\ UNCHANGED posted
        ELSE jobs' = js /\ posted' = posted \o calls

\* emitSuccess or emitError, then emitFinally; js are the other jobs of the pool.
Emit(r, what, body, js) ==
    LET calls == IF r \in Finally
                 THEN <<Callback(r, what, body), Callback(r, "finally", "none")>>
                 ELSE <<Callback(r, what, body)>>
    IN  IF r \in Concurrent
        THEN jobs' = js \cup ToSet(calls) /\ UNCHANGED posted
        ELSE jobs' = js /\ posted' = posted \o calls

Lookup(r) == Callback(r, "lookup", "none")

\* load(), from NetworkRequest::execute.
Execute(r) ==
    /\ stage[r] = "idle"
    /\ IF r \in Cached
       THEN At(r, "lookup") /\ jobs' = jobs \cup {Lookup(r)}
       ELSE At(r, "connecting") /\ UNCHANGED jobs
    /\ UNCHANGED <<posted, files, gone, heard>>

\* loadCached(): whatever the file holds at the moment.
LoadCached(r) ==
    /\ Lookup(r) \in jobs
    /\ IF files[UrlOf[r]] = "none"
       THEN At(r, "connecting") /\ jobs' = jobs \ {Lookup(r)} /\ UNCHANGED posted
       ELSE At(r, "over") /\ Emit(r, "success", files[UrlOf[r]], jobs \ {Lookup(r)})
    /\ UNCHANGED <<files, gone, heard>>

\* requestSent starts the timer.
RequestSent(r) ==
    /\ stage[r] = "connecting" /\ At(r, "sent")
    /\ UNCHANGED <<jobs, posted, files, gone, heard>>

\* Mutant: neither finished() is disconnected nor the task abandoned.
TimeoutStays(r) ==
    /\ stage[r] = "sent" /\ r \in Timed
    /\ Emit(r, "error", "none", jobs)
    /\ UNCHANGED <<stage, files, gone, heard>>

\* timeout(): the reply is aborted without a call of finished().
Timeout(r) ==
    /\ stage[r] = "sent" /\ r \in Timed
    /\ At(r, "over") /\ Emit(r, "error", "none", jobs)
    /\ UNCHANGED <<files, gone, heard>>

\* finished() with a body, which a pool thread writes to the cache.  A reply that was
\* cancelled calls nobody back; only quitting cancels one, since timeout() disconnects
\* finished() before it aborts, and quitting is left out.
Finished(r, body) ==
    /\ stage[r] = "sent"
    /\ At(r, "over")
    /\ Emit(r, "success", body,
            IF r \in Cached THEN jobs \cup {Callback(r, "write", body)} ELSE jobs)
    /\ UNCHANGED <<files, gone, heard>>

\* finished() with an error, also of the connection.
FinishedWithError(r) ==
    /\ stage[r] \in {"connecting", "sent"}
    /\ At(r, "over") /\ Emit(r, "error", "none", jobs)
    /\ UNCHANGED <<files, gone, heard>>

\* writeToCache() opens the file, which empties it, and writes in pieces...
WriteOpen(r) ==
    \E j \in jobs, seen \in {"broken", "cut"} :
        /\ j.request = r /\ j.what = "write"
        /\ jobs' = (jobs \ {j}) \cup {[j EXCEPT !.what = "writing"]}
        /\ files' = [files EXCEPT ![UrlOf[r]] = seen]
        /\ UNCHANGED <<stage, posted, gone, heard>>

\* ... and closes it.
WriteClose(r) ==
    \E j \in jobs :
        /\ j.request = r /\ j.what = "writing"
        /\ jobs' = jobs \ {j}
        /\ files' = [files EXCEPT ![UrlOf[r]] = j.body]
        /\ UNCHANGED <<stage, posted, gone, heard>>

Hear(r, what) ==
    heard' = IF r \in gone THEN heard ELSE [heard EXCEPT ![r] = Append(@, what)]

\* A callback starts on the pool.
CallOnPool(c) ==
    /\ c \in jobs /\ c.what \in Outcome \cup {"finally"}
    /\ jobs' = jobs \ {c}
    /\ Hear(c.request, c.what)
    /\ UNCHANGED <<stage, posted, files, gone>>

\* A callback runs on the GUI thread.
CallOnGui(c) ==
    /\ posted # <<>> /\ Head(posted) = c /\ c.what \in Outcome \cup {"finally"}
    /\ posted' = Tail(posted)
    /\ Hear(c.request, c.what)
    /\ UNCHANGED <<stage, jobs, files, gone>>

\* The object that made the request is destroyed.
CallerGone(r) ==
    /\ r \in Called \ gone /\ gone' = gone \cup {r}
    /\ UNCHANGED <<stage, jobs, posted, files, heard>>

\* The worker thread, and the cache on the pool.
Worker(r, bodies) ==
    \/ RequestSent(r) \/ Timeout(r) \/ FinishedWithError(r)
    \/ \E body \in bodies : Finished(r, body)

Pool(r) == LoadCached(r) \/ WriteOpen(r) \/ WriteClose(r)

--------------------------------------------------------------------------------
(* Properties *)

\* However a timeout, a reply, a failing connection and the cache race, a request
\* calls onSuccess or onError but never both, each callback once, and on the GUI
\* thread finally() comes last.
OneOutcome ==
    \A r \in Requests :
        LET h == heard[r]
        IN  /\ IsInjective(h)
            /\ ~(Outcome \subseteq ToSet(h))
            /\ r \notin Concurrent /\ h # <<>> => h[1] \in Outcome
================================================================================
