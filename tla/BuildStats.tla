------------------------------ MODULE BuildStats ------------------------------
(***************************************************************************)
(* The summary statistics of add_build_event (asu/util.py), kept beside    *)
(* BuildJobs: each step of a request or a build that counts an event does  *)
(* so here, and no other step changes a counter.                           *)
(***************************************************************************)
EXTENDS BuildJobs

VARIABLE count   \* the time series stats:build:<event>, summed

statsVars == <<vars, count>>

Events == {"requests", "cache-hits", "cache-misses", "successes", "failures"}

StatsTypeOK == TypeOK /\ count \in [Events -> Nat]

add_build_events(events) ==
    count' = [e \in Events |-> IF e \in events THEN count[e] + 1 ELSE count[e]]

StatsInit == Init /\ count = [e \in Events |-> 0]

-----------------------------------------------------------------------------
\* Mutant of CountPost: the request is counted only when it is looked up in vain.
CountPostMissed(t, id) ==
    /\ PostFetch(t, id)
    /\ add_build_events(IF job[id] = "absent" THEN {"requests", "cache-misses"} ELSE {})

\* Mutant of CountPost: the thread that raced another one leaves the miss to it.
CountPostOnce(t, id) ==
    /\ PostFetch(t, id)
    /\ add_build_events({"requests"} \cup
           IF job[id] = "absent" /\ InWindow(id) = {} THEN {"cache-misses"} ELSE {})

(* Every POST is a request, and one that finds no job a cache miss, before   *)
(* it is validated and before the queue's length is checked.                 *)
CountPost(t, id) ==
    /\ PostFetch(t, id)
    /\ add_build_events({"requests"} \cup
           IF job[id] = "absent" THEN {"cache-misses"} ELSE {})

(* A POST of an unknown client raises between its two events. *)
CountAnonymous == PostAnonymous /\ add_build_events({"requests"})

(* A POST that finds a job is a cache hit if the job has finished by the     *)
(* time its status is read.                                                  *)
CountFound(t) ==
    /\ Found(t)
    /\ add_build_events(IF job[req[t]] = "finished" THEN {"cache-hits"} ELSE {})

(* build() counts what _build did, before RQ stores the job's result. *)
CountBuild(w) ==
    /\ BuildEnds(w)
    /\ add_build_events({IF worker'[w] = "success" THEN "successes" ELSE "failures"})

Uncounted ==
    /\ \/ \E t \in Threads : \/ Validate(t) \/ Overloaded(t) \/ CheckQueue(t)
                             \/ Enqueue(t) \/ Respond(t)
       \/ \E w \in Workers : Dequeue(w) \/ Start(w) \/ Finish(w) \/ Crash(w)
       \/ \E id \in Ids : Get(id) \/ CleanOrphan(id) \/ Expire(id)
    /\ UNCHANGED count

StatsNext ==
    \/ \E t \in Threads, id \in Ids : CountPost(t, id)
    \/ CountAnonymous
    \/ \E t \in Threads : CountFound(t)
    \/ \E w \in Workers : CountBuild(w)
    \/ Uncounted

StatsSpec == StatsInit /\ [][StatsNext]_statsVars

-----------------------------------------------------------------------------
(* Properties *)

ToBuild  == {w \in Workers : worker[w] \in {"popped", "building"}}
Unsettled == {t \in Threads : pc[t] \in Window}

(* A build is paid for by a cache miss of its own: at any time the builds    *)
(* that have ended, those that are queued or running and the requests that   *)
(* may still become one are no more than the cache misses, also when POSTs   *)
(* race, when an id is queued twice and when workers die.                    *)
BuildsAccounted ==
    count["successes"] + count["failures"]
        + Len(queue) + Cardinality(ToBuild) + Cardinality(Unsettled)
            <= count["cache-misses"]

(* No request is both a hit and a miss, or either of them twice, and one     *)
(* that is still to be classified leaves room for its hit.                   *)
LookupsAccounted ==
    count["cache-hits"] + count["cache-misses"]
        + Cardinality({t \in Threads : pc[t] = "found"}) <= count["requests"]

Quiet ==
    /\ \A t \in Threads : pc[t] = "idle"
    /\ \A w \in Workers : worker[w] = "idle"
    /\ queue = <<>>
    /\ orphans = {}

(* The docstring of add_build_event: "cache-misses = successes + failures",  *)
(* taken when nothing is pending.                                            *)
MissesAreBuilds ==
    Quiet => count["cache-misses"] = count["successes"] + count["failures"]
===============================================================================
