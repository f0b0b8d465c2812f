------------------------------- MODULE BuildJobs -------------------------------
(***************************************************************************)
(* The path of a build request through the server: the POST and GET        *)
(* handlers of asu/routers/api.py, run by the web server's thread pool,    *)
(* the RQ queue they share with the workers, and the job each worker runs  *)
(* (build() of asu/build.py).  A step is one access to Redis: whatever a   *)
(* handler read in an earlier step may have changed since.                 *)
(*                                                                         *)
(* A request is its hash (get_request_hash), the id of its RQ job.  How    *)
(* the request is validated and how the image is built are each one step   *)
(* with every outcome here.                                                *)
(***************************************************************************)
EXTENDS Naturals, Sequences, FiniteSets

CONSTANTS
    Ids,          \* request hashes, used as RQ job ids
    Threads,      \* threads of the web server
    Workers,      \* RQ worker processes
    NoId,         \* the job of a thread or a worker that has none
    MaxPending,   \* settings.max_pending_jobs
    MaxPosts,     \* bound of the model: POST requests in a behaviour
    MaxCrashes    \* bound of the model: worker crashes in a behaviour

ASSUME BuildJobsAssumption ==
    /\ NoId \notin Ids
    /\ IsFiniteSet(Threads)
    /\ IsFiniteSet(Workers)
    /\ MaxPending \in Nat
    /\ MaxPosts \in Nat
    /\ MaxCrashes \in Nat

VARIABLES
    job,          \* the status of each job in Redis, "absent" if there is none
    queue,        \* the RQ list: ids in the order workers take them
    pc, req,      \* each web thread: where it is in its handler, and for which id
    worker, held, \* each worker: what it is doing, and for which id
    orphans,      \* ids whose worker died: RQ's started registry still has them
    posts,        \* POST requests received so far
    crashes,      \* worker crashes so far
    served,       \* history: ids answered with an image and not expired since
    raced         \* history: ids for which two POSTs found no job at once

webVars    == <<pc, req>>
workVars   == <<worker, held, orphans, crashes>>
vars       == <<job, queue, pc, req, worker, held, orphans, posts, crashes,
                served, raced>>

JobStatus   == {"absent", "queued", "started", "finished", "failed"}
ThreadState == {"idle", "found", "validate", "check", "enqueue", "respond"}
WorkerState == {"idle", "popped", "building", "success", "failure"}

TypeOK ==
    /\ job \in [Ids -> JobStatus]
    /\ queue \in Seq(Ids)
    /\ pc \in [Threads -> ThreadState]
    /\ req \in [Threads -> Ids \cup {NoId}]
    /\ \A t \in Threads : req[t] = NoId <=> pc[t] = "idle"
    /\ worker \in [Workers -> WorkerState]
    /\ held \in [Workers -> Ids \cup {NoId}]
    /\ \A w \in Workers : held[w] = NoId <=> worker[w] = "idle"
    /\ orphans \in SUBSET Ids
    /\ posts \in Nat
    /\ crashes \in Nat
    /\ served \in SUBSET Ids
    /\ raced \in SUBSET Ids

Init ==
    /\ job = [id \in Ids |-> "absent"]
    /\ queue = <<>>
    /\ pc = [t \in Threads |-> "idle"]
    /\ req = [t \in Threads |-> NoId]
    /\ worker = [w \in Workers |-> "idle"]
    /\ held = [w \in Workers |-> NoId]
    /\ orphans = {}
    /\ posts = 0
    /\ crashes = 0
    /\ served = {}
    /\ raced = {}

-----------------------------------------------------------------------------
(* The web server *)

(* A thread that found no job for its request and has not settled it yet. *)
Window == {"validate", "check", "enqueue"}
InWindow(id) == {t \in Threads : pc[t] \in Window /\ req[t] = id}

Goto(t, state) == pc' = [pc EXCEPT ![t] = state] /\ UNCHANGED req

\* Mutant of Reply: the thread keeps the request it has answered.
ReplyKeepsRequest(t) ==
    /\ pc' = [pc EXCEPT ![t] = "idle"]
    /\ UNCHANGED req

Reply(t) ==
    /\ pc' = [pc EXCEPT ![t] = "idle"]
    /\ req' = [req EXCEPT ![t] = NoId]

(* An answer with status 200, the one that carries an image. *)
Answer(id) == served' = IF job[id] = "finished" THEN served \cup {id} ELSE served

\* Mutant of PostFetch: only a finished job answers a POST.
PostFetchUnfinished(t, id) ==
    /\ pc[t] = "idle"
    /\ posts < MaxPosts
    /\ posts' = posts + 1
    /\ pc' = [pc EXCEPT ![t] = IF job[id] # "finished" THEN "validate" ELSE "found"]
    /\ req' = [req EXCEPT ![t] = id]
    /\ raced' = IF job[id] = "absent" /\ InWindow(id) # {}
                THEN raced \cup {id} ELSE raced
    /\ UNCHANGED <<job, queue, workVars, served>>

\* Mutant of PostFetch: only a job that is still to end answers a POST.
PostFetchEnded(t, id) ==
    /\ pc[t] = "idle"
    /\ posts < MaxPosts
    /\ posts' = posts + 1
    /\ pc' = [pc EXCEPT ![t] = IF job[id] \notin {"queued", "started"}
                              THEN "validate" ELSE "found"]
    /\ req' = [req EXCEPT ![t] = id]
    /\ raced' = IF job[id] = "absent" /\ InWindow(id) # {}
                THEN raced \cup {id} ELSE raced
    /\ UNCHANGED <<job, queue, workVars, served>>

(* POST /build: count the request and look its job up.  A request whose    *)
(* job is known is answered from it, whatever its status.                  *)
PostFetch(t, id) ==
    /\ pc[t] = "idle"
    /\ posts < MaxPosts
    /\ posts' = posts + 1
    /\ pc' = [pc EXCEPT ![t] = IF job[id] = "absent" THEN "validate" ELSE "found"]
    /\ req' = [req EXCEPT ![t] = id]
    /\ raced' = IF job[id] = "absent" /\ InWindow(id) # {}
                THEN raced \cup {id} ELSE raced
    /\ UNCHANGED <<job, queue, workVars, served>>

(* A POST that names no client and has no User-Agent header: the handler     *)
(* raises when it has counted the request and looked its job up in vain or   *)
(* not, and nothing comes of it.                                             *)
PostAnonymous ==
    /\ posts < MaxPosts
    /\ posts' = posts + 1
    /\ UNCHANGED <<job, queue, webVars, workVars, served, raced>>

(* A known job: its status is read to count a cache hit, and nothing else. *)
Found(t) ==
    /\ pc[t] = "found"
    /\ Goto(t, "respond")
    /\ UNCHANGED <<job, queue, workVars, posts, served, raced>>

(* validate_request: a 400 answer or an error, or on to the queue. *)
Validate(t) ==
    /\ pc[t] = "validate"
    /\ Goto(t, "check") \/ Reply(t)
    /\ UNCHANGED <<job, queue, workVars, posts, served, raced>>

(* The queue is too long: a 529 answer. *)
Overloaded(t) ==
    /\ pc[t] = "check"
    /\ Len(queue) > MaxPending
    /\ Reply(t)
    /\ UNCHANGED <<job, queue, workVars, posts, served, raced>>

\* Mutant of CheckQueue: the queue's length is not looked at.
CheckNothing(t) ==
    /\ pc[t] = "check"
    /\ Goto(t, "enqueue")
    /\ UNCHANGED <<job, queue, workVars, posts, served, raced>>

CheckQueue(t) ==
    /\ pc[t] = "check"
    /\ ~(Len(queue) > MaxPending)
    /\ Goto(t, "enqueue")
    /\ UNCHANGED <<job, queue, workVars, posts, served, raced>>

(* Queue.enqueue with a job_id of the caller's choice: RQ writes the job's *)
(* record, over an older one if there is one, and appends the id.          *)
Enqueue(t) ==
    /\ pc[t] = "enqueue"
    /\ job' = [job EXCEPT ![req[t]] = "queued"]
    /\ queue' = Append(queue, req[t])
    /\ Goto(t, "respond")
    /\ UNCHANGED <<workVars, posts, served, raced>>

(* return_job_v1 at the end of the POST handler. *)
Respond(t) ==
    /\ pc[t] = "respond"
    /\ Answer(req[t])
    /\ Reply(t)
    /\ UNCHANGED <<job, queue, workVars, posts, raced>>

(* GET or HEAD /build/{request_hash}: it reads the job and changes nothing. *)
Get(id) ==
    /\ job[id] # "absent"
    /\ Answer(id)
    /\ UNCHANGED <<job, queue, webVars, workVars, posts, raced>>

-----------------------------------------------------------------------------
(* The workers *)

(* A worker takes the oldest id; one whose job is gone is dropped. *)
Dequeue(w) ==
    /\ worker[w] = "idle"
    /\ queue # <<>>
    /\ queue' = Tail(queue)
    /\ IF job[Head(queue)] = "absent"
       THEN UNCHANGED <<worker, held>>
       ELSE /\ worker' = [worker EXCEPT ![w] = "popped"]
            /\ held' = [held EXCEPT ![w] = Head(queue)]
    /\ UNCHANGED <<job, webVars, orphans, crashes, posts, served, raced>>

\* Mutant of Start: the job is built without being marked as started.
StartUnmarked(w) ==
    /\ worker[w] = "popped"
    /\ worker' = [worker EXCEPT ![w] = "building"]
    /\ UNCHANGED <<job, queue, webVars, held, orphans, crashes, posts, served, raced>>

Start(w) ==
    /\ worker[w] = "popped"
    /\ job' = [job EXCEPT ![held[w]] = "started"]
    /\ worker' = [worker EXCEPT ![w] = "building"]
    /\ UNCHANGED <<queue, webVars, held, orphans, crashes, posts, served, raced>>

(* build(): _build returns or raises, and build() records which. *)
BuildEnds(w) ==
    /\ worker[w] = "building"
    /\ \E outcome \in {"success", "failure"} :
           worker' = [worker EXCEPT ![w] = outcome]
    /\ UNCHANGED <<job, queue, webVars, held, orphans, crashes, posts, served, raced>>

\* Mutant of Finish: the job of a failed build stays as it is.
FinishSuccess(w) ==
    /\ worker[w] \in {"success", "failure"}
    /\ job' = [job EXCEPT ![held[w]] =
                  IF worker[w] = "success" THEN "finished" ELSE @]
    /\ worker' = [worker EXCEPT ![w] = "idle"]
    /\ held' = [held EXCEPT ![w] = NoId]
    /\ UNCHANGED <<queue, webVars, orphans, crashes, posts, served, raced>>

(* RQ stores the result, after build() has returned or raised. *)
Finish(w) ==
    /\ worker[w] \in {"success", "failure"}
    /\ job' = [job EXCEPT ![held[w]] =
                  IF worker[w] = "success" THEN "finished" ELSE "failed"]
    /\ worker' = [worker EXCEPT ![w] = "idle"]
    /\ held' = [held EXCEPT ![w] = NoId]
    /\ UNCHANGED <<queue, webVars, orphans, crashes, posts, served, raced>>

\* Mutant of Crash: the started registry forgets the dead worker's job.
CrashForgets(w) ==
    /\ worker[w] # "idle"
    /\ crashes < MaxCrashes
    /\ crashes' = crashes + 1
    /\ worker' = [worker EXCEPT ![w] = "idle"]
    /\ held' = [held EXCEPT ![w] = NoId]
    /\ UNCHANGED <<job, queue, orphans, webVars, posts, served, raced>>

(* The worker process dies and is started again. *)
Crash(w) ==
    /\ worker[w] # "idle"
    /\ crashes < MaxCrashes
    /\ crashes' = crashes + 1
    /\ orphans' = orphans \cup {held[w]}
    /\ worker' = [worker EXCEPT ![w] = "idle"]
    /\ held' = [held EXCEPT ![w] = NoId]
    /\ UNCHANGED <<job, queue, webVars, posts, served, raced>>

(* RQ's registry maintenance: a job whose worker died is failed. *)
CleanOrphan(id) ==
    /\ id \in orphans
    /\ orphans' = orphans \ {id}
    /\ job' = [job EXCEPT ![id] = IF @ = "absent" THEN @ ELSE "failed"]
    /\ UNCHANGED <<queue, webVars, worker, held, crashes, posts, served, raced>>

(* result_ttl or failure_ttl has passed.  Both are longer than job_timeout *)
(* so no worker still has the job in its hands.                            *)
Expire(id) ==
    /\ job[id] \in {"finished", "failed"}
    /\ \A w \in Workers : held[w] # id
    /\ job' = [job EXCEPT ![id] = "absent"]
    /\ served' = served \ {id}
    /\ UNCHANGED <<queue, webVars, workVars, posts, raced>>

-----------------------------------------------------------------------------
ThreadNext(t) ==
    \/ \E id \in Ids : PostFetch(t, id)
    \/ Found(t)
    \/ Validate(t)
    \/ Overloaded(t)
    \/ CheckQueue(t)
    \/ Enqueue(t)
    \/ Respond(t)

WorkerNext(w) ==
    \/ Dequeue(w)
    \/ Start(w)
    \/ BuildEnds(w)
    \/ Finish(w)
    \/ Crash(w)

Next ==
    \/ \E t \in Threads : ThreadNext(t)
    \/ PostAnonymous
    \/ \E w \in Workers : WorkerNext(w)
    \/ \E id \in Ids : Get(id) \/ CleanOrphan(id) \/ Expire(id)

Spec == Init /\ [][Next]_vars

(* The workers are services that are restarted when they stop, job_timeout *)
(* ends every build, and each worker runs the registry maintenance.        *)
WorkerFairness ==
    /\ \A w \in Workers : WF_vars(Dequeue(w)) /\ WF_vars(Start(w))
                       /\ WF_vars(BuildEnds(w)) /\ WF_vars(Finish(w))
    /\ \A id \in Ids : WF_vars(CleanOrphan(id))

FairSpec == Spec /\ WorkerFairness

-----------------------------------------------------------------------------
(* Properties *)

QueuedAt(id) == {i \in 1..Len(queue) : queue[i] = id}
Holders(id)  == {w \in Workers : held[w] = id}

(* The length check and the enqueue are two accesses to Redis, so the queue  *)
(* does grow past max_pending_jobs + 1, the length the check alone would     *)
(* allow; it never grows past one job per web thread above max_pending_jobs. *)
QueueBounded == Len(queue) <= MaxPending + Cardinality(Threads)

(* A job that a client is told to wait for is one that somebody will end: it *)
(* is in the queue, in a worker's hands, or registered as a dead worker's.   *)
JobOwned ==
    \A id \in Ids :
        job[id] \in {"queued", "started"} =>
            QueuedAt(id) # {} \/ Holders(id) # {} \/ id \in orphans

(* Looking a job up before queueing it keeps an image from being built twice *)
(* at a time: unless two POSTs of the id raced, the queue and the workers    *)
(* have at most one copy of it between them, and so does the started         *)
(* registry only when neither has one.                                       *)
SingleCopy ==
    \A id \in Ids \ raced :
        /\ \A i, j \in QueuedAt(id) : i = j
        /\ \A v, w \in Holders(id) : v = w
        /\ QueuedAt(id) = {} \/ Holders(id) = {}
        /\ id \in orphans => QueuedAt(id) = {} /\ Holders(id) = {}

(* What a client is told of a job is where the job is: unless POSTs of the   *)
(* id raced, an id in the queue or just taken from it shows as queued, one   *)
(* being built as started, a dead worker's as one of the two, and an id that *)
(* a thread is about to queue has no job at all.                             *)
StatusAgrees ==
    \A id \in Ids \ raced :
        /\ QueuedAt(id) # {} => job[id] = "queued"
        /\ \A w \in Holders(id) :
               job[id] = IF worker[w] = "popped" THEN "queued" ELSE "started"
        /\ id \in orphans => job[id] \in {"queued", "started"}
        /\ InWindow(id) # {} => job[id] = "absent"

(* An image that has been answered is not taken back: no POST, worker or     *)
(* registry cleanup touches its job until result_ttl removes it.             *)
ImagesKept ==
    [][\A id \in served \ raced :
           job'[id] = "finished" \/ (job'[id] = "absent" /\ id \notin served')]_vars

(* The README's words without the exemption for POSTs that raced: a cached   *)
(* image is served "without rebuilding".                                     *)
CachedNeverRebuilt ==
    [][\A id \in served : job'[id] \notin {"queued", "started"}]_vars

(* Nobody polls forever: every queued or started job ends, also when its     *)
(* worker dies and when the id was queued twice.                             *)
RequestsSettle ==
    \A id \in Ids :
        job[id] \in {"queued", "started"} ~> job[id] \in {"finished", "failed"}

(* The queue, the workers and the web threads together implement the         *)
(* promise: what is pending, built, failed or forgotten is the job's status. *)
ImageOfStatus ==
    [absent |-> "none", queued |-> "pending", started |-> "pending",
     finished |-> "built", failed |-> "failed"]

ImageOf ==
    [id \in Ids |-> IF id \in raced THEN "raced" ELSE ImageOfStatus[job[id]]]

Promise == INSTANCE BuildPromise WITH image <- ImageOf

(* Every step of the system is a step of the promise or none, and under the  *)
(* workers' fairness a pending image is eventually built or given up.        *)
KeepsPromise == Promise!Spec
===============================================================================
