-------------------------------- MODULE JobReply --------------------------------
(***************************************************************************)
(* How a job is reported to a client: api_v1_build_get and return_job_v1   *)
(* (asu/routers/api.py).  The handler asks Redis for the job's status      *)
(* again for each of is_failed, is_queued, is_started and is_finished, and *)
(* once more for the job's place in the queue or its result, while         *)
(* workers, RQ and other requests change the job.  If no branch is taken,  *)
(* or the result is not there, the handler raises and the client gets an   *)
(* internal error.                                                         *)
(***************************************************************************)
EXTENDS Integers, FiniteSets

CONSTANTS
    Readers,      \* threads of the web server that answer for the job
    MaxEnqueues,  \* bound of the model: times the job is queued
    MaxAhead      \* bound of the model: other jobs ahead of it in the queue

ASSUME JobReplyAssumption == MaxEnqueues \in Nat /\ MaxAhead \in Nat

VARIABLES
    status,       \* the status of the job in Redis, "absent" if there is no job
    result,       \* its latest result
    enqueues,     \* how often it has been queued
    position,     \* how many ids are ahead of its own in the queue
    waiting,      \* how many copies of its id are in the queue
    taken,        \* how many workers have taken it from there and not started it
    running,      \* how many workers have started it and not ended it
    raced,        \* {"raced"} if it was queued while a copy was left of an
                  \* earlier time, and copies are left
    pc,           \* each reader: the read it makes next
    reply,        \* what it has told its client, until it is asked again
    told,         \* the position in the queue it has told
    had,          \* history: what has become of the job since it was fetched,
                  \* until the answer
    places        \* history: its positions since then while its status was
                  \* "queued", until the last read that they matter to

copies  == <<waiting, taken, running, raced>>
job     == <<status, result, enqueues, position, copies>>
readers == <<pc, reply, told, had, places>>
vars    == <<job, readers>>

Statuses == {"absent", "queued", "started", "finished", "failed"}
Fates    == Statuses \cup {"queued again", "raced"}
Reads    == {"is_failed", "exc_string", "is_queued", "get_position", "is_started",
             "is_finished", "return_value"}
Replies  == {"none", "404", "500", "202 queued", "202 started", "200", "internal error"}

Listed   == 0..MaxAhead
Unlisted == -1
Places   == Listed \cup {Unlisted}

TypeOK ==
    /\ status \in Statuses
    /\ result \in {"none", "success", "failure"}
    /\ enqueues \in 0..MaxEnqueues
    /\ position \in Places
    /\ waiting \in Nat
    /\ taken \in Nat
    /\ running \in Nat
    /\ raced \in SUBSET {"raced"}
    /\ pc \in [Readers -> Reads \cup {"idle"}]
    /\ reply \in [Readers -> Replies]
    /\ told \in [Readers -> Listed]
    /\ had \in [Readers -> SUBSET Fates]
    /\ places \in [Readers -> SUBSET Places]

Init ==
    /\ status = "absent"
    /\ result = "none"
    /\ enqueues = 0
    /\ position = Unlisted
    /\ waiting = 0
    /\ taken = 0
    /\ running = 0
    /\ raced = {}
    /\ pc = [r \in Readers |-> "idle"]
    /\ reply = [r \in Readers |-> "none"]
    /\ told = [r \in Readers |-> 0]
    /\ had = [r \in Readers |-> {}]
    /\ places = [r \in Readers |-> {}]

-----------------------------------------------------------------------------
(* The job's life, which BuildJobs has in detail.  A job that two POSTs have *)
(* queued has copies that overwrite one another's status.                   *)

AskOfPlace == {"is_failed", "is_queued", "get_position"}

Becomes(new, place, what) ==
    /\ status' = new
    /\ position' = place
    /\ had' = [r \in Readers |-> IF pc[r] = "idle" THEN had[r] ELSE had[r] \cup what]
    /\ places' = [r \in Readers |->
                      IF pc[r] \in AskOfPlace /\ new = "queued"
                      THEN places[r] \cup {place} ELSE places[r]]
    /\ UNCHANGED <<pc, reply, told>>

(* The copies after a step; the race is over when none is left. *)
CopiesAre(w, t, n) ==
    /\ waiting' = w
    /\ taken' = t
    /\ running' = n
    /\ raced' = IF w + t + n > 0 THEN raced ELSE {}

(* A POST queues the job, one that raced it does so again, at any time. *)
Queue ==
    /\ enqueues < MaxEnqueues
    /\ enqueues' = enqueues + 1
    /\ waiting' = waiting + 1
    /\ raced' = IF waiting + taken + running > 0 THEN {"raced"} ELSE {}
    /\ \E place \in IF waiting > 0 THEN {position} ELSE Listed :
           Becomes("queued", place,
                   {IF status = "absent" THEN "queued" ELSE "queued again"} \cup raced')
    /\ UNCHANGED <<result, taken, running>>

(* A worker takes the job at the head of the queue: another one, *)
Advance ==
    /\ position > 0
    /\ Becomes(status, position - 1, {})
    /\ UNCHANGED <<result, enqueues, copies>>

(* or this one. *)
Dequeue ==
    /\ waiting > 0 /\ position = 0
    /\ CopiesAre(waiting - 1, taken + 1, running)
    /\ \E place \in IF waiting > 1 THEN Listed ELSE {Unlisted} : Becomes(status, place, {})
    /\ UNCHANGED <<result, enqueues>>

Start ==
    /\ taken > 0
    /\ status # "absent"
    /\ Becomes("started", position, {"started"})
    /\ CopiesAre(waiting, taken - 1, running + 1)
    /\ UNCHANGED <<result, enqueues>>

(* A worker that has taken the id of a job that is gone drops it. *)
Drop ==
    /\ taken > 0
    /\ status = "absent"
    /\ CopiesAre(waiting, taken - 1, running)
    /\ UNCHANGED <<status, result, enqueues, position, readers>>

(* RQ stores the result and the status in one transaction. *)
Succeed ==
    /\ running > 0
    /\ Becomes("finished", position, {"finished"})
    /\ result' = "success"
    /\ CopiesAre(waiting, taken, running - 1)
    /\ UNCHANGED enqueues

(* A build that raised, or whose worker died while it ran, *)
Fail ==
    /\ running > 0
    /\ Becomes("failed", position, {"failed"})
    /\ result' = "failure"
    /\ CopiesAre(waiting, taken, running - 1)
    /\ UNCHANGED enqueues

(* or had taken the job and not started it. *)
FailUnstarted ==
    /\ taken > 0
    /\ status # "absent"
    /\ Becomes("failed", position, {"failed"})
    /\ result' = "failure"
    /\ CopiesAre(waiting, taken - 1, running)
    /\ UNCHANGED enqueues

Expire ==
    /\ status \in {"finished", "failed"}
    /\ Becomes("absent", position, {"absent"})
    /\ result' = "none"
    /\ UNCHANGED <<enqueues, copies>>

JobMoves ==
    Queue \/ Advance \/ Dequeue \/ Start \/ Drop \/ Succeed \/ Fail \/ FailUnstarted \/ Expire

-----------------------------------------------------------------------------
(* The handler *)

Tell(r, answer) ==
    /\ pc' = [pc EXCEPT ![r] = "idle"]
    /\ reply' = [reply EXCEPT ![r] = answer]
    /\ had' = [had EXCEPT ![r] = {}]
    /\ places' = [places EXCEPT ![r] = {}]

Read(r, read) ==
    /\ pc' = [pc EXCEPT ![r] = read]
    /\ places' = IF read \in AskOfPlace THEN places ELSE [places EXCEPT ![r] = {}]
    /\ UNCHANGED <<reply, had>>

(* fetch_job *)
Fetch(r) ==
    /\ pc[r] = "idle"
    /\ pc' = [pc EXCEPT ![r] = IF status = "absent" THEN "idle" ELSE "is_failed"]
    /\ reply' = [reply EXCEPT ![r] = IF status = "absent" THEN "404" ELSE "none"]
    /\ told' = [told EXCEPT ![r] = 0]
    /\ had' = [had EXCEPT ![r] = IF status = "absent" THEN {} ELSE {status} \cup raced]
    /\ places' = [places EXCEPT ![r] = IF status = "queued" THEN {position} ELSE {}]
    /\ UNCHANGED job

(* One read of the status: the branch for it, or the next read.  RQ raises   *)
(* for a job that is gone.                                                   *)
Ask(r, read, wanted, branch, otherwise) ==
    /\ pc[r] = read
    /\ \/ status = "absent" /\ Tell(r, "internal error")
       \/ status = wanted /\ branch
       \/ status \notin {"absent", wanted} /\ otherwise
    /\ UNCHANGED <<job, told>>

\* Mutant of IsStarted: a started job is not recognised.
IsStartedDropped(r) ==
    Ask(r, "is_started", "finished", Read(r, "return_value"), Read(r, "is_finished"))

\* Mutant of IsQueued: the answer for a queued job has no status.
IsQueuedMute(r) ==
    Ask(r, "is_queued", "queued", Tell(r, "202"), Read(r, "is_started"))

IsFailed(r)   == Ask(r, "is_failed", "failed",
                     Read(r, "exc_string"), Read(r, "is_queued"))
IsQueued(r)   == Ask(r, "is_queued", "queued",
                     Read(r, "get_position"), Read(r, "is_started"))
IsStarted(r)  == Ask(r, "is_started", "started",
                     Tell(r, "202 started"), Read(r, "is_finished"))
IsFinished(r) == Ask(r, "is_finished", "finished",
                     Read(r, "return_value"), Tell(r, "internal error"))

\* Mutant of GetPosition: the position is counted from one.
GetPositionFromOne(r) ==
    /\ pc[r] = "get_position"
    /\ Tell(r, "202 queued")
    /\ told' = [told EXCEPT ![r] = position + 1]
    /\ UNCHANGED job

(* get_position() or 0: the queue is searched for the job's id, and 0 stands  *)
(* for its head and for an id that is not there any more alike.               *)
GetPosition(r) ==
    /\ pc[r] = "get_position"
    /\ Tell(r, "202 queued")
    /\ told' = [told EXCEPT ![r] = IF position = Unlisted THEN 0 ELSE position]
    /\ UNCHANGED job

(* latest_result().exc_string, which a success does not have. *)
ExcString(r) ==
    /\ pc[r] = "exc_string"
    /\ Tell(r, IF result = "failure" THEN "500" ELSE "internal error")
    /\ UNCHANGED <<job, told>>

(* return_value(), which a failure does not have. *)
ReturnValue(r) ==
    /\ pc[r] = "return_value"
    /\ Tell(r, IF result = "success" THEN "200" ELSE "internal error")
    /\ UNCHANGED <<job, told>>

Answering(r) ==
    \/ Fetch(r) \/ IsFailed(r) \/ IsQueued(r) \/ GetPosition(r) \/ IsStarted(r)
    \/ IsFinished(r) \/ ExcString(r) \/ ReturnValue(r)

Next ==
    \/ JobMoves
    \/ \E r \in Readers : Answering(r)

Spec == Init /\ [][Next]_vars

-----------------------------------------------------------------------------
(* Properties *)

Answers(r) == pc[r] # "idle" /\ pc'[r] = "idle"

(* The reads follow the life of a build that succeeds, so a client that polls *)
(* while its job is queued, started and finished never gets an internal       *)
(* error: it takes a job that failed, was queued again or expired during the  *)
(* reads, or one of two copies when the job was fetched.                      *)
SuccessIsSafe ==
    [][\A r \in Readers :
           Answers(r) /\ reply'[r] = "internal error" =>
               {"absent", "failed", "queued again", "raced"} \cap had[r] # {}]_vars

(* An answer was true of the job at some moment between the fetch and the     *)
(* answer: no client is told of an image or a failure that there was not.  A  *)
(* job in the queue is told with a position, which is read after the status.  *)
(* Both were true at one moment, if no other copy of the job is in a race     *)
(* with this one: the job was queued and at that position, or, if the client  *)
(* is told 0, a worker had just taken it and not started it.                  *)
AnswerWasTrue ==
    [][\A r \in Readers :
           Answers(r) =>
               /\ reply'[r] = "200"         => "finished" \in had[r]
               /\ reply'[r] = "500"         => "failed" \in had[r]
               /\ reply'[r] = "202 started" => "started" \in had[r]
               /\ reply'[r] = "202 queued"  =>
                      \/ "raced" \in had[r]
                      \/ told'[r] \in places[r]
                      \/ told'[r] = 0 /\ Unlisted \in places[r]]_vars
===============================================================================
