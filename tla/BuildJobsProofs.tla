---------------------------- MODULE BuildJobsProofs ----------------------------
(***************************************************************************)
(* Theorems about BuildJobs, and BuildStats beside it, for every number of *)
(* ids, threads, workers, POSTs and crashes.                               *)
(***************************************************************************)
EXTENDS BuildStats, FiniteSetTheorems, SequenceTheorems, TLAPS

(* Every action keeps every variable of BuildJobs in its range, and a thread *)
(* or a worker has a request in its hands exactly when it is not idle.       *)
LEMMA TypeInductive == TypeOK /\ [Next]_vars => TypeOK'
<1> SUFFICES ASSUME TypeOK, [Next]_vars PROVE TypeOK'
    OBVIOUS
<1> USE BuildJobsAssumption DEF TypeOK, JobStatus, ThreadState, WorkerState
<1>1. ASSUME NEW t \in Threads, NEW id \in Ids, PostFetch(t, id)
      PROVE  TypeOK'
    BY <1>1 DEF PostFetch, workVars
<1>2. ASSUME NEW t \in Threads,
             Found(t) \/ Validate(t) \/ Overloaded(t) \/ CheckQueue(t)
      PROVE  TypeOK'
    BY <1>2 DEF Found, Validate, Overloaded, CheckQueue, Goto, Reply, workVars
<1>3. ASSUME NEW t \in Threads, Enqueue(t)
      PROVE  TypeOK'
    <2>1. req[t] \in Ids
        BY <1>3 DEF Enqueue
    <2> QED
        BY <1>3, <2>1 DEF Enqueue, Goto, workVars
<1>4. ASSUME NEW t \in Threads, Respond(t)
      PROVE  TypeOK'
    BY <1>4 DEF Respond, Answer, Reply, workVars
<1>5. ASSUME PostAnonymous \/ \E id \in Ids : Get(id)
      PROVE  TypeOK'
    BY <1>5 DEF PostAnonymous, Get, Answer, webVars, workVars
<1>6. ASSUME NEW w \in Workers, Dequeue(w)
      PROVE  TypeOK'
    <2>1. Head(queue) \in Ids /\ Tail(queue) \in Seq(Ids)
        BY <1>6 DEF Dequeue
    <2> QED
        BY <1>6, <2>1 DEF Dequeue, webVars
<1>7. ASSUME NEW w \in Workers, Start(w) \/ BuildEnds(w) \/ Finish(w) \/ Crash(w)
      PROVE  TypeOK'
    <2>1. held[w] \in Ids
        BY <1>7 DEF Start, BuildEnds, Finish, Crash
    <2> QED
        BY <1>7, <2>1 DEF Start, BuildEnds, Finish, Crash, webVars
<1>8. ASSUME NEW id \in Ids, CleanOrphan(id) \/ Expire(id)
      PROVE  TypeOK'
    BY <1>8 DEF CleanOrphan, Expire, webVars, workVars
<1>9. CASE UNCHANGED vars
    BY <1>9 DEF vars, webVars, workVars
<1> QED
    BY <1>1, <1>2, <1>3, <1>4, <1>5, <1>6, <1>7, <1>8, <1>9
    DEF Next, ThreadNext, WorkerNext

(* A behaviour of the server stays within the types of its variables. *)
THEOREM TypeCorrect == Spec => []TypeOK
<1>1. Init => TypeOK
    BY BuildJobsAssumption
    DEF Init, TypeOK, JobStatus, ThreadState, WorkerState
<1>2. TypeOK /\ [Next]_vars => TypeOK'
    BY TypeInductive
<1> QED
    BY <1>1, <1>2, PTL DEF Spec

-----------------------------------------------------------------------------
(* The queue *)

Enqueuers == {t \in Threads : pc[t] = "enqueue"}

(* A thread that has passed the length check has a place of its own above    *)
(* max_pending_jobs: QueueBounded, made inductive.                           *)
Admitted ==
    Len(queue) + Cardinality(Enqueuers) <= MaxPending + Cardinality(Threads)

LEMMA EnqueuersFinite ==
    /\ IsFiniteSet(Enqueuers) /\ Cardinality(Enqueuers) \in Nat
    /\ Cardinality(Enqueuers) <= Cardinality(Threads)
    /\ Cardinality(Threads) \in Nat
<1>1. Enqueuers \subseteq Threads /\ IsFiniteSet(Threads)
    BY BuildJobsAssumption DEF Enqueuers
<1> QED
    BY <1>1, FS_Subset, FS_CardinalityType

LEMMA EnqueuersFinitePrime ==
    /\ IsFiniteSet(Enqueuers') /\ Cardinality(Enqueuers') \in Nat
    /\ Cardinality(Enqueuers') <= Cardinality(Threads)
<1>1. Enqueuers' \subseteq Threads /\ IsFiniteSet(Threads)
    BY BuildJobsAssumption DEF Enqueuers
<1> QED
    BY <1>1, FS_Subset, FS_CardinalityType

(* A step that neither lengthens the queue nor admits a thread. *)
LEMMA AdmittedKept ==
    ASSUME TypeOK, TypeOK', Admitted, Len(queue') <= Len(queue), Enqueuers' \subseteq Enqueuers
    PROVE  Admitted'
<1>1. Cardinality(Enqueuers') <= Cardinality(Enqueuers)
    BY EnqueuersFinite, FS_Subset
<1>2. Len(queue) \in Nat /\ Len(queue') \in Nat
    BY DEF TypeOK
<1> QED
    BY <1>1, <1>2, EnqueuersFinite, EnqueuersFinitePrime, BuildJobsAssumption DEF Admitted

LEMMA AdmittedInductive ==
    TypeOK /\ TypeOK' /\ Admitted /\ [Next]_vars => Admitted'
<1> SUFFICES ASSUME TypeOK, TypeOK', Admitted, [Next]_vars PROVE Admitted'
    OBVIOUS
<1>0. Len(queue) \in Nat /\ Len(queue') \in Nat
    BY DEF TypeOK
<1>1. ASSUME NEW t \in Threads, CheckQueue(t)
      PROVE  Admitted'
    <2>1. Len(queue') <= MaxPending
        BY <1>0, <1>1, BuildJobsAssumption DEF CheckQueue
    <2> QED
        BY <1>0, <2>1, EnqueuersFinite, EnqueuersFinitePrime, BuildJobsAssumption
        DEF Admitted
<1>2. ASSUME NEW t \in Threads, Enqueue(t)
      PROVE  Admitted'
    <2>1. Len(queue') = Len(queue) + 1
        BY <1>2 DEF Enqueue, TypeOK
    <2>2. t \in Enqueuers /\ Enqueuers' = Enqueuers \ {t}
        BY <1>2 DEF Enqueue, Goto, Enqueuers, TypeOK
    <2>3. Cardinality(Enqueuers') = Cardinality(Enqueuers) - 1
        BY <2>2, EnqueuersFinite, FS_RemoveElement
    <2> QED
        BY <1>0, <2>1, <2>3, EnqueuersFinite, BuildJobsAssumption DEF Admitted
<1>3. ASSUME NEW w \in Workers, Dequeue(w)
      PROVE  Admitted'
    <2>1. Len(queue') <= Len(queue)
        BY <1>3 DEF Dequeue, TypeOK
    <2>2. Enqueuers' \subseteq Enqueuers
        BY <1>3 DEF Dequeue, webVars, Enqueuers
    <2> QED
        BY <2>1, <2>2, AdmittedKept
<1>4. ASSUME NEW t \in Threads,
             \/ \E id \in Ids : PostFetch(t, id)
             \/ Found(t) \/ Validate(t) \/ Overloaded(t) \/ Respond(t)
      PROVE  Admitted'
    <2>1. Len(queue') <= Len(queue)
        BY <1>0, <1>4 DEF PostFetch, Found, Validate, Overloaded, Respond
    <2>2. Enqueuers' \subseteq Enqueuers
        BY <1>4 DEF PostFetch, Found, Validate, Overloaded, Respond, Goto, Reply,
                    Enqueuers, TypeOK
    <2> QED
        BY <2>1, <2>2, AdmittedKept
<1>5. ASSUME \/ \E w \in Workers : Start(w) \/ BuildEnds(w) \/ Finish(w) \/ Crash(w)
             \/ PostAnonymous \/ \E id \in Ids : Get(id) \/ CleanOrphan(id) \/ Expire(id)
             \/ UNCHANGED vars
      PROVE  Admitted'
    <2>1. queue' = queue /\ pc' = pc
        BY <1>5 DEF Start, BuildEnds, Finish, Crash, Get, CleanOrphan, Expire,
                    PostAnonymous, webVars, vars
    <2> QED
        BY <1>0, <2>1, AdmittedKept DEF Enqueuers
<1> QED
    BY <1>1, <1>2, <1>3, <1>4, <1>5 DEF Next, ThreadNext, WorkerNext

(* However the web threads interleave the length check and the enqueue, the  *)
(* queue is never longer than max_pending_jobs and one job for each thread.  *)
THEOREM QueueBoundedAlways == Spec => []QueueBounded
<1>1. Init => Admitted
    <2> SUFFICES ASSUME Init PROVE Admitted
        OBVIOUS
    <2>1. Enqueuers = {} /\ Len(queue) = 0
        BY DEF Init, Enqueuers
    <2> QED
        BY <2>1, FS_EmptySet, EnqueuersFinite, BuildJobsAssumption DEF Admitted
<1>2. TypeOK /\ Admitted => QueueBounded
    BY EnqueuersFinite, BuildJobsAssumption DEF Admitted, QueueBounded, TypeOK
<1> QED
    BY <1>1, <1>2, TypeCorrect, AdmittedInductive, PTL DEF Spec

-----------------------------------------------------------------------------
(* The copies of a job *)

(* Appending an id adds one place for it, and none for another id. *)
LEMMA PlacesAppended ==
    ASSUME TypeOK, NEW x \in Ids, queue' = Append(queue, x), NEW id \in Ids
    PROVE  QueuedAt(id)' = IF id = x THEN QueuedAt(id) \cup {Len(queue) + 1}
                                     ELSE QueuedAt(id)
    BY DEF TypeOK, QueuedAt

(* Taking the first id of the queue moves every other one forward. *)
LEMMA PlacesPopped ==
    ASSUME TypeOK, queue # <<>>, queue' = Tail(queue), NEW id \in Ids
    PROVE  /\ \A i \in QueuedAt(id)' : i + 1 \in QueuedAt(id) /\ i \in Nat
           /\ \A i \in QueuedAt(id) : i \in Nat /\ (i = 1 \/ i - 1 \in QueuedAt(id)')
           /\ 1 \in QueuedAt(id) <=> Head(queue) = id
           /\ Head(queue) \in Ids
    BY DEF TypeOK, QueuedAt

(* JobOwned is inductive: whoever lets go of a job ends it or hands it on. *)
LEMMA JobOwnedInductive ==
    TypeOK /\ TypeOK' /\ JobOwned /\ [Next]_vars => JobOwned'
<1> SUFFICES ASSUME TypeOK, TypeOK', JobOwned, [Next]_vars,
                    NEW id \in Ids, job'[id] \in {"queued", "started"}
             PROVE  (QueuedAt(id) # {} \/ Holders(id) # {} \/ id \in orphans)'
    BY DEF JobOwned
<1> USE DEF JobOwned
<1>1. ASSUME NEW t \in Threads, Enqueue(t)
      PROVE  (QueuedAt(id) # {} \/ Holders(id) # {} \/ id \in orphans)'
    <2>1. req[t] \in Ids
        BY <1>1 DEF Enqueue, TypeOK
    <2>2. QueuedAt(id)' = IF id = req[t] THEN QueuedAt(id) \cup {Len(queue) + 1}
                                         ELSE QueuedAt(id)
        BY <1>1, <2>1, PlacesAppended DEF Enqueue
    <2>3. CASE id = req[t]
        BY <2>2, <2>3
    <2>4. CASE id # req[t]
        <3>1. job'[id] = job[id]
            BY <1>1, <2>1, <2>4 DEF Enqueue, TypeOK
        <3>2. Holders(id)' = Holders(id) /\ orphans' = orphans
            BY <1>1 DEF Enqueue, workVars, Holders
        <3> QED
            BY <2>2, <2>4, <3>1, <3>2
    <2> QED
        BY <2>3, <2>4
<1>2. ASSUME NEW w \in Workers, Dequeue(w)
      PROVE  (QueuedAt(id) # {} \/ Holders(id) # {} \/ id \in orphans)'
    <2>1. /\ \A i \in QueuedAt(id) : i \in Nat /\ (i = 1 \/ i - 1 \in QueuedAt(id)')
          /\ 1 \in QueuedAt(id) <=> Head(queue) = id
        BY <1>2, PlacesPopped DEF Dequeue
    <2>2. job' = job /\ orphans' = orphans
        BY <1>2 DEF Dequeue
    <2>3. CASE Head(queue) = id
        <3>1. job[id] # "absent"
            BY <2>2
        <3>2. held' = [held EXCEPT ![w] = id]
            BY <1>2, <2>3, <3>1 DEF Dequeue
        <3>3. w \in Holders(id)'
            BY <3>2 DEF Holders, TypeOK
        <3> QED
            BY <3>3
    <2>4. CASE Head(queue) # id
        <3>1. Holders(id) \subseteq Holders(id)'
            <4>1. held[w] = NoId /\ id # NoId
                BY <1>2, BuildJobsAssumption DEF Dequeue, TypeOK
            <4> QED
                BY <1>2, <2>4, <4>1 DEF Dequeue, Holders, TypeOK
        <3>2. QueuedAt(id) # {} => QueuedAt(id)' # {}
            BY <2>1, <2>4
        <3> QED
            BY <2>2, <3>1, <3>2
    <2> QED
        BY <2>3, <2>4
<1>3. ASSUME NEW w \in Workers, Start(w) \/ BuildEnds(w) \/ Finish(w) \/ Crash(w)
      PROVE  (QueuedAt(id) # {} \/ Holders(id) # {} \/ id \in orphans)'
    <2>1. held[w] \in Ids /\ QueuedAt(id)' = QueuedAt(id)
        BY <1>3 DEF Start, BuildEnds, Finish, Crash, TypeOK, QueuedAt
    <2>2. CASE Start(w) \/ BuildEnds(w)
        <3>1. Holders(id)' = Holders(id) /\ orphans' = orphans
            BY <2>2 DEF Start, BuildEnds, Holders
        <3>2. id = held[w] => Holders(id) # {}
            BY DEF Holders
        <3>3. id # held[w] => job'[id] = job[id]
            BY <2>1, <2>2 DEF Start, BuildEnds, TypeOK
        <3> QED
            BY <2>1, <3>1, <3>2, <3>3
    <2>3. CASE Finish(w)
        <3>1. id # held[w] /\ job'[id] = job[id]
            BY <2>1, <2>3 DEF Finish, TypeOK
        <3>2. Holders(id)' = Holders(id) /\ orphans' = orphans
            BY <2>3, <3>1, BuildJobsAssumption DEF Finish, Holders, TypeOK
        <3> QED
            BY <2>1, <3>1, <3>2
    <2>4. CASE Crash(w)
        BY <2>1, <2>4 DEF Crash, Holders, TypeOK
    <2> QED
        BY <1>3, <2>2, <2>3, <2>4
<1>4. ASSUME NEW x \in Ids, CleanOrphan(x) \/ Expire(x) \/ Get(x)
      PROVE  (QueuedAt(id) # {} \/ Holders(id) # {} \/ id \in orphans)'
    BY <1>4 DEF CleanOrphan, Expire, Get, webVars, workVars, QueuedAt, Holders, TypeOK
<1>5. ASSUME \/ \E t \in Threads : \/ \E x \in Ids : PostFetch(t, x)
                                   \/ Found(t) \/ Validate(t) \/ Overloaded(t)
                                   \/ CheckQueue(t) \/ Respond(t)
             \/ PostAnonymous \/ UNCHANGED vars
      PROVE  (QueuedAt(id) # {} \/ Holders(id) # {} \/ id \in orphans)'
    <2>1. UNCHANGED <<job, queue, held, orphans>>
        BY <1>5 DEF PostFetch, Found, Validate, Overloaded, CheckQueue, Respond,
                    PostAnonymous, workVars, vars
    <2> QED
        BY <2>1 DEF QueuedAt, Holders
<1> QED
    BY <1>1, <1>2, <1>3, <1>4, <1>5 DEF Next, ThreadNext, WorkerNext

(* No job is ever told to wait for nobody, whatever dies and whatever races. *)
THEOREM JobOwnedAlways == Spec => []JobOwned
<1>1. Init => JobOwned
    BY DEF Init, JobOwned
<1> QED
    BY <1>1, TypeCorrect, JobOwnedInductive, PTL DEF Spec

-----------------------------------------------------------------------------
(* Requests that never raced *)

(* SingleCopy and StatusAgrees for one id, made inductive: at most one       *)
(* thread is about to queue it, and an image that was answered is there.     *)
Exclusive(id) ==
    /\ \A i, j \in QueuedAt(id) : i = j
    /\ \A v, w \in Holders(id) : v = w
    /\ QueuedAt(id) # {} => Holders(id) = {} /\ id \notin orphans /\ job[id] = "queued"
    /\ \A w \in Holders(id) :
           /\ job[id] = IF worker[w] = "popped" THEN "queued" ELSE "started"
           /\ id \notin orphans
    /\ id \in orphans => job[id] \in {"queued", "started"}
    /\ InWindow(id) # {} => job[id] = "absent"
    /\ \A t, u \in InWindow(id) : t = u
    /\ id \in served => job[id] = "finished"

AllExclusive == \A id \in Ids \ raced : Exclusive(id)

(* What an id that no thread, queue or worker touches keeps. *)
LEMMA ExclusiveKept ==
    ASSUME NEW id \in Ids, Exclusive(id),
           QueuedAt(id)' = QueuedAt(id), Holders(id)' = Holders(id),
           \A w \in Holders(id) : worker'[w] = "popped" <=> worker[w] = "popped",
           InWindow(id)' \subseteq InWindow(id),
           job'[id] = job[id], id \in orphans' => id \in orphans,
           id \in served' => id \in served \/ job[id] = "finished"
    PROVE  Exclusive(id)'
    BY DEF Exclusive

LEMMA AllExclusiveInductive ==
    TypeOK /\ TypeOK' /\ AllExclusive /\ [Next]_vars => AllExclusive'
<1> SUFFICES ASSUME TypeOK, TypeOK', AllExclusive, [Next]_vars,
                    NEW id \in Ids, id \notin raced'
             PROVE  Exclusive(id)'
    BY DEF AllExclusive
<1>0. Exclusive(id) /\ id # NoId
    <2>1. raced \subseteq raced'
        BY DEF Next, ThreadNext, WorkerNext, PostFetch, PostAnonymous, Found, Validate, Overloaded,
               CheckQueue, Enqueue, Respond, Get, Dequeue, Start, BuildEnds, Finish,
               Crash, CleanOrphan, Expire, vars
    <2> QED
        BY <2>1, BuildJobsAssumption DEF AllExclusive
<1>1. ASSUME NEW t \in Threads, NEW x \in Ids, PostFetch(t, x)
      PROVE  Exclusive(id)'
    <2>1. /\ QueuedAt(id)' = QueuedAt(id) /\ Holders(id)' = Holders(id)
          /\ job' = job /\ worker' = worker /\ orphans' = orphans /\ served' = served
        BY <1>1 DEF PostFetch, workVars, QueuedAt, Holders
    <2>2. CASE id = x /\ job[id] = "absent"
        <3>1. InWindow(id) = {}
            BY <1>1, <2>2 DEF PostFetch, TypeOK
        <3>2. InWindow(id)' \subseteq {t}
            BY <1>1, <2>2, <3>1 DEF PostFetch, InWindow, TypeOK
        <3> QED
            BY <1>0, <2>1, <2>2, <3>2 DEF Exclusive
    <2>3. CASE ~(id = x /\ job[id] = "absent")
        <3>1. InWindow(id)' \subseteq InWindow(id)
            BY <1>1, <2>3 DEF PostFetch, InWindow, Window, TypeOK
        <3> QED
            BY <1>0, <2>1, <3>1, ExclusiveKept
    <2> QED
        BY <2>2, <2>3
<1>2. ASSUME NEW t \in Threads,
             Found(t) \/ Validate(t) \/ Overloaded(t) \/ CheckQueue(t) \/ Respond(t)
      PROVE  Exclusive(id)'
    <2>1. /\ QueuedAt(id)' = QueuedAt(id) /\ Holders(id)' = Holders(id)
          /\ job' = job /\ worker' = worker /\ orphans' = orphans
        BY <1>2 DEF Found, Validate, Overloaded, CheckQueue, Respond, workVars,
                    QueuedAt, Holders
    <2>2. id \in served' => id \in served \/ job[id] = "finished"
        BY <1>2 DEF Found, Validate, Overloaded, CheckQueue, Respond, Answer
    <2>3. InWindow(id)' \subseteq InWindow(id)
        BY <1>0, <1>2 DEF Found, Validate, Overloaded, CheckQueue, Respond, Goto, Reply,
                          InWindow, Window, TypeOK
    <2> QED
        BY <1>0, <2>1, <2>2, <2>3, ExclusiveKept
<1>3. ASSUME NEW t \in Threads, Enqueue(t)
      PROVE  Exclusive(id)'
    <2>1. req[t] \in Ids /\ t \in InWindow(req[t])
        BY <1>3 DEF Enqueue, TypeOK, InWindow, Window
    <2>2. /\ Holders(id)' = Holders(id) /\ worker' = worker /\ orphans' = orphans
          /\ served' = served
        BY <1>3 DEF Enqueue, workVars, Holders
    <2>3. InWindow(id)' = InWindow(id) \ {t}
        BY <1>3 DEF Enqueue, Goto, InWindow, Window, TypeOK
    <2>4. QueuedAt(id)' = IF id = req[t] THEN QueuedAt(id) \cup {Len(queue) + 1}
                                         ELSE QueuedAt(id)
        BY <1>3, <2>1, PlacesAppended DEF Enqueue
    <2>5. CASE id = req[t]
        <3>1. InWindow(id) = {t} /\ job[id] = "absent"
            BY <1>0, <2>1, <2>5 DEF Exclusive
        <3>2. QueuedAt(id) = {} /\ Holders(id) = {} /\ id \notin orphans /\ id \notin served
            BY <1>0, <3>1 DEF Exclusive
        <3>3. QueuedAt(id)' = {Len(queue) + 1} /\ InWindow(id)' = {}
            BY <2>3, <2>4, <2>5, <3>1, <3>2
        <3>4. job'[id] = "queued"
            BY <1>3, <2>5 DEF Enqueue, TypeOK
        <3> QED
            BY <2>2, <3>2, <3>3, <3>4 DEF Exclusive
    <2>6. CASE id # req[t]
        <3>1. job'[id] = job[id]
            BY <1>3, <2>6 DEF Enqueue, TypeOK
        <3> QED
            BY <1>0, <2>2, <2>3, <2>4, <2>6, <3>1, ExclusiveKept
    <2> QED
        BY <2>5, <2>6
<1>4. ASSUME PostAnonymous \/ \E x \in Ids : Get(x)
      PROVE  Exclusive(id)'
    <2>1. /\ QueuedAt(id)' = QueuedAt(id) /\ Holders(id)' = Holders(id)
          /\ InWindow(id)' = InWindow(id)
          /\ job' = job /\ worker' = worker /\ orphans' = orphans
          /\ id \in served' => id \in served \/ job[id] = "finished"
        BY <1>4 DEF PostAnonymous, Get, Answer, webVars, workVars, QueuedAt, Holders, InWindow
    <2> QED
        BY <1>0, <2>1, ExclusiveKept
<1>5. ASSUME NEW w \in Workers, Dequeue(w)
      PROVE  Exclusive(id)'
    <2>1. /\ \A i \in QueuedAt(id)' : i + 1 \in QueuedAt(id) /\ i \in Nat
          /\ 1 \in QueuedAt(id) <=> Head(queue) = id
        BY <1>5, PlacesPopped DEF Dequeue
    <2>2. /\ job' = job /\ orphans' = orphans /\ served' = served
          /\ InWindow(id)' = InWindow(id)
        BY <1>5 DEF Dequeue, webVars, InWindow
    <2>3. held[w] = NoId
        BY <1>5 DEF Dequeue, TypeOK
    <2>4. CASE Head(queue) = id
        <3>1. job[id] = "queued" /\ Holders(id) = {} /\ id \notin orphans
            BY <1>0, <2>1, <2>4 DEF Exclusive
        <3>2. QueuedAt(id)' = {}
            <4>1. \A i \in QueuedAt(id)' : i + 1 = 1 /\ i \in Nat
                BY <1>0, <2>1, <2>4 DEF Exclusive
            <4>2. \A i \in QueuedAt(id)' : i # 0
                BY DEF QueuedAt, TypeOK
            <4> QED
                BY <4>1, <4>2
        <3>3. /\ worker' = [worker EXCEPT ![w] = "popped"]
              /\ held' = [held EXCEPT ![w] = id]
            BY <1>5, <2>4, <3>1 DEF Dequeue
        <3>4. Holders(id)' = {w} /\ worker'[w] = "popped"
            BY <3>1, <3>3 DEF Holders, TypeOK
        <3>5. id \notin served /\ InWindow(id) = {}
            BY <1>0, <3>1 DEF Exclusive
        <3> QED
            BY <2>2, <3>1, <3>2, <3>4, <3>5 DEF Exclusive
    <2>5. CASE Head(queue) # id
        <3>1. Holders(id)' = Holders(id) /\ w \notin Holders(id)
            BY <1>0, <1>5, <2>3, <2>5 DEF Dequeue, Holders, TypeOK
        <3>2. \A v \in Holders(id) : worker'[v] = worker[v]
            BY <1>5, <3>1 DEF Dequeue, Holders, TypeOK
        <3>3. /\ \A i, j \in QueuedAt(id)' : i = j
              /\ QueuedAt(id)' # {} => QueuedAt(id) # {}
            BY <1>0, <2>1 DEF Exclusive
        <3> QED
            BY <1>0, <2>2, <3>1, <3>2, <3>3 DEF Exclusive
    <2> QED
        BY <2>4, <2>5
<1>6. ASSUME NEW w \in Workers, Start(w) \/ BuildEnds(w)
      PROVE  Exclusive(id)'
    <2>1. /\ QueuedAt(id)' = QueuedAt(id) /\ Holders(id)' = Holders(id)
          /\ InWindow(id)' = InWindow(id) /\ orphans' = orphans /\ served' = served
        BY <1>6 DEF Start, BuildEnds, webVars, QueuedAt, Holders, InWindow
    <2>2. held[w] \in Ids /\ \A v \in Workers \ {w} : worker'[v] = worker[v]
        BY <1>6 DEF Start, BuildEnds, TypeOK
    <2>3. CASE id = held[w]
        <3>1. Holders(id) = {w}
            BY <1>0, <2>3 DEF Exclusive, Holders
        <3>2. worker'[w] # "popped" /\ job'[id] = "started"
            BY <1>0, <1>6, <2>3, <3>1 DEF Start, BuildEnds, Exclusive, TypeOK
        <3>3. /\ job[id] \in {"queued", "started"} /\ QueuedAt(id) = {}
              /\ id \notin orphans /\ InWindow(id) = {} /\ id \notin served
            BY <1>0, <3>1 DEF Exclusive
        <3> QED
            BY <2>1, <3>1, <3>2, <3>3 DEF Exclusive
    <2>4. CASE id # held[w]
        <3>1. job'[id] = job[id]
            BY <1>6, <2>2, <2>4 DEF Start, BuildEnds, TypeOK
        <3>2. \A v \in Holders(id) : worker'[v] = worker[v]
            BY <2>2, <2>4 DEF Holders
        <3> QED
            BY <1>0, <2>1, <3>1, <3>2, ExclusiveKept
    <2> QED
        BY <2>3, <2>4
<1>7. ASSUME NEW w \in Workers, Finish(w) \/ Crash(w)
      PROVE  Exclusive(id)'
    <2>1. /\ QueuedAt(id)' = QueuedAt(id) /\ InWindow(id)' = InWindow(id)
          /\ served' = served
        BY <1>7 DEF Finish, Crash, webVars, QueuedAt, InWindow
    <2>2. /\ held[w] \in Ids /\ Holders(id)' = Holders(id) \ {w}
          /\ \A v \in Workers \ {w} : worker'[v] = worker[v]
        BY <1>0, <1>7 DEF Finish, Crash, Holders, TypeOK
    <2>3. CASE id = held[w]
        <3>1. Holders(id) = {w} /\ Holders(id)' = {}
            BY <1>0, <2>2, <2>3 DEF Exclusive, Holders
        <3>2. /\ job[id] \in {"queued", "started"} /\ QueuedAt(id) = {}
              /\ id \notin orphans /\ InWindow(id) = {} /\ id \notin served
            BY <1>0, <3>1 DEF Exclusive
        <3>3. CASE Finish(w)
            BY <2>1, <3>1, <3>2, <3>3 DEF Finish, Exclusive
        <3>4. CASE Crash(w)
            BY <2>1, <3>1, <3>2, <3>4 DEF Crash, Exclusive
        <3> QED
            BY <1>7, <3>3, <3>4
    <2>4. CASE id # held[w]
        <3>1. Holders(id)' = Holders(id) /\ w \notin Holders(id)
            BY <2>2, <2>4 DEF Holders
        <3>2. job'[id] = job[id] /\ (id \in orphans' => id \in orphans)
            BY <1>7, <2>2, <2>4 DEF Finish, Crash, TypeOK
        <3>3. \A v \in Holders(id) : worker'[v] = worker[v]
            BY <2>2, <3>1 DEF Holders
        <3> QED
            BY <1>0, <2>1, <3>1, <3>2, <3>3, ExclusiveKept
    <2> QED
        BY <2>3, <2>4
<1>8. ASSUME NEW x \in Ids, CleanOrphan(x) \/ Expire(x)
      PROVE  Exclusive(id)'
    <2>1. /\ QueuedAt(id)' = QueuedAt(id) /\ Holders(id)' = Holders(id)
          /\ InWindow(id)' = InWindow(id) /\ worker' = worker
        BY <1>8 DEF CleanOrphan, Expire, webVars, workVars, QueuedAt, Holders, InWindow
    <2>2. CASE id = x
        <3>1. /\ QueuedAt(id) = {} /\ Holders(id) = {} /\ id \notin orphans'
              /\ id \notin served' /\ (InWindow(id) = {} \/ job'[id] = "absent")
            BY <1>0, <1>8, <2>2 DEF CleanOrphan, Expire, workVars, Exclusive, TypeOK
        <3> QED
            BY <1>0, <2>1, <3>1 DEF Exclusive
    <2>3. CASE id # x
        <3>1. /\ job'[id] = job[id] /\ (id \in orphans' => id \in orphans)
              /\ (id \in served' => id \in served)
            BY <1>8, <2>3 DEF CleanOrphan, Expire, workVars, TypeOK
        <3> QED
            BY <1>0, <2>1, <3>1, ExclusiveKept
    <2> QED
        BY <2>2, <2>3
<1>9. CASE UNCHANGED vars
    BY <1>0, <1>9 DEF vars, webVars, workVars, Exclusive, QueuedAt, Holders, InWindow
<1> QED
    BY <1>1, <1>2, <1>3, <1>4, <1>5, <1>6, <1>7, <1>8, <1>9
    DEF Next, ThreadNext, WorkerNext

LEMMA AllExclusiveAlways == Spec => []AllExclusive
<1>1. Init => AllExclusive
    <2> SUFFICES ASSUME Init, NEW id \in Ids PROVE Exclusive(id)
        BY DEF AllExclusive
    <2>1. QueuedAt(id) = {} /\ Holders(id) = {} /\ InWindow(id) = {}
        BY BuildJobsAssumption DEF Init, QueuedAt, Holders, InWindow, Window
    <2> QED
        BY <2>1 DEF Init, Exclusive
<1> QED
    BY <1>1, TypeCorrect, AllExclusiveInductive, PTL DEF Spec

(* Unless two POSTs of an id raced, it is at most once in the queue and the  *)
(* workers' hands together, whatever the threads, crashes and expiries do.   *)
THEOREM SingleCopyAlways == Spec => []SingleCopy
<1>1. AllExclusive => SingleCopy
    BY DEF AllExclusive, Exclusive, SingleCopy
<1> QED
    BY <1>1, AllExclusiveAlways, PTL

(* Unless two POSTs of an id raced, its status says where its job is. *)
THEOREM StatusAgreesAlways == Spec => []StatusAgrees
<1>1. AllExclusive => StatusAgrees
    BY DEF AllExclusive, Exclusive, StatusAgrees
<1> QED
    BY <1>1, AllExclusiveAlways, PTL

(* A finished job keeps its status in every step but its expiry. *)
LEMMA FinishedKept ==
    ASSUME TypeOK, [Next]_vars, NEW id \in Ids, Exclusive(id), job[id] = "finished"
    PROVE  job'[id] = "finished" \/ (job'[id] = "absent" /\ id \notin served')
<1>0. Holders(id) = {} /\ InWindow(id) = {} /\ id \notin orphans
    BY DEF Exclusive
<1>1. ASSUME NEW t \in Threads, Enqueue(t)
      PROVE  job'[id] = "finished"
    <2>1. t \in InWindow(req[t]) /\ req[t] \in Ids
        BY <1>1 DEF Enqueue, InWindow, Window, TypeOK
    <2> QED
        BY <1>0, <1>1, <2>1 DEF Enqueue, TypeOK
<1>2. ASSUME NEW w \in Workers, Start(w) \/ Finish(w)
      PROVE  job'[id] = "finished"
    <2>1. held[w] # id
        BY <1>0 DEF Holders
    <2> QED
        BY <1>2, <2>1 DEF Start, Finish, TypeOK
<1>3. ASSUME NEW x \in Ids, CleanOrphan(x) \/ Expire(x)
      PROVE  job'[id] = "finished" \/ (job'[id] = "absent" /\ id \notin served')
    BY <1>0, <1>3 DEF CleanOrphan, Expire, TypeOK
<1>4. ASSUME \/ \E t \in Threads : \/ \E x \in Ids : PostFetch(t, x)
                                   \/ Found(t) \/ Validate(t) \/ Overloaded(t)
                                   \/ CheckQueue(t) \/ Respond(t)
             \/ \E w \in Workers : Dequeue(w) \/ BuildEnds(w) \/ Crash(w)
             \/ PostAnonymous \/ \E x \in Ids : Get(x)
             \/ UNCHANGED vars
      PROVE  job'[id] = "finished"
    BY <1>4 DEF PostFetch, Found, Validate, Overloaded, CheckQueue, Respond, Dequeue,
                BuildEnds, Crash, PostAnonymous, Get, vars
<1> QED
    BY <1>1, <1>2, <1>3, <1>4 DEF Next, ThreadNext, WorkerNext

(* Unless two POSTs of its id raced, an answered image is only ever expired. *)
THEOREM ImagesAreKept == Spec => ImagesKept
<1>1. TypeOK /\ AllExclusive /\ [Next]_vars
          => [\A id \in served \ raced :
                  job'[id] = "finished" \/ (job'[id] = "absent" /\ id \notin served')]_vars
    <2> SUFFICES ASSUME TypeOK, AllExclusive, [Next]_vars, NEW id \in served \ raced
                 PROVE  job'[id] = "finished" \/ (job'[id] = "absent" /\ id \notin served')
        OBVIOUS
    <2>1. id \in Ids /\ Exclusive(id)
        BY DEF TypeOK, AllExclusive
    <2>2. job[id] = "finished"
        BY <2>1 DEF Exclusive
    <2> QED
        BY <2>1, <2>2, FinishedKept
<1> QED
    BY <1>1, TypeCorrect, AllExclusiveAlways, PTL DEF Spec, ImagesKept

-----------------------------------------------------------------------------
(* The promise *)

(* What the promise's variable is for one id. *)
LEMMA ImageOfOne ==
    ASSUME NEW id \in Ids
    PROVE  /\ id \in raced => ImageOf[id] = "raced"
           /\ id \notin raced /\ job[id] = "absent" => ImageOf[id] = "none"
           /\ id \notin raced /\ job[id] \in {"queued", "started"} => ImageOf[id] = "pending"
           /\ id \notin raced /\ job[id] = "finished" => ImageOf[id] = "built"
           /\ id \notin raced /\ job[id] = "failed" => ImageOf[id] = "failed"
    BY DEF ImageOf, ImageOfStatus

LEMMA ImageOfOnePrime ==
    ASSUME NEW id \in Ids
    PROVE  /\ id \in raced' => ImageOf'[id] = "raced"
           /\ id \notin raced' /\ job'[id] = "absent" => ImageOf'[id] = "none"
           /\ id \notin raced' /\ job'[id] \in {"queued", "started"}
                  => ImageOf'[id] = "pending"
           /\ id \notin raced' /\ job'[id] = "finished" => ImageOf'[id] = "built"
           /\ id \notin raced' /\ job'[id] = "failed" => ImageOf'[id] = "failed"
    BY DEF ImageOf, ImageOfStatus

(* A step that changes the job of one id moves the image of no other. *)
LEMMA OneImageMoves ==
    ASSUME NEW x \in Ids,
           \A id \in Ids \ {x} : job'[id] = job[id] /\ (id \in raced' <=> id \in raced)
    PROVE  ImageOf' = [ImageOf EXCEPT ![x] = ImageOf'[x]]
    BY DEF ImageOf

LEMMA NoImageMoves ==
    ASSUME \A id \in Ids \ raced : job'[id] = job[id], raced' = raced
    PROVE  ImageOf' = ImageOf
    BY DEF ImageOf

LEMMA PromiseStep ==
    TypeOK /\ TypeOK' /\ AllExclusive /\ [Next]_vars => [Promise!Next]_ImageOf
<1> SUFFICES ASSUME TypeOK, TypeOK', AllExclusive, [Next]_vars
             PROVE  Promise!Next \/ ImageOf' = ImageOf
    OBVIOUS
<1>1. ASSUME NEW t \in Threads, NEW x \in Ids, PostFetch(t, x)
      PROVE  Promise!Next \/ ImageOf' = ImageOf
    <2>1. job' = job
        BY <1>1 DEF PostFetch
    <2>2. CASE raced' = raced
        BY <2>1, <2>2, NoImageMoves
    <2>3. CASE raced' # raced
        <3>1. job[x] = "absent" /\ raced' = raced \cup {x} /\ x \notin raced
            BY <1>1, <2>3 DEF PostFetch
        <3>2. ImageOf[x] = "none" /\ ImageOf'[x] = "raced"
            BY <3>1, ImageOfOne, ImageOfOnePrime
        <3>3. ImageOf' = [ImageOf EXCEPT ![x] = ImageOf'[x]]
            BY <2>1, <3>1, OneImageMoves
        <3>4. Promise!Race(x)
            BY <3>2, <3>3 DEF Promise!Race, Promise!Move
        <3> QED
            BY <3>4 DEF Promise!Next
    <2> QED
        BY <2>2, <2>3
<1>2. ASSUME NEW t \in Threads, Enqueue(t)
      PROVE  Promise!Next \/ ImageOf' = ImageOf
    <2> DEFINE x == req[t]
    <2>1. /\ x \in Ids /\ t \in InWindow(x) /\ raced' = raced
          /\ job'[x] = "queued" /\ \A id \in Ids \ {x} : job'[id] = job[id]
        BY <1>2 DEF Enqueue, TypeOK, InWindow, Window
    <2>2. CASE x \in raced
        BY <2>1, <2>2, NoImageMoves
    <2>3. CASE x \notin raced
        <3>1. job[x] = "absent"
            BY <2>1, <2>3 DEF AllExclusive, Exclusive
        <3>2. ImageOf[x] = "none" /\ ImageOf'[x] = "pending"
            BY <2>1, <2>3, <3>1, ImageOfOne, ImageOfOnePrime
        <3>3. ImageOf' = [ImageOf EXCEPT ![x] = ImageOf'[x]]
            BY <2>1, OneImageMoves
        <3>4. Promise!Ask(x)
            BY <3>2, <3>3 DEF Promise!Ask, Promise!Move
        <3> QED
            BY <2>1, <3>4 DEF Promise!Next
    <2> QED
        BY <2>2, <2>3
<1>3. ASSUME NEW w \in Workers, Start(w) \/ Finish(w)
      PROVE  Promise!Next \/ ImageOf' = ImageOf
    <2> DEFINE x == held[w]
    <2>1. /\ x \in Ids /\ w \in Holders(x) /\ raced' = raced
          /\ \A id \in Ids \ {x} : job'[id] = job[id]
        BY <1>3 DEF Start, Finish, TypeOK, Holders
    <2>2. CASE x \in raced
        BY <2>1, <2>2, NoImageMoves
    <2>3. CASE x \notin raced
        <3>1. job[x] \in {"queued", "started"}
            BY <2>1, <2>3 DEF AllExclusive, Exclusive
        <3>2. ImageOf[x] = "pending"
            BY <2>1, <2>3, <3>1, ImageOfOne
        <3>3. ImageOf' = [ImageOf EXCEPT ![x] = ImageOf'[x]]
            BY <2>1, OneImageMoves
        <3>4. CASE Start(w)
            <4>1. job'[x] = "started"
                BY <2>1, <3>4 DEF Start, TypeOK
            <4>2. ImageOf'[x] = ImageOf[x]
                BY <2>1, <2>3, <3>2, <4>1, ImageOfOnePrime
            <4> QED
                BY <3>3, <4>2 DEF ImageOf
        <3>5. CASE Finish(w)
            <4>1. job'[x] \in {"finished", "failed"}
                BY <2>1, <3>5 DEF Finish, TypeOK
            <4>2. ImageOf'[x] \in {"built", "failed"}
                BY <2>1, <2>3, <4>1, ImageOfOnePrime
            <4>3. Promise!Build(x) \/ Promise!Fail(x)
                BY <3>2, <3>3, <4>2 DEF Promise!Build, Promise!Fail, Promise!Move
            <4> QED
                BY <2>1, <4>3 DEF Promise!Next
        <3> QED
            BY <1>3, <3>4, <3>5
    <2> QED
        BY <2>2, <2>3
<1>4. ASSUME NEW x \in Ids, CleanOrphan(x) \/ Expire(x)
      PROVE  Promise!Next \/ ImageOf' = ImageOf
    <2>1. raced' = raced /\ \A id \in Ids \ {x} : job'[id] = job[id]
        BY <1>4 DEF CleanOrphan, Expire, TypeOK
    <2>2. CASE x \in raced
        BY <2>1, <2>2, NoImageMoves
    <2>3. CASE x \notin raced
        <3>1. ImageOf' = [ImageOf EXCEPT ![x] = ImageOf'[x]]
            BY <2>1, OneImageMoves
        <3>2. CASE CleanOrphan(x)
            <4>1. job[x] \in {"queued", "started"} /\ job'[x] = "failed"
                BY <2>3, <3>2 DEF CleanOrphan, AllExclusive, Exclusive, TypeOK
            <4>2. ImageOf[x] = "pending" /\ ImageOf'[x] = "failed"
                BY <2>1, <2>3, <4>1, ImageOfOne, ImageOfOnePrime
            <4>3. Promise!Fail(x)
                BY <3>1, <4>2 DEF Promise!Fail, Promise!Move
            <4> QED
                BY <4>3 DEF Promise!Next
        <3>3. CASE Expire(x)
            <4>1. job[x] \in {"finished", "failed"} /\ job'[x] = "absent"
                BY <3>3 DEF Expire, TypeOK
            <4>2. ImageOf[x] \in {"built", "failed"} /\ ImageOf'[x] = "none"
                BY <2>1, <2>3, <4>1, ImageOfOne, ImageOfOnePrime
            <4>3. Promise!Forget(x)
                BY <3>1, <4>2 DEF Promise!Forget, Promise!Move
            <4> QED
                BY <4>3 DEF Promise!Next
        <3> QED
            BY <1>4, <3>2, <3>3
    <2> QED
        BY <2>2, <2>3
<1>5. ASSUME \/ \E t \in Threads : \/ Found(t) \/ Validate(t) \/ Overloaded(t)
                                   \/ CheckQueue(t) \/ Respond(t)
             \/ \E w \in Workers : Dequeue(w) \/ BuildEnds(w) \/ Crash(w)
             \/ PostAnonymous \/ \E x \in Ids : Get(x)
             \/ UNCHANGED vars
      PROVE  ImageOf' = ImageOf
    <2>1. job' = job /\ raced' = raced
        BY <1>5 DEF Found, Validate, Overloaded, CheckQueue, Respond, Dequeue,
                    BuildEnds, Crash, PostAnonymous, Get, vars
    <2> QED
        BY <2>1, NoImageMoves
<1> QED
    BY <1>1, <1>2, <1>3, <1>4, <1>5 DEF Next, ThreadNext, WorkerNext

(* The web threads, the queue and the workers implement the safety part of   *)
(* the promise: until two POSTs of an id race, it is built once for all its  *)
(* clients, answered until it expires, and only then built again.            *)
THEOREM PromiseKept == Spec => Promise!SafeSpec
<1>1. Init => Promise!Init
    BY DEF Init, Promise!Init, ImageOf, ImageOfStatus
<1> QED
    BY <1>1, TypeCorrect, AllExclusiveAlways, PromiseStep, PTL
    DEF Spec, Promise!SafeSpec
-----------------------------------------------------------------------------
(* BuildStats: what its counters can be relied on for. *)

(* Counting events changes nothing of BuildJobs. *)
LEMMA StatsStep == [StatsNext]_statsVars => [Next]_vars
    BY DEF StatsNext, CountPost, CountAnonymous, CountFound, CountBuild, Uncounted, statsVars,
           Next, ThreadNext, WorkerNext

LEMMA StatsTypeInductive ==
    StatsTypeOK /\ [StatsNext]_statsVars => StatsTypeOK'
<1> SUFFICES ASSUME StatsTypeOK, [StatsNext]_statsVars PROVE StatsTypeOK'
    OBVIOUS
<1>1. TypeOK'
    BY StatsStep, TypeInductive DEF StatsTypeOK
<1>2. count' \in [Events -> Nat]
    BY DEF StatsTypeOK, StatsNext, CountPost, CountAnonymous, CountFound, CountBuild, Uncounted,
           statsVars, add_build_events
<1> QED
    BY <1>1, <1>2 DEF StatsTypeOK

(* The counters are natural numbers beside a well-typed BuildJobs. *)
THEOREM StatsTypeCorrect == StatsSpec => []StatsTypeOK
<1>1. StatsInit => StatsTypeOK
    BY BuildJobsAssumption
    DEF StatsInit, Init, StatsTypeOK, TypeOK, JobStatus, ThreadState, WorkerState
<1> QED
    BY <1>1, StatsTypeInductive, PTL DEF StatsSpec

(* The counters by their names: what the proofs calculate with. *)
Requests == count["requests"]
Hits     == count["cache-hits"]
Misses   == count["cache-misses"]
Built    == count["successes"] + count["failures"]

LEMMA Numbers ==
    ASSUME StatsTypeOK, StatsTypeOK'
    PROVE  /\ Requests \in Nat /\ Hits \in Nat /\ Misses \in Nat /\ Built \in Nat
           /\ Requests' \in Nat /\ Hits' \in Nat /\ Misses' \in Nat /\ Built' \in Nat
           /\ Len(queue) \in Nat /\ Len(queue') \in Nat
    BY SMTT(20) DEF StatsTypeOK, TypeOK, Events, Requests, Hits, Misses, Built

(* What each counting step adds. *)
LEMMA CountedNothing ==
    ASSUME count' = count
    PROVE  Requests' = Requests /\ Hits' = Hits /\ Misses' = Misses /\ Built' = Built
    BY DEF Requests, Hits, Misses, Built

LEMMA CountedRequest ==
    ASSUME add_build_events({"requests"})
    PROVE  Requests' = Requests + 1 /\ Hits' = Hits /\ Misses' = Misses /\ Built' = Built
    BY DEF add_build_events, Events, Requests, Hits, Misses, Built

LEMMA CountedMiss ==
    ASSUME add_build_events({"requests", "cache-misses"})
    PROVE  Requests' = Requests + 1 /\ Hits' = Hits /\ Misses' = Misses + 1 /\ Built' = Built
    BY DEF add_build_events, Events, Requests, Hits, Misses, Built

LEMMA FiniteParts ==
    /\ IsFiniteSet(ToBuild) /\ Cardinality(ToBuild) \in Nat
    /\ IsFiniteSet(Unsettled) /\ Cardinality(Unsettled) \in Nat
    /\ IsFiniteSet(ToBuild') /\ Cardinality(ToBuild') \in Nat
    /\ IsFiniteSet(Unsettled') /\ Cardinality(Unsettled') \in Nat
<1>1. /\ ToBuild \subseteq Workers /\ ToBuild' \subseteq Workers
      /\ Unsettled \subseteq Threads /\ Unsettled' \subseteq Threads
    BY DEF ToBuild, Unsettled
<1> QED
    BY <1>1, BuildJobsAssumption, FS_Subset, FS_CardinalityType

(* BuildsAccounted in these terms. *)
Balanced ==
    Built + Len(queue) + Cardinality(ToBuild) + Cardinality(Unsettled) <= Misses

LEMMA BalancedInductive ==
    StatsTypeOK /\ StatsTypeOK' /\ Balanced /\ [StatsNext]_statsVars
        => Balanced'
<1> SUFFICES ASSUME StatsTypeOK, StatsTypeOK', Balanced, [StatsNext]_statsVars
             PROVE  Balanced'
    OBVIOUS
<1>0. /\ Len(queue) \in Nat /\ Len(queue') \in Nat /\ TypeOK
    BY Numbers DEF StatsTypeOK
<1>1. ASSUME NEW t \in Threads, NEW id \in Ids, CountPost(t, id)
      PROVE  Balanced'
    <2>1. queue' = queue /\ ToBuild' = ToBuild
        BY <1>1 DEF CountPost, PostFetch, workVars, ToBuild
    <2>2. CASE job[id] = "absent"
        <3>1. Unsettled' = Unsettled \cup {t}
            BY <1>0, <1>1, <2>2 DEF CountPost, PostFetch, Unsettled, Window, TypeOK
        <3>2. Cardinality(Unsettled') = IF t \in Unsettled THEN Cardinality(Unsettled)
                                                           ELSE Cardinality(Unsettled) + 1
            BY <3>1, FiniteParts, FS_AddElement, Zenon
        <3>3. add_build_events({"requests", "cache-misses"})
            BY <1>1, <2>2 DEF CountPost, add_build_events
        <3> QED
            BY <2>1, <3>2, <3>3, CountedMiss, Numbers, FiniteParts, SMTT(20) DEF Balanced
    <2>3. CASE job[id] # "absent"
        <3>1. Unsettled' = Unsettled
            BY <1>0, <1>1, <2>3 DEF CountPost, PostFetch, Unsettled, Window, TypeOK
        <3>2. add_build_events({"requests"})
            BY <1>1, <2>3 DEF CountPost, add_build_events
        <3> QED
            BY <2>1, <3>1, <3>2, CountedRequest, Numbers, FiniteParts DEF Balanced
    <2> QED
        BY <2>2, <2>3
<1>2. ASSUME NEW t \in Threads, CountFound(t)
      PROVE  Balanced'
    <2>1. queue' = queue /\ ToBuild' = ToBuild /\ Unsettled' = Unsettled
        BY <1>0, <1>2 DEF CountFound, Found, Goto, workVars, ToBuild, Unsettled, Window, TypeOK
    <2>2. Built' = Built /\ Misses' = Misses
        BY <1>2 DEF CountFound, add_build_events, Events, Built, Misses
    <2> QED
        BY <2>1, <2>2, Numbers, FiniteParts DEF Balanced
<1>3. ASSUME NEW w \in Workers, CountBuild(w)
      PROVE  Balanced'
    <2>1. queue' = queue /\ Unsettled' = Unsettled
        BY <1>3 DEF CountBuild, BuildEnds, webVars, Unsettled
    <2>2. w \in ToBuild /\ ToBuild' = ToBuild \ {w}
        BY <1>0, <1>3 DEF CountBuild, BuildEnds, ToBuild, TypeOK
    <2>3. Cardinality(ToBuild') = Cardinality(ToBuild) - 1
        BY <2>2, FiniteParts, FS_RemoveElement
    <2>4. Built' = Built + 1 /\ Misses' = Misses
        <3>1. count["successes"] \in Nat /\ count["failures"] \in Nat
            BY DEF StatsTypeOK, Events
        <3>2. CASE worker'[w] = "success"
            BY <1>3, <3>1, <3>2 DEF CountBuild, add_build_events, Events, Built, Misses
        <3>3. CASE worker'[w] # "success"
            BY <1>3, <3>1, <3>3 DEF CountBuild, add_build_events, Events, Built, Misses
        <3> QED
            BY <3>2, <3>3
    <2> QED
        BY <2>1, <2>3, <2>4, Numbers, FiniteParts, SMTT(20) DEF Balanced
<1>4. ASSUME NEW t \in Threads, Enqueue(t), count' = count
      PROVE  Balanced'
    <2>1. Len(queue') = Len(queue) + 1 /\ ToBuild' = ToBuild
        BY <1>0, <1>4 DEF Enqueue, workVars, ToBuild, TypeOK
    <2>2. t \in Unsettled /\ Unsettled' = Unsettled \ {t}
        BY <1>0, <1>4 DEF Enqueue, Goto, Unsettled, Window, TypeOK
    <2>3. Cardinality(Unsettled') = Cardinality(Unsettled) - 1
        BY <2>2, FiniteParts, FS_RemoveElement
    <2>4. count' = count
        BY <1>4
    <2> QED
        BY <2>1, <2>3, <2>4, CountedNothing, Numbers, FiniteParts DEF Balanced
<1>5. ASSUME NEW w \in Workers, Dequeue(w), count' = count
      PROVE  Balanced'
    <2>1. Len(queue') = Len(queue) - 1 /\ Unsettled' = Unsettled
        BY <1>0, <1>5 DEF Dequeue, webVars, Unsettled, TypeOK
    <2>2. w \notin ToBuild
        BY <1>5 DEF Dequeue, ToBuild
    <2>3. Cardinality(ToBuild') <= Cardinality(ToBuild) + 1
        <3>1. CASE ToBuild' = ToBuild
            BY <3>1, FiniteParts
        <3>2. CASE ToBuild' = ToBuild \cup {w}
            BY <2>2, <3>2, FiniteParts, FS_AddElement
        <3> QED
            BY <1>0, <1>5, <3>1, <3>2 DEF Dequeue, ToBuild, TypeOK
    <2>4. count' = count
        BY <1>5
    <2> QED
        BY <2>1, <2>3, <2>4, CountedNothing, Numbers, FiniteParts, SMTT(20) DEF Balanced
<1>6. ASSUME \/ \E t \in Threads : \/ Validate(t) \/ Overloaded(t)
                                   \/ CheckQueue(t) \/ Respond(t)
             \/ \E w \in Workers : Start(w) \/ Finish(w) \/ Crash(w)
             \/ \E id \in Ids : Get(id) \/ CleanOrphan(id) \/ Expire(id)
             \/ UNCHANGED vars,
             count' = count
      PROVE  Balanced'
    <2>1. queue' = queue
        BY <1>6 DEF Validate, Overloaded, CheckQueue, Respond, Start, Finish, Crash,
                    Get, CleanOrphan, Expire, vars
    <2>2. ToBuild' \subseteq ToBuild
        BY <1>0, <1>6 DEF Validate, Overloaded, CheckQueue, Respond, Start, Finish, Crash,
                    Get, CleanOrphan, Expire, vars, workVars, ToBuild, TypeOK
    <2>3. Unsettled' \subseteq Unsettled
        BY <1>0, <1>6 DEF Validate, Overloaded, CheckQueue, Respond, Start, Finish, Crash,
                    Get, CleanOrphan, Expire, Goto, Reply, vars, webVars, Unsettled, Window, TypeOK
    <2>4. /\ Cardinality(ToBuild') <= Cardinality(ToBuild)
          /\ Cardinality(Unsettled') <= Cardinality(Unsettled)
        BY <2>2, <2>3, FiniteParts, FS_Subset
    <2>5. count' = count
        BY <1>6
    <2> QED
        BY <2>1, <2>4, <2>5, CountedNothing, Numbers, FiniteParts DEF Balanced
<1>7. CASE CountAnonymous
    <2>1. queue' = queue /\ ToBuild' = ToBuild /\ Unsettled' = Unsettled
        BY <1>7 DEF CountAnonymous, PostAnonymous, webVars, workVars, ToBuild, Unsettled
    <2>2. add_build_events({"requests"})
        BY <1>7 DEF CountAnonymous
    <2> QED
        BY <2>1, <2>2, CountedRequest, Numbers, FiniteParts DEF Balanced
<1> QED
    BY <1>1, <1>2, <1>3, <1>4, <1>5, <1>6, <1>7 DEF StatsNext, Uncounted, statsVars

(* Every build that ended, runs or waits has a cache miss of its own.        *)
THEOREM BuildsAccountedAlways == StatsSpec => []BuildsAccounted
<1>1. StatsInit => Balanced
    <2> SUFFICES ASSUME StatsInit PROVE Balanced
        OBVIOUS
    <2>1. ToBuild = {} /\ Unsettled = {} /\ Len(queue) = 0
        BY DEF StatsInit, Init, ToBuild, Unsettled, Window
    <2>2. Built = 0 /\ Misses = 0
        BY DEF StatsInit, Events, Built, Misses
    <2> QED
        BY <2>1, <2>2, FS_EmptySet DEF Balanced
<1>2. Balanced => BuildsAccounted
    BY DEF Balanced, BuildsAccounted, Built, Misses
<1> QED
    BY <1>1, <1>2, StatsTypeCorrect, BalancedInductive, PTL DEF StatsSpec

-----------------------------------------------------------------------------
(* The lookups *)

ToCount == {t \in Threads : pc[t] = "found"}

LEMMA ToCountFinite ==
    /\ IsFiniteSet(ToCount) /\ Cardinality(ToCount) \in Nat
    /\ IsFiniteSet(ToCount') /\ Cardinality(ToCount') \in Nat
<1>1. ToCount \subseteq Threads /\ ToCount' \subseteq Threads
    BY DEF ToCount
<1> QED
    BY <1>1, BuildJobsAssumption, FS_Subset, FS_CardinalityType

Classified == Hits + Misses + Cardinality(ToCount) <= Requests

LEMMA ClassifiedInductive ==
    StatsTypeOK /\ StatsTypeOK' /\ Classified /\ [StatsNext]_statsVars => Classified'
<1> SUFFICES ASSUME StatsTypeOK, StatsTypeOK', Classified, [StatsNext]_statsVars
             PROVE  Classified'
    OBVIOUS
<1>0. TypeOK
    BY DEF StatsTypeOK
<1>1. ASSUME NEW t \in Threads, NEW id \in Ids, CountPost(t, id)
      PROVE  Classified'
    <2>1. CASE job[id] = "absent"
        <3>1. ToCount' = ToCount
            BY <1>0, <1>1, <2>1 DEF CountPost, PostFetch, ToCount, TypeOK
        <3>2. add_build_events({"requests", "cache-misses"})
            BY <1>1, <2>1 DEF CountPost, add_build_events
        <3> QED
            BY <3>1, <3>2, CountedMiss, Numbers, ToCountFinite DEF Classified
    <2>2. CASE job[id] # "absent"
        <3>1. ToCount' = ToCount \cup {t}
            BY <1>0, <1>1, <2>2 DEF CountPost, PostFetch, ToCount, TypeOK
        <3>2. Cardinality(ToCount') = IF t \in ToCount THEN Cardinality(ToCount)
                                                       ELSE Cardinality(ToCount) + 1
            BY <3>1, ToCountFinite, FS_AddElement, Zenon
        <3>3. add_build_events({"requests"})
            BY <1>1, <2>2 DEF CountPost, add_build_events
        <3> QED
            BY <3>2, <3>3, CountedRequest, Numbers, ToCountFinite DEF Classified
    <2> QED
        BY <2>1, <2>2
<1>2. ASSUME NEW t \in Threads, CountFound(t)
      PROVE  Classified'
    <2>1. t \in ToCount /\ ToCount' = ToCount \ {t}
        BY <1>0, <1>2 DEF CountFound, Found, Goto, ToCount, TypeOK
    <2>2. Cardinality(ToCount') = Cardinality(ToCount) - 1
        BY <2>1, ToCountFinite, FS_RemoveElement
    <2>3. Requests' = Requests /\ Misses' = Misses /\ Hits' \in {Hits, Hits + 1}
        BY <1>2 DEF CountFound, add_build_events, Events, Requests, Misses, Hits
    <2> QED
        BY <2>2, <2>3, Numbers, ToCountFinite, SMTT(20) DEF Classified
<1>3. ASSUME NEW w \in Workers, CountBuild(w)
      PROVE  Classified'
    <2>1. ToCount' = ToCount
        BY <1>3 DEF CountBuild, BuildEnds, webVars, ToCount
    <2>2. Requests' = Requests /\ Misses' = Misses /\ Hits' = Hits
        BY <1>3 DEF CountBuild, add_build_events, Events, Requests, Misses, Hits
    <2> QED
        BY <2>1, <2>2, Numbers, ToCountFinite DEF Classified
<1>4. ASSUME \/ \E t \in Threads : \/ Validate(t) \/ Overloaded(t)
                                   \/ CheckQueue(t) \/ Enqueue(t) \/ Respond(t)
             \/ \E w \in Workers : Dequeue(w) \/ Start(w) \/ Finish(w) \/ Crash(w)
             \/ \E id \in Ids : Get(id) \/ CleanOrphan(id) \/ Expire(id)
             \/ UNCHANGED vars,
             count' = count
      PROVE  Classified'
    <2>1. ToCount' \subseteq ToCount
        BY <1>0, <1>4 DEF Validate, Overloaded, CheckQueue, Enqueue, Respond, Dequeue,
                    Start, Finish, Crash, Get, CleanOrphan, Expire, Goto, Reply,
                    vars, webVars, ToCount, TypeOK
    <2>2. Cardinality(ToCount') <= Cardinality(ToCount)
        BY <2>1, ToCountFinite, FS_Subset
    <2>3. count' = count
        BY <1>4
    <2> QED
        BY <2>2, <2>3, CountedNothing, Numbers, ToCountFinite DEF Classified
<1>5. CASE CountAnonymous
    <2>1. ToCount' = ToCount
        BY <1>5 DEF CountAnonymous, PostAnonymous, webVars, ToCount
    <2>2. add_build_events({"requests"})
        BY <1>5 DEF CountAnonymous
    <2> QED
        BY <2>1, <2>2, CountedRequest, Numbers, ToCountFinite DEF Classified
<1> QED
    BY <1>1, <1>2, <1>3, <1>4, <1>5 DEF StatsNext, Uncounted, statsVars

(* No POST is counted as more than one hit or miss. *)
THEOREM LookupsAccountedAlways == StatsSpec => []LookupsAccounted
<1>1. StatsInit => Classified
    <2> SUFFICES ASSUME StatsInit PROVE Classified
        OBVIOUS
    <2>1. ToCount = {}
        BY DEF StatsInit, Init, ToCount
    <2>2. Requests = 0 /\ Hits = 0 /\ Misses = 0
        BY DEF StatsInit, Events, Requests, Hits, Misses
    <2> QED
        BY <2>1, <2>2, FS_EmptySet DEF Classified
<1>2. Classified => LookupsAccounted
    BY DEF Classified, LookupsAccounted, ToCount, Requests, Hits, Misses
<1> QED
    BY <1>1, <1>2, StatsTypeCorrect, ClassifiedInductive, PTL DEF StatsSpec
=================================================================================
