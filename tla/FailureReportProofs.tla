--------------------------- MODULE FailureReportProofs ---------------------------
(***************************************************************************)
(* Theorems about JobReply and ErrorLog, and about FailureReport: it       *)
(* implements both, so that what is proved of them holds of it, and every  *)
(* failure is logged before it is told.                                    *)
(***************************************************************************)
EXTENDS FailureReport, SequenceTheorems, FiniteSetTheorems, TLAPS

-----------------------------------------------------------------------------
(* JobReply: for every number of readers and of times the job is queued. *)

(* The types of what becomes of the job and its readers, and of its copies. *)
FateTypeOK ==
    /\ status \in Statuses
    /\ position \in Places
    /\ pc \in [Readers -> Reads \cup {"idle"}]
    /\ reply \in [Readers -> Replies]
    /\ told \in [Readers -> Listed]
    /\ had \in [Readers -> SUBSET Fates]
    /\ places \in [Readers -> SUBSET Places]

CopiesTypeOK ==
    waiting \in Nat /\ taken \in Nat /\ running \in Nat /\ raced \in SUBSET {"raced"}

LEMMA BecomesType ==
    ASSUME TypeOK, NEW new \in Statuses, NEW place \in Places, NEW what \in SUBSET Fates,
           Becomes(new, place, what)
    PROVE  FateTypeOK'
    BY DEF TypeOK, FateTypeOK, Becomes

(* What a POST does to the copies. *)
LEMMA QueueCopies ==
    ASSUME Queue
    PROVE  /\ waiting' = waiting + 1 /\ taken' = taken /\ running' = running
           /\ raced' = IF waiting + taken + running > 0 THEN {"raced"} ELSE {}
    BY Zenon DEF Queue

LEMMA QueueBecomes ==
    ASSUME Queue
    PROVE  \E place \in IF waiting > 0 THEN {position} ELSE Listed :
               Becomes("queued", place,
                   {IF status = "absent" THEN "queued" ELSE "queued again"} \cup raced')
    BY Zenon DEF Queue

LEMMA CopiesType ==
    ASSUME TypeOK, NEW w \in Nat, NEW t \in Nat, NEW n \in Nat, CopiesAre(w, t, n)
    PROVE  CopiesTypeOK'
    BY Zenon DEF TypeOK, CopiesTypeOK, CopiesAre

LEMMA ListedPlaces ==
    /\ Listed \subseteq Places /\ 0 \in Listed /\ Unlisted \in Places /\ Unlisted \notin Listed
    /\ \A place \in Places : place > 0 => place - 1 \in Listed
    BY JobReplyAssumption DEF Listed, Places, Unlisted

LEMMA MoveType == TypeOK /\ JobMoves => FateTypeOK' /\ CopiesTypeOK'
<1> SUFFICES ASSUME TypeOK, JobMoves PROVE FateTypeOK' /\ CopiesTypeOK'
    OBVIOUS
<1>0. /\ waiting \in Nat /\ taken \in Nat /\ running \in Nat
      /\ status \in Statuses /\ position \in Places /\ FateTypeOK
    BY DEF TypeOK, FateTypeOK
<1>1. CASE Queue
    <2>1. waiting' \in Nat /\ taken' \in Nat /\ running' \in Nat
        BY <1>0, <1>1, QueueCopies
    <2>2. raced' \in SUBSET {"raced"}
        BY <1>1, Zenon DEF Queue
    <2>3. PICK place \in IF waiting > 0 THEN {position} ELSE Listed :
              Becomes("queued", place,
                  {IF status = "absent" THEN "queued" ELSE "queued again"} \cup raced')
        BY <1>1, QueueBecomes
    <2>4. place \in Places
        BY <1>0, ListedPlaces
    <2>5. {IF status = "absent" THEN "queued" ELSE "queued again"} \cup raced' \in SUBSET Fates
        BY <2>2 DEF Fates, Statuses
    <2>6. FateTypeOK'
        BY <2>3, <2>4, <2>5, BecomesType DEF Statuses
    <2> QED
        BY <2>1, <2>2, <2>6 DEF CopiesTypeOK
<1>2. CASE Advance
    <2>1. position - 1 \in Places
        BY <1>0, <1>2, ListedPlaces DEF Advance
    <2>2. FateTypeOK'
        BY <1>0, <1>2, <2>1, BecomesType DEF Advance
    <2> QED
        BY <1>2, <2>2, Zenon DEF Advance, copies, TypeOK, CopiesTypeOK
<1>3. CASE Dequeue
    <2>1. waiting - 1 \in Nat /\ taken + 1 \in Nat
        BY <1>0, <1>3 DEF Dequeue
    <2>2. PICK place \in IF waiting > 1 THEN Listed ELSE {Unlisted} : Becomes(status, place, {})
        BY <1>3 DEF Dequeue
    <2>3. FateTypeOK'
        BY <1>0, <2>2, BecomesType, ListedPlaces
    <2> QED
        BY <1>0, <1>3, <2>1, <2>3, CopiesType DEF Dequeue
<1>4. CASE Start
    <2>1. FateTypeOK'
        BY <1>0, <1>4, BecomesType DEF Start, Statuses, Fates
    <2>2. taken - 1 \in Nat /\ running + 1 \in Nat
        BY <1>0, <1>4 DEF Start
    <2> QED
        BY <1>0, <1>4, <2>1, <2>2, CopiesType DEF Start
<1>5. CASE Succeed \/ Fail
    <2>1. FateTypeOK'
        BY <1>0, <1>5, BecomesType DEF Succeed, Fail, Statuses, Fates
    <2>2. running - 1 \in Nat
        BY <1>0, <1>5 DEF Succeed, Fail
    <2> QED
        BY <1>0, <1>5, <2>1, <2>2, CopiesType DEF Succeed, Fail
<1>6. CASE Drop \/ FailUnstarted
    <2>1. FateTypeOK'
        <3>1. CASE Drop
            BY <1>0, <3>1 DEF Drop, readers, FateTypeOK
        <3>2. CASE FailUnstarted
            BY <1>0, <3>2, BecomesType DEF FailUnstarted, Statuses, Fates
        <3> QED
            BY <1>6, <3>1, <3>2
    <2>2. taken - 1 \in Nat
        BY <1>0, <1>6 DEF Drop, FailUnstarted
    <2> QED
        BY <1>0, <1>6, <2>1, <2>2, CopiesType DEF Drop, FailUnstarted
<1>7. CASE Expire
    <2>1. FateTypeOK'
        BY <1>0, <1>7, BecomesType DEF Expire, Statuses, Fates
    <2> QED
        BY <1>7, <2>1, Zenon DEF Expire, copies, TypeOK, CopiesTypeOK
<1> QED
    BY <1>1, <1>2, <1>3, <1>4, <1>5, <1>6, <1>7 DEF JobMoves

\* A reader leaves the job alone.
LEMMA AnsweringKeeps ==
    ASSUME NEW r \in Readers, Answering(r)
    PROVE  /\ UNCHANGED job
           /\ UNCHANGED <<status, result, enqueues, position, waiting, taken, running, raced>>
<1>1. UNCHANGED job
    BY DEF Answering, Fetch, IsFailed, IsQueued, GetPosition, IsStarted, IsFinished,
           ExcString, ReturnValue, Ask
<1> QED
    BY <1>1 DEF job, copies

\* What a reader does to itself, if it does not fetch the job.
LEMMA ReadsOn ==
    ASSUME NEW r \in Readers, Answering(r), ~Fetch(r)
    PROVE  /\ \/ \E answer \in Replies : Tell(r, answer)
              \/ \E read \in Reads : Read(r, read)
           /\ told' = told \/ GetPosition(r)
<1>1. CASE IsFailed(r) \/ IsQueued(r)
    BY <1>1, Zenon DEF IsFailed, IsQueued, Ask, Reads, Replies
<1>2. CASE IsStarted(r) \/ IsFinished(r)
    BY <1>2, Zenon DEF IsStarted, IsFinished, Ask, Reads, Replies
<1>3. CASE ExcString(r) \/ ReturnValue(r)
    BY <1>3 DEF ExcString, ReturnValue, Replies
<1>4. CASE GetPosition(r)
    BY <1>4 DEF GetPosition, Replies
<1> QED
    BY <1>1, <1>2, <1>3, <1>4 DEF Answering

LEMMA TypeInductive == TypeOK /\ [Next]_vars => TypeOK'
<1> SUFFICES ASSUME TypeOK, [Next]_vars PROVE TypeOK'
    OBVIOUS
<1> USE JobReplyAssumption
<1>1. CASE JobMoves
    <2>1. FateTypeOK' /\ CopiesTypeOK'
        BY <1>1, MoveType
    <2>2. result' \in {"none", "success", "failure"}
        BY <1>1 DEF JobMoves, Queue, Advance, Dequeue, Start, Drop, Succeed, Fail,
                    FailUnstarted, Expire, TypeOK
    <2>3. enqueues' = enqueues \/ (enqueues < MaxEnqueues /\ enqueues' = enqueues + 1)
        BY <1>1, Zenon DEF JobMoves, Queue, Advance, Dequeue, Start, Drop, Succeed, Fail,
                           FailUnstarted, Expire
    <2>4. enqueues' \in 0..MaxEnqueues
        BY <2>3 DEF TypeOK
    <2> QED
        BY <2>1, <2>2, <2>4 DEF TypeOK, FateTypeOK, CopiesTypeOK
<1>2. ASSUME NEW r \in Readers, Answering(r)
      PROVE  TypeOK'
    <2>0. UNCHANGED <<status, result, enqueues, position, waiting, taken, running, raced>>
        BY <1>2, AnsweringKeeps
    <2>1. CASE Fetch(r)
        <3>1. had' \in [Readers -> SUBSET Fates]
            BY <2>1 DEF Fetch, TypeOK, Fates
        <3>2. places' \in [Readers -> SUBSET Places]
            BY <2>1 DEF Fetch, TypeOK
        <3>3. told' \in [Readers -> Listed]
            BY <2>1, ListedPlaces DEF Fetch, TypeOK
        <3>4. pc' \in [Readers -> Reads \cup {"idle"}] /\ reply' \in [Readers -> Replies]
            BY <2>1 DEF Fetch, TypeOK, Reads, Replies
        <3> QED
            BY <2>0, <3>1, <3>2, <3>3, <3>4 DEF TypeOK
    <2>2. CASE ~Fetch(r)
        <3>1. /\ pc' \in [Readers -> Reads \cup {"idle"}] /\ reply' \in [Readers -> Replies]
              /\ had' \in [Readers -> SUBSET Fates]
              /\ places' \in [Readers -> SUBSET Places]
            <4>1. CASE \E answer \in Replies : Tell(r, answer)
                BY <4>1 DEF Tell, TypeOK
            <4>2. CASE \E read \in Reads : Read(r, read)
                BY <4>2 DEF Read, TypeOK
            <4> QED
                BY <1>2, <2>2, <4>1, <4>2, ReadsOn
        <3>2. told' \in [Readers -> Listed]
            <4>1. CASE GetPosition(r)
                BY <4>1, ListedPlaces DEF GetPosition, TypeOK, Places
            <4>2. CASE told' = told
                BY <4>2 DEF TypeOK
            <4> QED
                BY <1>2, <2>2, <4>1, <4>2, ReadsOn
        <3> QED
            BY <2>0, <3>1, <3>2 DEF TypeOK
    <2> QED
        BY <2>1, <2>2
<1>3. CASE UNCHANGED vars
    BY <1>3 DEF vars, job, copies, readers, TypeOK
<1> QED
    BY <1>1, <1>2, <1>3 DEF Next

(* The job and the readers stay within their types. *)
THEOREM TypeCorrect == Spec => []TypeOK
<1>1. Init => TypeOK
    BY JobReplyAssumption, ListedPlaces DEF Init, TypeOK, Statuses, Fates, Reads, Replies
<1> QED
    BY <1>1, TypeInductive, PTL DEF Spec

-----------------------------------------------------------------------------
(* What a client is told *)

Upset(r) == {"absent", "failed", "queued again", "raced"} \cap had[r] # {}

(* The job's status at the read a reader makes next, if the job has gone no  *)
(* other way than a successful build's: each read rules one status out.      *)
Expected(read) ==
    CASE read \in AskOfPlace   -> {"queued", "started", "finished"}
      [] read = "is_started"   -> {"started", "finished"}
      [] read = "is_finished"  -> {"finished"}
      [] read = "return_value" -> {"finished"}
      [] OTHER                 -> {}

(* What a reader has noted of the job's fate since it fetched it. *)
Noting(r) ==
    pc[r] # "idle" =>
        /\ Upset(r) \/ status \in Expected(pc[r])
        /\ raced # {} => "raced" \in had[r]
        /\ status \in had[r] \/ (status = "queued" /\ "queued again" \in had[r])
        /\ pc[r] = "exc_string" => "failed" \in had[r]
        /\ pc[r] = "return_value" => "finished" \in had[r]

(* And of its place in the queue: a reader that has found the job queued has *)
(* seen it taken, or it is listed still.                                     *)
Placing(r) ==
    /\ pc[r] \in AskOfPlace /\ status = "queued" => position \in places[r]
    /\ pc[r] = "get_position" =>
           \/ "raced" \in had[r]
           \/ Unlisted \in places[r]
           \/ status = "queued" /\ position # Unlisted

Reading(r) == Noting(r) /\ Placing(r)

(* Without a race there is one copy of the job at most, and until it is      *)
(* started the job is queued; a finished job's result is there.              *)
OneCopy ==
    /\ raced = {} => waiting + taken + running <= 1
    /\ raced = {} /\ waiting + taken > 0 => status = "queued"
    /\ status = "finished" => result = "success"
    /\ position = Unlisted <=> waiting = 0

AllReading == (\A r \in Readers : Reading(r)) /\ OneCopy

LEMMA OneCopyKept == TypeOK /\ OneCopy /\ JobMoves => OneCopy'
<1> SUFFICES ASSUME TypeOK, OneCopy, JobMoves PROVE OneCopy'
    OBVIOUS
<1>0. /\ waiting \in Nat /\ taken \in Nat /\ running \in Nat /\ raced \in SUBSET {"raced"}
      /\ position \in Places
    BY DEF TypeOK
<1>1. CASE Queue
    <2>1. PICK place \in IF waiting > 0 THEN {position} ELSE Listed :
              Becomes("queued", place,
                  {IF status = "absent" THEN "queued" ELSE "queued again"} \cup raced')
        BY <1>1, QueueBecomes
    <2>2. status' = "queued" /\ position' = place
        BY <2>1 DEF Becomes
    <2>3. place # Unlisted
        <3>1. waiting > 0 => position # Unlisted
            BY <1>0 DEF OneCopy
        <3>2. place \in IF waiting > 0 THEN {position} ELSE Listed
            OBVIOUS
        <3> QED
            BY <3>1, <3>2, ListedPlaces
    <2>4. raced' = {} => waiting = 0 /\ taken = 0 /\ running = 0
        BY <1>0, <1>1, QueueCopies
    <2> QED
        BY <1>0, <1>1, <2>2, <2>3, <2>4, QueueCopies DEF OneCopy
<1>2. CASE Advance
    <2>1. /\ status' = status /\ position' = position - 1 /\ result' = result
          /\ UNCHANGED <<waiting, taken, running, raced>> /\ position > 0
        BY <1>2 DEF Advance, Becomes, copies
    <2>2. position # Unlisted /\ position - 1 # Unlisted
        BY <1>0, <2>1, ListedPlaces DEF Unlisted
    <2> QED
        BY <2>1, <2>2 DEF OneCopy
<1>3. CASE Dequeue
    <2>1. PICK place \in IF waiting > 1 THEN Listed ELSE {Unlisted} : Becomes(status, place, {})
        BY <1>3 DEF Dequeue
    <2>2. status' = status /\ position' = place
        BY <2>1 DEF Becomes
    <2>3. /\ waiting > 0 /\ waiting' = waiting - 1 /\ taken' = taken + 1 /\ running' = running
          /\ raced' = raced /\ result' = result
        BY <1>0, <1>3 DEF Dequeue, CopiesAre
    <2>4. place = Unlisted <=> waiting - 1 = 0
        BY <1>0, <2>1, <2>3, ListedPlaces
    <2> QED
        BY <1>0, <2>2, <2>3, <2>4 DEF OneCopy
<1>4. CASE Start
    BY <1>0, <1>4 DEF Start, Becomes, CopiesAre, OneCopy
<1>5. CASE Drop
    BY <1>0, <1>5 DEF Drop, CopiesAre, OneCopy
<1>6. CASE Succeed
    BY <1>0, <1>6 DEF Succeed, Becomes, CopiesAre, OneCopy
<1>7. CASE Fail \/ FailUnstarted
    BY <1>0, <1>7 DEF Fail, FailUnstarted, Becomes, CopiesAre, OneCopy
<1>8. CASE Expire
    BY <1>0, <1>8 DEF Expire, Becomes, copies, OneCopy
<1> QED
    BY <1>1, <1>2, <1>3, <1>4, <1>5, <1>6, <1>7, <1>8 DEF JobMoves

(* What a reader takes note of while it reads. *)
LEMMA Noted ==
    ASSUME TypeOK, NEW r \in Readers, pc[r] # "idle",
           NEW new, NEW place, NEW what, Becomes(new, place, what)
    PROVE  /\ pc' = pc /\ had'[r] = had[r] \cup what /\ status' = new /\ position' = place
           /\ pc[r] \in AskOfPlace /\ new = "queued" => places'[r] = places[r] \cup {place}
           /\ ~(pc[r] \in AskOfPlace /\ new = "queued") => places'[r] = places[r]
    BY DEF TypeOK, Becomes

LEMMA NotingMoves ==
    ASSUME TypeOK, AllReading, JobMoves, NEW r \in Readers, pc[r] # "idle"
    PROVE  Noting(r)'
<1>0. /\ Noting(r) /\ OneCopy
      /\ waiting \in Nat /\ taken \in Nat /\ running \in Nat /\ raced \in SUBSET {"raced"}
    BY DEF AllReading, Reading, TypeOK
<1>1. ASSUME pc' = pc, had[r] \subseteq had'[r], Upset(r)', raced' # {} => "raced" \in had'[r],
             status' \in had'[r] \/ (status' = "queued" /\ "queued again" \in had'[r])
      PROVE  Noting(r)'
    BY <1>0, <1>1 DEF Noting
<1>2. CASE Queue
    <2> DEFINE what == {IF status = "absent" THEN "queued" ELSE "queued again"} \cup raced'
    <2>1. PICK place : Becomes("queued", place, what)
        BY <1>2, QueueBecomes
    <2>2. pc' = pc /\ had'[r] = had[r] \cup what /\ status' = "queued"
        BY <2>1, Noted
    <2>3. raced' # {} => "raced" \in had'[r]
        <3>1. raced' # {} => raced' = {"raced"}
            BY <1>2, QueueCopies
        <3> QED
            BY <2>2, <3>1
    <2>4. CASE status = "absent"
        <3>1. "absent" \in had[r] /\ "queued" \in had'[r]
            BY <1>0, <2>2, <2>4 DEF Noting
        <3> QED
            BY <1>1, <2>2, <2>3, <3>1 DEF Upset
    <2>5. CASE status # "absent"
        <3>1. "queued again" \in had'[r]
            BY <2>2, <2>5
        <3> QED
            BY <1>1, <2>2, <2>3, <3>1 DEF Upset
    <2> QED
        BY <2>4, <2>5
<1>3. ASSUME raced' = raced \/ raced' = {}, pc' = pc, had[r] \subseteq had'[r]
      PROVE  raced' # {} => "raced" \in had'[r]
    BY <1>0, <1>3 DEF Noting
<1>4. CASE Advance \/ Dequeue
    <2>1. pc' = pc /\ had'[r] = had[r] /\ status' = status
        <3>1. PICK place : Becomes(status, place, {})
            BY <1>4 DEF Advance, Dequeue
        <3>2. pc' = pc /\ had'[r] = had[r] \cup {} /\ status' = status
            BY <3>1, Noted
        <3> QED
            BY <3>2
    <2>2. raced' = raced \/ raced' = {}
        BY <1>4 DEF Advance, Dequeue, copies, CopiesAre
    <2> QED
        BY <1>0, <1>3, <2>1, <2>2 DEF Noting, Upset
<1>5. CASE Fail \/ FailUnstarted \/ Expire
    <2>1. pc' = pc /\ (\/ status' = "failed" /\ had'[r] = had[r] \cup {"failed"}
                       \/ status' = "absent" /\ had'[r] = had[r] \cup {"absent"})
        BY <1>5, Noted DEF Fail, FailUnstarted, Expire
    <2>2. raced' = raced \/ raced' = {}
        BY <1>5 DEF Fail, FailUnstarted, Expire, copies, CopiesAre
    <2> QED
        BY <1>1, <1>3, <2>1, <2>2 DEF Upset
<1>6. CASE Start \/ Succeed
    <2>1. /\ pc' = pc
          /\ \/ Start /\ status' = "started" /\ had'[r] = had[r] \cup {"started"}
             \/ Succeed /\ status' = "finished" /\ had'[r] = had[r] \cup {"finished"}
        BY <1>6, Noted DEF Start, Succeed
    <2>2. raced' = raced \/ raced' = {}
        BY <1>6 DEF Start, Succeed, CopiesAre
    <2>3. CASE Upset(r)
        BY <1>1, <1>3, <2>1, <2>2, <2>3 DEF Upset
    <2>4. CASE ~Upset(r)
        <3>1. raced = {} /\ status \in Expected(pc[r])
            BY <1>0, <2>4 DEF Noting, Upset
        <3>2. raced' = {}
            BY <2>2, <3>1
        <3>3. Start => status = "queued"
            BY <1>0, <3>1 DEF Start, OneCopy
        <3>4. status' \in Expected(pc[r])
            BY <2>1, <3>1, <3>3 DEF Expected, AskOfPlace
        <3>5. status' \in had'[r] /\ had[r] \subseteq had'[r]
            BY <2>1
        <3> QED
            BY <1>0, <2>1, <3>2, <3>4, <3>5 DEF Noting
    <2> QED
        BY <2>3, <2>4
<1>7. CASE Drop
    <2>1. pc' = pc /\ had' = had /\ status' = status /\ "absent" \in had[r]
        BY <1>0, <1>7 DEF Drop, readers, Noting
    <2>2. had[r] \subseteq had'[r] /\ status' \in had'[r]
        BY <1>7, <2>1 DEF Drop
    <2>3. Upset(r)'
        BY <2>1 DEF Upset
    <2>4. raced' = raced \/ raced' = {}
        BY <1>7 DEF Drop, CopiesAre
    <2> QED
        BY <1>1, <1>3, <2>1, <2>2, <2>3, <2>4
<1> QED
    BY <1>2, <1>4, <1>5, <1>6, <1>7 DEF JobMoves

LEMMA PlacingMoves ==
    ASSUME TypeOK, AllReading, JobMoves, NEW r \in Readers, pc[r] # "idle"
    PROVE  Placing(r)'
<1>0. /\ Noting(r) /\ Placing(r) /\ OneCopy
      /\ waiting \in Nat /\ taken \in Nat /\ running \in Nat /\ raced \in SUBSET {"raced"}
      /\ position \in Places
    BY DEF AllReading, Reading, TypeOK
<1>1. CASE Drop
    <2>1. UNCHANGED <<status, position, pc, had, places>>
        BY <1>1 DEF Drop, readers
    <2> QED
        BY <1>0, <2>1 DEF Placing
<1>2. ASSUME NEW new, NEW place, NEW what, Becomes(new, place, what), ~Drop
      PROVE  Placing(r)'
    <2>1. /\ pc' = pc /\ had'[r] = had[r] \cup what /\ status' = new /\ position' = place
          /\ pc[r] \in AskOfPlace /\ new = "queued" => places'[r] = places[r] \cup {place}
          /\ places[r] \subseteq places'[r]
        BY <1>2, Noted
    <2>2. pc'[r] \in AskOfPlace /\ status' = "queued" => position' \in places'[r]
        BY <2>1
    <2>3. SUFFICES ASSUME pc[r] = "get_position", "raced" \notin had[r], Unlisted \notin places[r],
                          status = "queued", position # Unlisted
                   PROVE  Unlisted \in places'[r] \/ (status' = "queued" /\ position' # Unlisted)
        BY <1>0, <2>1, <2>2 DEF Placing
    <2>4. raced = {} /\ waiting = 1 /\ taken = 0 /\ running = 0
        <3>1. raced = {}
            BY <1>0, <2>3 DEF Noting
        <3>2. waiting + taken + running <= 1 /\ waiting # 0
            BY <1>0, <2>3, <3>1 DEF OneCopy
        <3> QED
            BY <1>0, <3>1, <3>2
    <2>5. Queue \/ Advance \/ Dequeue
        BY <1>2, <2>3, <2>4 DEF JobMoves, Start, Succeed, Fail, FailUnstarted, Expire
    <2>6. status' = "queued"
        BY <2>3, <2>5 DEF Queue, Advance, Dequeue, Becomes
    <2>7. CASE position' = Unlisted
        BY <2>1, <2>3, <2>6, <2>7 DEF AskOfPlace
    <2> QED
        BY <2>6, <2>7
<1>3. Drop \/ \E new, place, what : Becomes(new, place, what)
    BY Zenon DEF JobMoves, Queue, Advance, Dequeue, Start, Succeed, Fail, FailUnstarted, Expire
<1> QED
    BY <1>1, <1>2, <1>3

LEMMA ReadingMoves ==
    ASSUME TypeOK, AllReading, JobMoves, NEW r \in Readers
    PROVE  Reading(r)' /\ pc' = pc
<1>1. pc' = pc
    BY DEF JobMoves, Queue, Advance, Dequeue, Start, Drop, Succeed, Fail, FailUnstarted, Expire,
           Becomes, readers
<1>2. CASE pc[r] = "idle"
    BY <1>1, <1>2 DEF Reading, Noting, Placing, AskOfPlace
<1>3. CASE pc[r] # "idle"
    BY <1>1, <1>3, NotingMoves, PlacingMoves DEF Reading
<1> QED
    BY <1>1, <1>2, <1>3

(* What a reader does at a read, and what it answers. *)
Truly(r) ==
    Answers(r) =>
        /\ reply'[r] = "internal error" => Upset(r)
        /\ reply'[r] = "200"         => "finished" \in had[r]
        /\ reply'[r] = "500"         => "failed" \in had[r]
        /\ reply'[r] = "202 started" => "started" \in had[r]
        /\ reply'[r] = "202 queued"  =>
               \/ "raced" \in had[r]
               \/ told'[r] \in places[r]
               \/ told'[r] = 0 /\ Unlisted \in places[r]

\* A reader that only goes on to its next read.
LEMMA GoesOn ==
    ASSUME TypeOK, AllReading, NEW r \in Readers, NEW read \in Reads, pc[r] \in Reads,
           Read(r, read), UNCHANGED job,
           Upset(r) \/ status \in Expected(read),
           read = "exc_string" => "failed" \in had[r],
           read = "return_value" => "finished" \in had[r],
           read \in AskOfPlace => pc[r] \in AskOfPlace,
           read = "get_position" => status = "queued"
    PROVE  Reading(r)' /\ Truly(r)
<1>1. Noting(r) /\ Placing(r) /\ pc[r] # "idle" /\ read # "idle"
    BY DEF AllReading, Reading, Reads
<1>2. UNCHANGED <<status, raced, position>>
    BY DEF job, copies
<1>3. pc'[r] = read /\ had' = had /\ (read \in AskOfPlace => places' = places)
    BY DEF Read, TypeOK
<1>4. Noting(r)'
    BY <1>1, <1>2, <1>3 DEF Noting, Upset
<1>5. Placing(r)'
    <2>1. read = "get_position" => read \in AskOfPlace
        BY DEF AskOfPlace
    <2> QED
        BY <1>1, <1>2, <1>3, <2>1 DEF Placing
<1>6. ~Answers(r)
    BY <1>1, <1>3 DEF Answers
<1> QED
    BY <1>4, <1>5, <1>6 DEF Reading, Truly

\* A reader that answers.
LEMMA Tells ==
    ASSUME TypeOK, NEW r \in Readers, NEW answer, Tell(r, answer)
    PROVE  Reading(r)' /\ pc'[r] = "idle" /\ reply'[r] = answer
<1>1. pc'[r] = "idle" /\ reply'[r] = answer
    BY DEF Tell, TypeOK
<1> QED
    BY <1>1 DEF Reading, Noting, Placing, AskOfPlace

LEMMA ReadingSteps ==
    ASSUME TypeOK, AllReading, NEW r \in Readers, Answering(r)
    PROVE  Reading(r)' /\ Truly(r)
<1>0. /\ Noting(r) /\ Placing(r) /\ OneCopy
      /\ status \in Statuses /\ raced \in SUBSET {"raced"}
      /\ position \in Places /\ waiting \in Nat /\ taken \in Nat
      /\ told \in [Readers -> Listed]
    BY DEF AllReading, Reading, TypeOK
<1>1. UNCHANGED job /\ UNCHANGED <<status, position, raced>>
    BY AnsweringKeeps
<1>2. CASE Fetch(r)
    <2>1. /\ pc[r] = "idle"
          /\ pc'[r] = IF status = "absent" THEN "idle" ELSE "is_failed"
          /\ had'[r] = IF status = "absent" THEN {} ELSE {status} \cup raced
          /\ places'[r] = IF status = "queued" THEN {position} ELSE {}
        BY <1>2 DEF Fetch, TypeOK
    <2>2. Placing(r)'
        BY <1>1, <2>1 DEF Placing, AskOfPlace
    <2>3. Noting(r)'
        <3>1. CASE status = "absent"
            BY <2>1, <3>1 DEF Noting
        <3>2. CASE status # "absent"
            <4>1. status = "failed" \/ status \in {"queued", "started", "finished"}
                BY <1>0, <3>2 DEF Statuses
            <4>2. pc'[r] = "is_failed" /\ had'[r] = {status} \cup raced
                BY <2>1, <3>2
            <4>3. Upset(r)' \/ status' \in Expected("is_failed")
                BY <1>1, <4>1, <4>2 DEF Upset, Expected, AskOfPlace
            <4> QED
                BY <1>0, <1>1, <4>2, <4>3 DEF Noting
        <3> QED
            BY <3>1, <3>2
    <2> QED
        BY <2>1, <2>2, <2>3 DEF Reading, Truly, Answers
<1>3. ASSUME pc[r] \in Reads, status = "absent" /\ Tell(r, "internal error")
      PROVE  Reading(r)' /\ Truly(r)
    <2>1. Upset(r)
        BY <1>0, <1>3 DEF Noting, Upset, Reads
    <2>2. Reading(r)' /\ reply'[r] = "internal error"
        BY <1>3, Tells
    <2> QED
        BY <2>1, <2>2 DEF Truly
<1>4. CASE IsFailed(r)
    <2>1. pc[r] = "is_failed"
        BY <1>4 DEF IsFailed, Ask
    <2>2. CASE status = "absent" /\ Tell(r, "internal error")
        BY <1>3, <2>1, <2>2 DEF Reads
    <2>3. CASE status = "failed" /\ Read(r, "exc_string")
        <3>1. "failed" \in had[r]
            BY <1>0, <2>1, <2>3 DEF Noting
        <3> QED
            BY <1>1, <2>1, <2>3, <3>1, GoesOn DEF Reads, AskOfPlace, Upset
    <2>4. CASE status \notin {"absent", "failed"} /\ Read(r, "is_queued")
        <3>1. status \in Expected("is_queued")
            BY <1>0, <2>4 DEF Statuses, Expected, AskOfPlace
        <3> QED
            BY <1>1, <2>1, <2>4, <3>1, GoesOn DEF Reads, AskOfPlace
    <2> QED
        BY <1>4, <2>2, <2>3, <2>4, Zenon DEF IsFailed, Ask
<1>5. CASE IsQueued(r)
    <2>1. pc[r] = "is_queued"
        BY <1>5 DEF IsQueued, Ask
    <2>2. CASE status = "absent" /\ Tell(r, "internal error")
        BY <1>3, <2>1, <2>2 DEF Reads
    <2>3. CASE status = "queued" /\ Read(r, "get_position")
        <3>1. status \in Expected("get_position")
            BY <2>3 DEF Expected, AskOfPlace
        <3> QED
            BY <1>1, <2>1, <2>3, <3>1, GoesOn DEF Reads, AskOfPlace
    <2>4. CASE status \notin {"absent", "queued"} /\ Read(r, "is_started")
        <3>1. Upset(r) \/ status \in Expected("is_started")
            BY <1>0, <2>1, <2>4 DEF Noting, Expected, AskOfPlace
        <3> QED
            BY <1>1, <2>1, <2>4, <3>1, GoesOn DEF Reads, AskOfPlace
    <2> QED
        BY <1>5, <2>2, <2>3, <2>4, Zenon DEF IsQueued, Ask
<1>6. CASE GetPosition(r)
    <2>1. /\ pc[r] = "get_position" /\ Tell(r, "202 queued")
          /\ told'[r] = IF position = Unlisted THEN 0 ELSE position
        BY <1>0, <1>6 DEF GetPosition
    <2>2. "raced" \in had[r] \/ told'[r] \in places[r] \/ (told'[r] = 0 /\ Unlisted \in places[r])
        <3>1. CASE position = Unlisted
            BY <1>0, <2>1, <3>1 DEF Placing
        <3>2. CASE position # Unlisted
            <4>1. raced # {} => "raced" \in had[r]
                BY <1>0, <2>1 DEF Noting
            <4>2. raced = {} => status = "queued"
                BY <1>0, <3>2 DEF OneCopy
            <4> QED
                BY <1>0, <2>1, <3>2, <4>1, <4>2 DEF Placing, AskOfPlace
        <3> QED
            BY <3>1, <3>2
    <2>3. reply'[r] = "202 queued" /\ Reading(r)'
        BY <2>1, Tells
    <2> QED
        BY <2>2, <2>3 DEF Truly
<1>7. CASE IsStarted(r)
    <2>1. pc[r] = "is_started"
        BY <1>7 DEF IsStarted, Ask
    <2>2. CASE status = "absent" /\ Tell(r, "internal error")
        BY <1>3, <2>1, <2>2 DEF Reads
    <2>3. CASE status = "started" /\ Tell(r, "202 started")
        <3>1. "started" \in had[r]
            BY <1>0, <2>1, <2>3 DEF Noting
        <3>2. Reading(r)' /\ reply'[r] = "202 started"
            BY <2>3, Tells
        <3> QED
            BY <3>1, <3>2 DEF Truly
    <2>4. CASE status \notin {"absent", "started"} /\ Read(r, "is_finished")
        <3>1. Upset(r) \/ status \in Expected("is_finished")
            BY <1>0, <2>1, <2>4 DEF Noting, Expected, AskOfPlace
        <3> QED
            BY <1>1, <2>1, <2>4, <3>1, GoesOn DEF Reads, AskOfPlace
    <2> QED
        BY <1>7, <2>2, <2>3, <2>4, Zenon DEF IsStarted, Ask
<1>8. CASE IsFinished(r)
    <2>1. pc[r] = "is_finished"
        BY <1>8 DEF IsFinished, Ask
    <2>2. CASE status = "absent" /\ Tell(r, "internal error")
        BY <1>3, <2>1, <2>2 DEF Reads
    <2>3. CASE status = "finished" /\ Read(r, "return_value")
        <3>1. "finished" \in had[r] /\ status \in Expected("return_value")
            BY <1>0, <2>1, <2>3 DEF Noting, Expected, AskOfPlace
        <3> QED
            BY <1>1, <2>1, <2>3, <3>1, GoesOn DEF Reads, AskOfPlace
    <2>4. CASE status \notin {"absent", "finished"} /\ Tell(r, "internal error")
        <3>1. Upset(r)
            BY <1>0, <2>1, <2>4 DEF Noting, Expected, AskOfPlace
        <3>2. Reading(r)' /\ reply'[r] = "internal error"
            BY <2>4, Tells
        <3> QED
            BY <3>1, <3>2 DEF Truly
    <2> QED
        BY <1>8, <2>2, <2>3, <2>4, Zenon DEF IsFinished, Ask
<1>9. CASE ExcString(r)
    <2>1. "failed" \in had[r] /\ Upset(r)
        BY <1>0, <1>9 DEF ExcString, Noting, Upset
    <2>2. Tell(r, "500") \/ Tell(r, "internal error")
        BY <1>9 DEF ExcString
    <2>3. Reading(r)' /\ reply'[r] \in {"500", "internal error"}
        BY <2>2, Tells
    <2> QED
        BY <2>1, <2>3 DEF Truly
<1>10. CASE ReturnValue(r)
    <2>1. "finished" \in had[r] /\ (Upset(r) \/ status = "finished")
        BY <1>0, <1>10 DEF ReturnValue, Noting, Expected, AskOfPlace
    <2>2. Tell(r, IF result = "success" THEN "200" ELSE "internal error")
        BY <1>10 DEF ReturnValue
    <2>3. Upset(r) \/ result = "success"
        BY <1>0, <2>1 DEF OneCopy
    <2>4. Reading(r)' /\ reply'[r] = IF result = "success" THEN "200" ELSE "internal error"
        BY <2>2, Tells
    <2> QED
        BY <2>1, <2>3, <2>4 DEF Truly
<1> QED
    BY <1>2, <1>4, <1>5, <1>6, <1>7, <1>8, <1>9, <1>10 DEF Answering

LEMMA ReadingInductive ==
    TypeOK /\ AllReading /\ [Next]_vars => AllReading' /\ \A r \in Readers : Truly(r)
<1> SUFFICES ASSUME TypeOK, AllReading, [Next]_vars
             PROVE  AllReading' /\ \A r \in Readers : Truly(r)
    OBVIOUS
<1>1. CASE JobMoves
    <2>1. \A r \in Readers : Reading(r)' /\ pc' = pc
        BY <1>1, ReadingMoves
    <2>2. OneCopy'
        BY <1>1, OneCopyKept DEF AllReading
    <2> QED
        BY <2>1, <2>2 DEF AllReading, Truly, Answers
<1>2. ASSUME NEW x \in Readers, Answering(x)
      PROVE  AllReading' /\ \A r \in Readers : Truly(r)
    <2>0. UNCHANGED <<status, result, position, waiting, taken, running, raced>>
        BY <1>2, AnsweringKeeps
    <2>1. ASSUME NEW r \in Readers, r # x PROVE Reading(r)' /\ Truly(r)
        <3>1. pc'[r] = pc[r] /\ had'[r] = had[r] /\ places'[r] = places[r]
            <4>1. CASE Fetch(x)
                BY <2>1, <4>1 DEF Fetch, TypeOK
            <4>2. CASE ~Fetch(x)
                <5>1. \/ \E answer \in Replies : Tell(x, answer)
                      \/ \E read \in Reads : Read(x, read)
                    BY <1>2, <4>2, ReadsOn
                <5> QED
                    BY <2>1, <5>1 DEF Tell, Read, TypeOK
            <4> QED
                BY <4>1, <4>2
        <3>2. Reading(r)
            BY DEF AllReading
        <3> QED
            BY <2>0, <3>1, <3>2 DEF Reading, Noting, Placing, Upset, Truly, Answers
    <2>2. Reading(x)' /\ Truly(x)
        BY <1>2, ReadingSteps
    <2>3. OneCopy'
        BY <2>0 DEF AllReading, OneCopy
    <2> QED
        BY <2>1, <2>2, <2>3 DEF AllReading
<1>3. CASE UNCHANGED vars
    BY <1>3 DEF vars, job, copies, readers, AllReading, Reading, Noting, Placing, Upset, OneCopy,
                Truly, Answers
<1> QED
    BY <1>1, <1>2, <1>3 DEF Next

LEMMA ReadingAlways == Spec => []AllReading
<1>1. Init => AllReading
    BY DEF Init, AllReading, Reading, Noting, Placing, AskOfPlace, OneCopy
<1> QED
    BY <1>1, TypeCorrect, ReadingInductive, PTL DEF Spec

(* A client that polls while its build goes well gets no internal error,     *)
(* whichever of the handler's reads the build's steps fall between.          *)
THEOREM SuccessIsAlwaysSafe == Spec => SuccessIsSafe
<1>1. TypeOK /\ AllReading /\ [Next]_vars =>
          [\A r \in Readers :
               Answers(r) /\ reply'[r] = "internal error" =>
                   {"absent", "failed", "queued again", "raced"} \cap had[r] # {}]_vars
    BY ReadingInductive DEF Truly, Upset
<1> QED
    BY <1>1, TypeCorrect, ReadingAlways, PTL DEF Spec, SuccessIsSafe

(* Whatever the job does during the reads, an answer was true of it then, a  *)
(* position in the queue as well as a status.                                *)
THEOREM AnswerWasAlwaysTrue == Spec => AnswerWasTrue
<1>1. TypeOK /\ AllReading /\ [Next]_vars =>
          [\A r \in Readers :
               Answers(r) =>
                   /\ reply'[r] = "200"         => "finished" \in had[r]
                   /\ reply'[r] = "500"         => "failed" \in had[r]
                   /\ reply'[r] = "202 started" => "started" \in had[r]
                   /\ reply'[r] = "202 queued"  =>
                          \/ "raced" \in had[r]
                          \/ told'[r] \in places[r]
                          \/ told'[r] = 0 /\ Unlisted \in places[r]]_vars
    BY ReadingInductive DEF Truly
<1> QED
    BY <1>1, TypeCorrect, ReadingAlways, PTL DEF Spec, AnswerWasTrue

-----------------------------------------------------------------------------
(* ErrorLog: for every number of workers and every MAX_ENTRIES. *)

(* What a push and a trim do to a list. *)
LEMMA PushProperties ==
    ASSUME NEW S, NEW s \in Seq(S), NEW e \in S
    PROVE  /\ <<e>> \o s \in Seq(S)
           /\ Len(<<e>> \o s) = Len(s) + 1
           /\ \A i \in 1..Len(s) + 1 : (<<e>> \o s)[i] = IF i = 1 THEN e ELSE s[i - 1]
<1>1. <<e>> \in Seq(S) /\ Len(<<e>>) = 1 /\ <<e>>[1] = e
    OBVIOUS
<1>2. /\ <<e>> \o s \in Seq(S)
      /\ Len(<<e>> \o s) = 1 + Len(s)
      /\ \A i \in 1..1 + Len(s) :
             (<<e>> \o s)[i] = IF i <= 1 THEN <<e>>[i] ELSE s[i - 1]
    BY <1>1, ConcatProperties
<1>3. Len(s) \in Nat
    BY LenProperties
<1> QED
    BY <1>1, <1>2, <1>3

LEMMA TrimProperties ==
    ASSUME NEW S, NEW s \in Seq(S), NEW max \in Nat \ {0}
    PROVE  /\ Ltrim(s, max - 1) \in Seq(S)
           /\ Len(Ltrim(s, max - 1)) = IF max < Len(s) THEN max ELSE Len(s)
           /\ \A i \in 1..Len(Ltrim(s, max - 1)) : Ltrim(s, max - 1)[i] = s[i]
<1>0. Len(s) \in Nat /\ (\A i \in 1..Len(s) : s[i] \in S)
    BY LenProperties, ElementOfSeq
<1>1. CASE max < Len(s)
    <2>1. Ltrim(s, max - 1) = SubSeq(s, 1, max)
        BY <1>1 DEF Ltrim
    <2>2. \A i \in 1..max : s[i] \in S
        BY <1>0, <1>1
    <2>3. /\ SubSeq(s, 1, max) \in Seq(S)
          /\ Len(SubSeq(s, 1, max)) = max
          /\ \A i \in 1..max : SubSeq(s, 1, max)[i] = s[i]
        BY <2>2, SubSeqProperties
    <2> QED
        BY <1>1, <2>1, <2>3
<1>2. CASE ~(max < Len(s))
    <2>1. Ltrim(s, max - 1) = s
        BY <1>2 DEF Ltrim
    <2> QED
        BY <1>2, <2>1
<1> QED
    BY <1>1, <1>2

LEMMA PrefixPointwise ==
    ASSUME NEW S, NEW s \in Seq(S), NEW t \in Seq(S)
    PROVE  IsPrefix(s, t) <=> /\ Len(s) <= Len(t)
                              /\ \A i \in 1..Len(s) : s[i] = t[i]
<1>0. /\ Len(s) \in Nat /\ Len(t) \in Nat
      /\ (\A i \in 1..Len(s) : s[i] \in S) /\ (\A i \in 1..Len(t) : t[i] \in S)
    BY LenProperties, ElementOfSeq
<1>1. CASE Len(s) <= Len(t)
    <2>1. SubSeq(s, 1, Len(s)) = s
        BY SubSeqFull
    <2>2. \A i \in 1..Len(s) : t[i] \in S
        BY <1>0, <1>1
    <2>3. /\ SubSeq(t, 1, Len(s)) \in Seq(S)
          /\ Len(SubSeq(t, 1, Len(s))) = Len(s)
          /\ \A i \in 1..Len(s) : SubSeq(t, 1, Len(s))[i] = t[i]
        BY <1>0, <2>2, SubSeqProperties
    <2>4. SubSeq(t, 1, Len(s)) = s <=> \A i \in 1..Len(s) : s[i] = t[i]
        BY <2>3, SeqEqual
    <2> QED
        BY <1>1, <2>1, <2>4 DEF IsPrefix
<1>2. CASE ~(Len(s) <= Len(t))
    BY <1>2 DEF IsPrefix
<1> QED
    BY <1>1, <1>2

-----------------------------------------------------------------------------
LEMMA LogTypeInductive == LogTypeOK /\ [LogNext]_logVars => LogTypeOK'
<1> SUFFICES ASSUME LogTypeOK, [LogNext]_logVars PROVE LogTypeOK'
    OBVIOUS
<1> USE ErrorLogAssumption DEF Entries, None
<1>1. ASSUME NEW w \in Workers, LogError(w) PROVE LogTypeOK'
    <2>1. clock' \in 0..MaxErrors /\ clock' \in 1..MaxErrors
        BY <1>1 DEF LogTypeOK, LogError
    <2> QED
        BY <1>1, <2>1 DEF LogTypeOK, LogError
<1>2. ASSUME NEW w \in Workers, Push(w) PROVE LogTypeOK'
    <2>1. entry[w] \in 1..MaxErrors
        BY <1>2 DEF LogTypeOK, Push
    <2>2. log' \in Seq(1..MaxErrors) /\ pushed' \in Seq(1..MaxErrors)
        BY <1>2, <2>1, PushProperties DEF LogTypeOK, Push
    <2> QED
        BY <1>2, <2>1, <2>2 DEF LogTypeOK, Push
<1>3. ASSUME NEW w \in Workers, Trim(w) PROVE LogTypeOK'
    <2>1. log' \in Seq(1..MaxErrors)
        BY <1>3, TrimProperties DEF LogTypeOK, Trim
    <2> QED
        BY <1>3, <2>1 DEF LogTypeOK, Trim, Done
<1>4. ASSUME NEW w \in Workers, Leave(w) PROVE LogTypeOK'
    BY <1>4 DEF LogTypeOK, Leave, Done
<1>5. CASE UNCHANGED logVars
    BY <1>5 DEF LogTypeOK, logVars
<1> QED
    BY <1>1, <1>2, <1>3, <1>4, <1>5 DEF LogNext

(* The log, its history and the workers stay within their types. *)
THEOREM LogTypeCorrect == LogSpec => []LogTypeOK
<1>1. LogInit => LogTypeOK
    BY ErrorLogAssumption, EmptySeq DEF LogInit, LogTypeOK, Entries, None
<1> QED
    BY <1>1, LogTypeInductive, PTL DEF LogSpec

-----------------------------------------------------------------------------
(* Trimming gains or loses the one worker that moves. *)
LEMMA TrimmingFinite == IsFiniteSet(Trimming) /\ Cardinality(Trimming) \in Nat
    BY ErrorLogAssumption, FS_Subset, FS_CardinalityType DEF Trimming

LEMMA TrimmingPrime ==
    IsFiniteSet(Trimming') /\ Cardinality(Trimming') \in Nat
    BY ErrorLogAssumption, FS_Subset, FS_CardinalityType DEF Trimming

LEMMA BoundedInductive ==
    LogTypeOK /\ LogBounded /\ [LogNext]_logVars => LogBounded'
<1> SUFFICES ASSUME LogTypeOK, LogBounded, [LogNext]_logVars PROVE LogBounded'
    OBVIOUS
<1>0. Len(log) \in Nat /\ MaxEntries \in Nat \ {0} /\ untrimmed \in Nat
    BY LenProperties, ErrorLogAssumption DEF LogTypeOK
<1>1. ASSUME NEW w \in Workers, LogError(w) PROVE LogBounded'
    <2>1. Trimming' = Trimming
        BY <1>1 DEF LogError, Trimming, LogTypeOK
    <2> QED
        BY <1>1, <2>1 DEF LogError, LogBounded
<1>2. ASSUME NEW w \in Workers, Push(w) PROVE LogBounded'
    <2>1. Trimming' = Trimming \cup {w} /\ w \notin Trimming
        BY <1>2 DEF Push, Trimming, LogTypeOK
    <2>2. Cardinality(Trimming') = Cardinality(Trimming) + 1
        BY <2>1, TrimmingFinite, FS_AddElement
    <2>3. Len(log') = Len(log) + 1
        BY <1>2, PushProperties DEF Push, LogTypeOK
    <2> QED
        BY <1>0, <1>2, <2>2, <2>3, TrimmingFinite DEF Push, LogBounded
<1>3. ASSUME NEW w \in Workers, Trim(w) PROVE LogBounded'
    <2>0. Len(log') = IF MaxEntries < Len(log) THEN MaxEntries ELSE Len(log)
        BY <1>0, <1>3, TrimProperties DEF Trim, LogTypeOK
    <2>1. Len(log') <= MaxEntries
        BY <1>0, <2>0
    <2>2. Len(log') \in Nat
        BY <1>0, <2>0
    <2> QED
        BY <1>0, <1>3, <2>1, <2>2, TrimmingPrime DEF Trim, LogBounded
<1>4. ASSUME NEW w \in Workers, Leave(w) PROVE LogBounded'
    <2>1. CASE at[w] = "ltrim"
        <3>1. Trimming' = Trimming \ {w} /\ w \in Trimming
            BY <1>4, <2>1 DEF Leave, Done, Trimming, LogTypeOK
        <3>2. Cardinality(Trimming') = Cardinality(Trimming) - 1
            BY <3>1, TrimmingFinite, FS_RemoveElement
        <3> QED
            BY <1>0, <1>4, <2>1, <3>2, TrimmingFinite DEF Leave, LogBounded
    <2>2. CASE at[w] # "ltrim"
        <3>0. \A v \in Workers : at'[v] = "ltrim" <=> at[v] = "ltrim"
            BY <1>4, <2>2 DEF Leave, Done, LogTypeOK
        <3>1. Trimming' = Trimming
            BY <3>0 DEF Trimming
        <3> QED
            BY <1>4, <2>2, <3>1 DEF Leave, LogBounded
    <2> QED
        BY <2>1, <2>2
<1>5. CASE UNCHANGED logVars
    BY <1>5 DEF LogBounded, Trimming, logVars
<1> QED
    BY <1>1, <1>2, <1>3, <1>4, <1>5 DEF LogNext

(* However many workers log at once and whatever Redis refuses, the list     *)
(* outgrows MAX_ENTRIES only by what has not been trimmed.                   *)
THEOREM LogBoundedAlways == LogSpec => []LogBounded
<1>1. LogInit => LogBounded
    <2> SUFFICES ASSUME LogInit PROVE LogBounded
        OBVIOUS
    <2>1. Len(log) = 0 /\ untrimmed = 0
        BY EmptySeq DEF LogInit
    <2> QED
        BY <2>1, TrimmingFinite, ErrorLogAssumption DEF LogBounded
<1> QED
    BY <1>1, LogTypeCorrect, BoundedInductive, PTL DEF LogSpec

-----------------------------------------------------------------------------
(* NewestKept, element by element. *)
Newest ==
    /\ Len(log) <= Len(pushed)
    /\ \A i \in 1..Len(log) : log[i] = pushed[i]
    /\ Len(log) < MaxEntries => log = pushed

LEMMA NewestInductive ==
    LogTypeOK /\ Newest /\ [LogNext]_logVars => Newest'
<1> SUFFICES ASSUME LogTypeOK, Newest, [LogNext]_logVars PROVE Newest'
    OBVIOUS
<1>0. Len(log) \in Nat /\ Len(pushed) \in Nat /\ MaxEntries \in Nat \ {0}
    BY LenProperties, ErrorLogAssumption DEF LogTypeOK
<1>1. ASSUME NEW w \in Workers, LogError(w) \/ Leave(w) PROVE Newest'
    BY <1>1 DEF LogError, Leave, Newest
<1>2. ASSUME NEW w \in Workers, Push(w) PROVE Newest'
    <2>1. entry[w] \in Entries
        BY <1>2 DEF LogTypeOK, Push
    <2>2. /\ Len(log') = Len(log) + 1
          /\ \A i \in 1..Len(log) + 1 : log'[i] = IF i = 1 THEN entry[w] ELSE log[i - 1]
        BY <1>2, <2>1, PushProperties DEF Push, LogTypeOK
    <2>3. /\ Len(pushed') = Len(pushed) + 1
          /\ \A i \in 1..Len(pushed) + 1 :
                 pushed'[i] = IF i = 1 THEN entry[w] ELSE pushed[i - 1]
        BY <1>2, <2>1, PushProperties DEF Push, LogTypeOK
    <2>4. ASSUME NEW i \in 1..Len(log') PROVE log'[i] = pushed'[i]
        <3>1. i \in 1..Len(log) + 1 /\ i \in 1..Len(pushed) + 1
              /\ (i # 1 => i - 1 \in 1..Len(log))
            BY <1>0, <2>2, <2>4 DEF Newest
        <3> QED
            BY <2>2, <2>3, <3>1 DEF Newest
    <2>5. Len(log') < MaxEntries => log' = pushed'
        BY <1>0, <1>2, <2>2 DEF Newest, Push
    <2> QED
        BY <1>0, <2>2, <2>3, <2>4, <2>5 DEF Newest
<1>3. ASSUME NEW w \in Workers, Trim(w) PROVE Newest'
    <2>1. /\ Len(log') = IF MaxEntries < Len(log) THEN MaxEntries ELSE Len(log)
          /\ \A i \in 1..Len(log') : log'[i] = log[i]
        BY <1>0, <1>3, TrimProperties DEF Trim, LogTypeOK
    <2>2. Len(log') < MaxEntries => log' = log
        BY <1>0, <1>3, <2>1 DEF Trim, Ltrim
    <2> QED
        BY <1>0, <1>3, <2>1, <2>2 DEF Newest, Trim
<1>4. CASE UNCHANGED logVars
    BY <1>4 DEF Newest, logVars
<1> QED
    BY <1>1, <1>2, <1>3, <1>4 DEF LogNext

(* The list is the newest of the entries pushed, and MAX_ENTRIES of them at  *)
(* least.                                                                    *)
THEOREM NewestKeptAlways == LogSpec => []NewestKept
<1>1. LogInit => Newest
    BY EmptySeq DEF LogInit, Newest
<1>2. LogTypeOK /\ Newest => NewestKept
    BY PrefixPointwise DEF LogTypeOK, Newest, NewestKept
<1> QED
    BY <1>1, <1>2, LogTypeCorrect, NewestInductive, PTL DEF LogSpec
-----------------------------------------------------------------------------
(* FailureReport *)

(* Every step is one of the job and its readers, or none, *)
LEMMA ReplyStep == [ReportNext]_allVars => [Next]_vars
<1> SUFFICES ASSUME [ReportNext]_allVars PROVE [Next]_vars
    OBVIOUS
<1>1. ASSUME JobStays PROVE UNCHANGED vars
    BY <1>1 DEF JobStays, job, copies, vars
<1>2. ASSUME NEW w \in Workers,
             Take(w) \/ Succeeds(w) \/ Fails(w) \/ CountRefused(w)
                 \/ Logs(w) \/ Raise(w) \/ Die(w)
      PROVE  [Next]_vars
    BY <1>1, <1>2 DEF Take, Succeeds, Fails, CountRefused, Logs, Raise, Die, Next, JobMoves
<1>3. CASE Maintain
    BY <1>3 DEF Maintain, Next, JobMoves
<1>4. CASE Elsewhere
    BY <1>4 DEF Elsewhere, Next, JobMoves
<1>5. CASE UNCHANGED allVars
    BY <1>5 DEF allVars, job, copies, vars
<1> QED
    BY <1>2, <1>3, <1>4, <1>5 DEF ReportNext

(* and one of the log, or none. *)
LEMMA LogStep == [ReportNext]_allVars => [LogNext]_logVars
<1> SUFFICES ASSUME [ReportNext]_allVars PROVE [LogNext]_logVars
    OBVIOUS
<1>1. ASSUME NEW w \in Workers, Take(w) \/ Succeeds(w) \/ CountRefused(w) \/ Raise(w)
      PROVE  UNCHANGED logVars
    BY <1>1 DEF Take, Succeeds, CountRefused, Raise, LogStays
<1>2. ASSUME NEW w \in Workers, Fails(w) \/ Logs(w) \/ Die(w)
      PROVE  [LogNext]_logVars
    BY <1>2 DEF Fails, Logs, Die, LogStays, LogNext
<1>3. CASE Maintain \/ Elsewhere
    BY <1>3 DEF Maintain, Elsewhere, LogStays
<1>4. CASE UNCHANGED allVars
    BY <1>4 DEF allVars, logVars
<1> QED
    BY <1>1, <1>2, <1>3, <1>4 DEF ReportNext

(* build() and the workers keep to the life of the job that the handler is   *)
(* checked against: SuccessIsSafe and AnswerWasTrue hold beside them.        *)
THEOREM ReportImplementsReply == ReportSpec => Spec
<1>1. ReportInit => Init
    BY DEF ReportInit
<1> QED
    BY <1>1, ReplyStep, PTL DEF ReportSpec, Spec

(* They write the log as ErrorLog has it, so it stays bounded and keeps the  *)
(* newest entries.                                                           *)
THEOREM ReportKeepsLog == ReportSpec => LogSpec
<1>1. ReportInit => LogInit
    BY DEF ReportInit
<1> QED
    BY <1>1, LogStep, PTL DEF ReportSpec, LogSpec

-----------------------------------------------------------------------------
(* Every failure is logged *)

Types == TypeOK /\ LogTypeOK /\ ReportTypeOK

(* How far a worker is agrees with what it logs. *)
Staged ==
    \A w \in Workers :
        /\ stage[w] = "log" <=> at[w] # "idle"
        /\ doing[w] = "nothing" => stage[w] = "build"
        /\ stage[w] = "raise" => doing[w] = "job"

(* An entry that is still to be pushed is not in the log already. *)
Fresh ==
    /\ ours \subseteq 1..clock
    /\ Range(pushed) \subseteq 1..clock
    /\ \A w \in Workers :
           at[w] = "lpush" =>
               /\ entry[w] \in 1..clock
               /\ entry[w] \notin Range(pushed)
               /\ doing[w] = "job" => entry[w] \in ours
    /\ \A v, w \in Workers :
           v # w /\ at[v] = "lpush" /\ at[w] = "lpush" => entry[v] # entry[w]

(* The workers whose failure of the job is accounted for and still untold. *)
Ended == {w \in Workers : doing[w] = "job" /\ (stage[w] = "raise" \/ at[w] = "ltrim")}

(* The failures told and those still to be told, by a worker or, if it has   *)
(* died, by the maintenance, are logged or known not to be.                  *)
Accounts ==
    /\ Cardinality(Building) <= running
    /\ failures + Cardinality(Ended) + running
           <= Cardinality(Logged) + unlogged + Cardinality(Building)

ReportInv == Types /\ Staged /\ Fresh /\ Accounts

LEMMA ReportTypeInductive == Types /\ Staged /\ [ReportNext]_allVars => Types' /\ Staged'
<1> SUFFICES ASSUME Types, Staged, [ReportNext]_allVars PROVE Types' /\ Staged'
    OBVIOUS
<1>0. TypeOK' /\ LogTypeOK' /\ clock \in 0..MaxErrors
    BY ReplyStep, LogStep, TypeInductive, LogTypeInductive DEF Types, LogTypeOK
<1>1. ASSUME NEW w \in Workers, Take(w) \/ Succeeds(w) \/ CountRefused(w) \/ Raise(w)
      PROVE  ReportTypeOK' /\ Staged'
    <2>1. at' = at /\ ours' = ours /\ at[w] = "idle"
        BY <1>1 DEF Take, Succeeds, CountRefused, Raise, LogStays, logVars, SameCount, Staged
    <2>2. unlogged' \in Nat /\ failures' \in Nat
        BY <1>1 DEF Take, Succeeds, CountRefused, Raise, SameCount, Unlogged, Types, ReportTypeOK
    <2>3. \/ doing' = [doing EXCEPT ![w] = "job"] /\ stage' = stage
             /\ doing[w] = "nothing"
          \/ Ends(w)
          \/ doing' = doing /\ stage' = [stage EXCEPT ![w] = "raise"] /\ doing[w] = "job"
        BY <1>1 DEF Take, Succeeds, CountRefused, Raise
    <2>4. ReportTypeOK'
        BY <2>1, <2>2, <2>3 DEF Ends, Types, ReportTypeOK
    <2>5. Staged'
        BY <2>1, <2>3 DEF Ends, Types, ReportTypeOK, LogTypeOK, Staged
    <2> QED
        BY <2>4, <2>5
<1>2. ASSUME NEW w \in Workers, Fails(w)
      PROVE  ReportTypeOK' /\ Staged'
    <2>1. clock' \in 1..MaxErrors
        BY <1>0, <1>2, ErrorLogAssumption DEF Fails, LogError
    <2>2. ours' \subseteq 1..MaxErrors
        BY <1>2, <2>1 DEF Fails, Types, ReportTypeOK
    <2>3. at' = [at EXCEPT ![w] = "lpush"] /\ stage' = [stage EXCEPT ![w] = "log"]
          /\ doing[w] \in {"job", "nothing"}
          /\ (doing' = doing \/ doing' = [doing EXCEPT ![w] = "other"])
          /\ (doing[w] = "nothing" => doing'[w] = "other")
        BY <1>2 DEF Fails, LogError, Types, ReportTypeOK
    <2>4. ReportTypeOK'
        BY <1>2, <2>2, <2>3 DEF Fails, Types, ReportTypeOK
    <2>5. Staged'
        BY <2>3 DEF Types, ReportTypeOK, LogTypeOK, Staged
    <2> QED
        BY <2>4, <2>5
<1>3. ASSUME NEW w \in Workers, Logs(w)
      PROVE  ReportTypeOK' /\ Staged'
    <2>0. doing[w] \in {"job", "other"}
        BY <1>3 DEF Logs, Staged, Types, ReportTypeOK
    <2>1. at' = [at EXCEPT ![w] = "ltrim"] \/ at' = [at EXCEPT ![w] = "idle"]
        BY <1>3 DEF Logs, Push, Trim, Leave, Done
    <2>2. unlogged' \in Nat
        BY <1>3 DEF Logs, Unlogged, Types, ReportTypeOK
    <2>3. CASE at' = [at EXCEPT ![w] = "ltrim"]
        <3>1. UNCHANGED <<doing, stage, ours, failures>> /\ stage[w] = "log"
            BY <1>3, <2>3 DEF Logs, Types, LogTypeOK
        <3> QED
            BY <2>2, <2>3, <3>1 DEF Types, ReportTypeOK, LogTypeOK, Staged
    <2>4. CASE at' = [at EXCEPT ![w] = "idle"]
        <3>1. /\ UNCHANGED <<ours, failures>>
              /\ \/ doing[w] = "other" /\ Ends(w)
                 \/ doing[w] = "job" /\ stage' = [stage EXCEPT ![w] = "raise"]
                    /\ doing' = doing
            BY <1>3, <2>0, <2>4 DEF Logs, Types, LogTypeOK
        <3> QED
            BY <2>2, <2>4, <3>1, ZenonT(60) DEF Ends, Types, ReportTypeOK, LogTypeOK, Staged
    <2> QED
        BY <2>1, <2>3, <2>4
<1>4. ASSUME NEW w \in Workers, Die(w)
      PROVE  ReportTypeOK' /\ Staged'
    <2>1. unlogged' \in Nat
        BY <1>4 DEF Die, Unlogged, Types, ReportTypeOK
    <2>2. at' = [at EXCEPT ![w] = "idle"]
        BY <1>4 DEF Die, LogStays, logVars, Leave, Done, Types, LogTypeOK
    <2> QED
        BY <1>4, <2>1, <2>2 DEF Die, Ends, Types, ReportTypeOK, LogTypeOK, Staged
<1>5. CASE Maintain \/ Elsewhere \/ UNCHANGED allVars
    <2>1. UNCHANGED <<doing, stage, ours, at>>
        BY <1>5 DEF Maintain, Elsewhere, LogStays, logVars, reportVars, allVars
    <2>2. \/ failures' = failures \/ failures' = failures + 1
        BY <1>5 DEF Maintain, Elsewhere, reportVars, allVars
    <2>3. \/ unlogged' = unlogged \/ unlogged' = unlogged + 1
        BY <1>5 DEF Maintain, Elsewhere, reportVars, allVars
    <2>4. ReportTypeOK'
        BY <2>1, <2>2, <2>3 DEF Types, ReportTypeOK
    <2>5. Staged'
        BY <2>1 DEF Staged
    <2> QED
        BY <1>0, <2>4, <2>5 DEF Types
<1> QED
    BY <1>0, <1>1, <1>2, <1>3, <1>4, <1>5 DEF ReportNext, Types

(* A push adds its entry to the entries pushed. *)
LEMMA PushRange ==
    ASSUME LogTypeOK, NEW w \in Workers, Push(w)
    PROVE  Range(pushed') = Range(pushed) \cup {entry[w]}
<1>1. entry[w] \in Entries /\ pushed \in Seq(Entries)
    BY DEF LogTypeOK, Push
<1>2. /\ pushed' \in Seq(Entries)
      /\ Len(pushed') = Len(pushed) + 1
      /\ \A i \in 1..Len(pushed) + 1 :
             pushed'[i] = IF i = 1 THEN entry[w] ELSE pushed[i - 1]
    BY <1>1, PushProperties DEF Push
<1>3. DOMAIN pushed = 1..Len(pushed) /\ DOMAIN pushed' = 1..Len(pushed) + 1
      /\ Len(pushed) \in Nat
    BY <1>1, <1>2, LenProperties
<1>4. entry[w] \in Range(pushed')
    BY <1>2, <1>3 DEF Range
<1>5. ASSUME NEW i \in DOMAIN pushed PROVE pushed[i] \in Range(pushed')
    <2>1. i + 1 \in DOMAIN pushed' /\ pushed'[i + 1] = pushed[i]
        BY <1>2, <1>3
    <2> QED
        BY <2>1 DEF Range
<1>6. ASSUME NEW i \in DOMAIN pushed'
      PROVE  pushed'[i] = entry[w] \/ (i - 1 \in DOMAIN pushed /\ pushed'[i] = pushed[i - 1])
    BY <1>2, <1>3
<1> QED
    BY <1>4, <1>5, <1>6 DEF Range

LEMMA FreshInductive == Types /\ Staged /\ Fresh /\ [ReportNext]_allVars => Fresh'
<1> SUFFICES ASSUME Types, Staged, Fresh, [ReportNext]_allVars PROVE Fresh'
    OBVIOUS
<1>0. clock \in Nat /\ at \in [Workers -> {"idle", "lpush", "ltrim"}]
      /\ entry \in [Workers -> Entries \cup {None}]
      /\ doing \in [Workers -> {"nothing", "job", "other"}]
    BY ErrorLogAssumption DEF Types, LogTypeOK, ReportTypeOK
<1>1. ASSUME UNCHANGED <<clock, pushed>>, ours' = ours,
             NEW w \in Workers, at'[w] # "lpush" \/ doing[w] = doing'[w],
             \A v \in Workers : v # w => at'[v] = at[v] /\ doing'[v] = doing[v]
                                         /\ entry'[v] = entry[v],
             at'[w] = "lpush" => at[w] = "lpush" /\ entry'[w] = entry[w]
      PROVE  Fresh'
    BY <1>1 DEF Fresh
<1>2. ASSUME NEW w \in Workers, Take(w) \/ Succeeds(w) \/ CountRefused(w) \/ Raise(w)
      PROVE  Fresh'
    <2>1. UNCHANGED <<clock, pushed, at, entry, ours>> /\ at[w] = "idle"
          /\ \A v \in Workers : v # w => doing'[v] = doing[v]
        BY <1>0, <1>2 DEF Take, Succeeds, CountRefused, Raise, LogStays, logVars,
                          SameCount, Ends, Staged
    <2> QED
        BY <1>1, <2>1
<1>3. ASSUME NEW w \in Workers, Fails(w)
      PROVE  Fresh'
    <2>1. /\ clock' = clock + 1 /\ pushed' = pushed
          /\ entry' = [entry EXCEPT ![w] = clock + 1]
          /\ at' = [at EXCEPT ![w] = "lpush"]
          /\ \/ doing' = doing /\ ours' = ours \cup {clock + 1}
             \/ doing' = [doing EXCEPT ![w] = "other"] /\ ours' = ours
        BY <1>3 DEF Fails, LogError
    <2>2. 1..clock \subseteq 1..clock' /\ clock + 1 \in 1..clock' /\ clock + 1 \notin 1..clock
        BY <1>0, <2>1
    <2>3. ours' \subseteq 1..clock' /\ Range(pushed') \subseteq 1..clock'
        BY <2>1, <2>2 DEF Fresh
    <2>4. /\ entry'[w] = clock + 1 /\ entry'[w] \notin Range(pushed')
          /\ doing'[w] = "job" => entry'[w] \in ours'
        BY <1>0, <2>1, <2>2 DEF Fresh
    <2>5. ASSUME NEW v \in Workers, v # w, at'[v] = "lpush"
          PROVE  /\ entry'[v] \in 1..clock' /\ entry'[v] # entry'[w]
                 /\ entry'[v] \notin Range(pushed')
                 /\ doing'[v] = "job" => entry'[v] \in ours'
        <3>1. at[v] = "lpush" /\ entry'[v] = entry[v] /\ doing'[v] = doing[v]
            BY <1>0, <2>1, <2>5
        <3>2. entry[v] \in 1..clock /\ entry[v] \notin Range(pushed)
              /\ (doing[v] = "job" => entry[v] \in ours)
            BY <3>1 DEF Fresh
        <3> QED
            BY <2>1, <2>2, <2>4, <3>1, <3>2
    <2>6. ASSUME NEW v \in Workers, NEW u \in Workers, v # u,
                 at'[v] = "lpush", at'[u] = "lpush"
          PROVE  entry'[v] # entry'[u]
        <3>1. CASE v = w \/ u = w
            BY <2>5, <2>6, <3>1
        <3>2. CASE v # w /\ u # w
            BY <1>0, <2>1, <2>6, <3>2 DEF Fresh
        <3> QED
            BY <3>1, <3>2
    <2> QED
        BY <2>2, <2>3, <2>4, <2>5, <2>6 DEF Fresh
<1>4. ASSUME NEW w \in Workers, Logs(w)
      PROVE  Fresh'
    <2>0. ours' = ours /\ \A v \in Workers : v # w => doing'[v] = doing[v]
        BY <1>0, <1>4 DEF Logs, Ends
    <2>1. CASE Push(w)
        <3>1. /\ at[w] = "lpush" /\ at' = [at EXCEPT ![w] = "ltrim"]
              /\ entry' = entry /\ clock' = clock
            BY <2>1 DEF Push
        <3>2. Range(pushed') = Range(pushed) \cup {entry[w]}
            BY <2>1, PushRange DEF Types
        <3>3. Range(pushed') \subseteq 1..clock'
            BY <3>1, <3>2 DEF Fresh
        <3>4. ASSUME NEW v \in Workers, at'[v] = "lpush"
              PROVE  /\ v # w /\ at[v] = "lpush" /\ entry'[v] = entry[v]
                     /\ entry[v] # entry[w] /\ doing'[v] = doing[v]
            BY <1>0, <2>0, <3>1, <3>4 DEF Fresh
        <3>5. ASSUME NEW v \in Workers, at'[v] = "lpush"
              PROVE  /\ entry'[v] \in 1..clock'
                     /\ entry'[v] \notin Range(pushed')
                     /\ doing'[v] = "job" => entry'[v] \in ours'
            BY <2>0, <3>1, <3>2, <3>4, <3>5 DEF Fresh
        <3>6. ASSUME NEW v \in Workers, NEW u \in Workers, v # u,
                     at'[v] = "lpush", at'[u] = "lpush"
              PROVE  entry'[v] # entry'[u]
            BY <3>4, <3>6 DEF Fresh
        <3> QED
            BY <2>0, <3>1, <3>3, <3>5, <3>6 DEF Fresh
    <2>2. CASE Trim(w) \/ Leave(w)
        <3>1. /\ UNCHANGED <<clock, pushed>> /\ at'[w] = "idle"
              /\ \A v \in Workers : v # w => at'[v] = at[v] /\ entry'[v] = entry[v]
            BY <1>0, <2>2 DEF Trim, Leave, Done
        <3> QED
            BY <1>1, <2>0, <3>1
    <2> QED
        BY <1>4, <2>1, <2>2 DEF Logs
<1>5. ASSUME NEW w \in Workers, Die(w)
      PROVE  Fresh'
    <2>1. /\ UNCHANGED <<clock, pushed>> /\ ours' = ours /\ at'[w] = "idle"
          /\ \A v \in Workers : v # w => /\ at'[v] = at[v] /\ entry'[v] = entry[v]
                                         /\ doing'[v] = doing[v]
        BY <1>0, <1>5 DEF Die, LogStays, logVars, Leave, Done, Ends
    <2> QED
        BY <1>1, <2>1
<1>6. CASE Maintain \/ Elsewhere \/ UNCHANGED allVars
    <2>1. UNCHANGED <<clock, pushed, at, entry, doing, ours>>
        BY <1>6 DEF Maintain, Elsewhere, LogStays, logVars, reportVars, allVars
    <2> QED
        BY <2>1 DEF Fresh
<1> QED
    BY <1>2, <1>3, <1>4, <1>5, <1>6 DEF ReportNext

-----------------------------------------------------------------------------
(* The sets that the accounts count. *)
LEMMA CountsFinite ==
    ASSUME Types
    PROVE  /\ IsFiniteSet(Building) /\ Cardinality(Building) \in Nat
           /\ IsFiniteSet(Ended) /\ Cardinality(Ended) \in Nat
           /\ IsFiniteSet(Logged) /\ Cardinality(Logged) \in Nat
           /\ failures \in Nat /\ unlogged \in Nat /\ running \in Nat
<1>1. IsFiniteSet(Building) /\ IsFiniteSet(Ended)
    BY ErrorLogAssumption, FS_Subset DEF Building, Ended
<1>2. IsFiniteSet(1..MaxErrors)
    BY ErrorLogAssumption, FS_Interval
<1>3. IsFiniteSet(Logged)
    BY <1>2, FS_Subset DEF Logged, Types, ReportTypeOK
<1> QED
    BY <1>1, <1>3, FS_CardinalityType DEF Types, TypeOK, ReportTypeOK

(* One worker begins or ends the job, or comes to the end of logging it. *)
LEMMA CountOne ==
    ASSUME NEW S, NEW T, NEW x, IsFiniteSet(S)
    PROVE  /\ T = S \cup {x} /\ x \notin S => Cardinality(T) = Cardinality(S) + 1
           /\ T = S \ {x} /\ x \in S => Cardinality(T) = Cardinality(S) - 1
           /\ Cardinality(S) \in Nat
    BY FS_AddElement, FS_RemoveElement, FS_CardinalityType

(* No entry of the job leaves the entries pushed. *)
LEMMA LoggedGrows ==
    ASSUME Types, Types', Fresh, [ReportNext]_allVars
    PROVE  Cardinality(Logged) <= Cardinality(Logged')
<1>1. ours \subseteq ours'
    BY DEF ReportNext, Take, Succeeds, Fails, CountRefused, Logs, Raise, Die, Maintain,
           Elsewhere, SameCount, reportVars, allVars
<1>2. pushed' = pushed \/ \E w \in Workers : Push(w)
    BY LogStep DEF LogNext, LogError, Trim, Leave, logVars
<1>3. Range(pushed) \subseteq Range(pushed')
    BY <1>2, PushRange DEF Types
<1>4. Logged \subseteq Logged'
    BY <1>1, <1>3 DEF Logged
<1>5. IsFiniteSet(Logged')
    <2>1. IsFiniteSet(1..MaxErrors)
        BY ErrorLogAssumption, FS_Interval
    <2> QED
        BY <2>1, FS_Subset DEF Logged, Types, ReportTypeOK
<1> QED
    BY <1>4, <1>5, FS_Subset

LEMMA AccountsInductive ==
    ReportInv /\ Types' /\ [ReportNext]_allVars => Accounts'
<1> SUFFICES ASSUME Types, Staged, Fresh, Accounts, Types', [ReportNext]_allVars
             PROVE  Accounts'
    BY DEF ReportInv
<1>0. /\ at \in [Workers -> {"idle", "lpush", "ltrim"}]
      /\ doing \in [Workers -> {"nothing", "job", "other"}]
      /\ stage \in [Workers -> {"build", "log", "raise"}]
    BY DEF Types, LogTypeOK, ReportTypeOK
<1>1. /\ IsFiniteSet(Building) /\ IsFiniteSet(Ended)
      /\ Cardinality(Building) \in Nat /\ Cardinality(Ended) \in Nat
      /\ Cardinality(Logged) \in Nat
      /\ failures \in Nat /\ unlogged \in Nat /\ running \in Nat
    BY CountsFinite
<1>2. Cardinality(Logged') \in Nat /\ Cardinality(Logged) <= Cardinality(Logged')
    <2>1. IsFiniteSet(1..MaxErrors)
        BY ErrorLogAssumption, FS_Interval
    <2>2. IsFiniteSet(Logged')
        BY <2>1, FS_Subset DEF Logged, Types, ReportTypeOK
    <2> QED
        BY <2>2, LoggedGrows, FS_CardinalityType
<1>3. ASSUME NEW w \in Workers, Take(w) PROVE Accounts'
    <2>1. running' = running + 1 /\ failures' = failures /\ unlogged' = unlogged
        BY <1>3 DEF Take, Start, CopiesAre, SameCount
    <2>2. at' = at /\ stage' = stage /\ doing' = [doing EXCEPT ![w] = "job"]
          /\ doing[w] = "nothing" /\ at[w] = "idle" /\ stage[w] = "build"
        BY <1>3 DEF Take, LogStays, logVars, Staged
    <2>3. Building' = Building \cup {w} /\ w \notin Building
        BY <1>0, <2>2 DEF Building
    <2>4. Ended' = Ended
        BY <1>0, <2>2 DEF Ended
    <2> QED
        BY <1>1, <1>2, <2>1, <2>3, <2>4, CountOne DEF Accounts
<1>4. ASSUME NEW w \in Workers, Succeeds(w) PROVE Accounts'
    <2>1. running' = running - 1 /\ failures' = failures /\ unlogged' = unlogged
        BY <1>4 DEF Succeeds, Succeed, CopiesAre, SameCount
    <2>2. /\ at' = at /\ doing[w] = "job" /\ at[w] = "idle" /\ stage[w] = "build"
          /\ Ends(w)
        BY <1>4 DEF Succeeds, LogStays, logVars, Staged
    <2>3. Building' = Building \ {w} /\ w \in Building
        BY <1>0, <2>2 DEF Building, Ends
    <2>4. Ended' = Ended
        BY <1>0, <2>2 DEF Ended, Ends
    <2> QED
        BY <1>1, <1>2, <2>1, <2>3, <2>4, CountOne DEF Accounts
<1>5. ASSUME NEW w \in Workers, Fails(w) PROVE Accounts'
    <2>1. running' = running /\ failures' = failures /\ unlogged' = unlogged
        BY <1>5 DEF Fails, JobStays, job, copies
    <2>2. /\ at' = [at EXCEPT ![w] = "lpush"] /\ stage' = [stage EXCEPT ![w] = "log"]
          /\ at[w] = "idle" /\ stage[w] = "build"
          /\ \/ doing' = doing
             \/ doing[w] = "nothing" /\ doing' = [doing EXCEPT ![w] = "other"]
        BY <1>5 DEF Fails, LogError
    <2>3. Building' = Building
        BY <1>0, <2>2 DEF Building
    <2>4. Ended' = Ended
        BY <1>0, <2>2 DEF Ended
    <2> QED
        BY <1>1, <1>2, <2>1, <2>3, <2>4 DEF Accounts
<1>6. ASSUME NEW w \in Workers, CountRefused(w) PROVE Accounts'
    <2>1. running' = running /\ failures' = failures /\ unlogged' = unlogged + 1
        BY <1>6 DEF CountRefused, Unlogged, JobStays, job, copies
    <2>2. /\ at' = at /\ doing' = doing /\ stage' = [stage EXCEPT ![w] = "raise"]
          /\ doing[w] = "job" /\ at[w] = "idle" /\ stage[w] = "build"
        BY <1>6 DEF CountRefused, LogStays, logVars, Staged
    <2>3. Building' = Building
        BY <2>2 DEF Building
    <2>4. Ended' = Ended \cup {w} /\ w \notin Ended
        BY <1>0, <2>2 DEF Ended
    <2> QED
        BY <1>1, <1>2, <2>1, <2>3, <2>4, CountOne DEF Accounts
<1>7. ASSUME NEW w \in Workers, Logs(w) PROVE Accounts'
    <2>0. running' = running /\ failures' = failures /\ ours' = ours
          /\ stage[w] = "log" /\ doing[w] \in {"job", "other"}
        BY <1>0, <1>7 DEF Logs, JobStays, job, copies, Staged
    <2>1. CASE Push(w)
        <3>1. /\ at' = [at EXCEPT ![w] = "ltrim"] /\ at[w] = "lpush"
              /\ doing' = doing /\ stage' = stage /\ unlogged' = unlogged
            BY <1>0, <1>7, <2>1 DEF Logs, Push, Leave, Done
        <3>2. Building' = Building
            BY <3>1 DEF Building
        <3>3. CASE doing[w] = "job"
            <4>1. Ended' = Ended \cup {w} /\ w \notin Ended
                BY <1>0, <2>0, <3>1, <3>3 DEF Ended
            <4>2. Logged' = Logged \cup {entry[w]} /\ entry[w] \notin Logged
                BY <2>0, <2>1, <3>1, <3>3, PushRange DEF Logged, Fresh, Types
            <4>3. Cardinality(Logged') = Cardinality(Logged) + 1
                BY <4>2, CountsFinite, CountOne
            <4> QED
                BY <1>1, <2>0, <3>1, <3>2, <4>1, <4>3, CountOne DEF Accounts
        <3>4. CASE doing[w] = "other"
            <4>1. Ended' = Ended
                BY <1>0, <2>0, <3>1, <3>4 DEF Ended
            <4> QED
                BY <1>1, <1>2, <2>0, <3>1, <3>2, <4>1 DEF Accounts
        <3> QED
            BY <2>0, <3>3, <3>4
    <2>2. CASE Trim(w) \/ Leave(w)
        <3>1. /\ at' = [at EXCEPT ![w] = "idle"] /\ at[w] # "idle"
              /\ \/ doing[w] = "other" /\ Ends(w)
                 \/ /\ doing[w] = "job" /\ doing' = doing
                    /\ stage' = [stage EXCEPT ![w] = "raise"]
            BY <1>0, <1>7, <2>0, <2>2 DEF Logs, Trim, Leave, Done
        <3>2. Building' = Building
            BY <1>0, <3>1 DEF Building, Ends
        <3>3. CASE doing[w] = "other"
            <4>1. Ended' = Ended
                BY <1>0, <2>0, <3>1, <3>3 DEF Ended, Ends
            <4>2. unlogged' = unlogged
                BY <1>7, <3>3 DEF Logs, Unlogged
            <4> QED
                BY <1>1, <1>2, <2>0, <3>2, <4>1, <4>2 DEF Accounts
        <3>4. CASE doing[w] = "job" /\ at[w] = "ltrim"
            <4>1. Ended' = Ended
                BY <1>0, <2>0, <3>1, <3>4 DEF Ended
            <4>2. unlogged' = unlogged
                BY <1>7, <3>4 DEF Logs
            <4> QED
                BY <1>1, <1>2, <2>0, <3>2, <4>1, <4>2 DEF Accounts
        <3>5. CASE doing[w] = "job" /\ at[w] = "lpush"
            <4>1. Ended' = Ended \cup {w} /\ w \notin Ended
                BY <1>0, <2>0, <3>1, <3>5 DEF Ended
            <4>2. unlogged' = unlogged + 1
                BY <1>0, <1>7, <3>1, <3>5 DEF Logs, Unlogged, Push, Trim
            <4> QED
                BY <1>1, <1>2, <2>0, <3>2, <4>1, <4>2, CountOne DEF Accounts
        <3> QED
            BY <1>0, <2>0, <3>1, <3>3, <3>4, <3>5
    <2> QED
        BY <1>7, <2>1, <2>2 DEF Logs
<1>8. ASSUME NEW w \in Workers, Raise(w) PROVE Accounts'
    <2>1. running' = running - 1 /\ failures' = failures + 1 /\ unlogged' = unlogged
        BY <1>8 DEF Raise, Fail, CopiesAre
    <2>2. at' = at /\ doing[w] = "job" /\ stage[w] = "raise" /\ at[w] = "idle" /\ Ends(w)
        BY <1>8 DEF Raise, LogStays, logVars, Staged
    <2>3. Building' = Building \ {w} /\ w \in Building
        BY <1>0, <2>2 DEF Building, Ends
    <2>4. Ended' = Ended \ {w} /\ w \in Ended
        BY <1>0, <2>2 DEF Ended, Ends
    <2> QED
        BY <1>1, <1>2, <2>1, <2>3, <2>4, CountOne DEF Accounts
<1>9. ASSUME NEW w \in Workers, Die(w) PROVE Accounts'
    <2>0. running' = running /\ failures' = failures /\ Ends(w)
          /\ doing[w] \in {"job", "other"} /\ at' = [at EXCEPT ![w] = "idle"]
        BY <1>0, <1>9 DEF Die, JobStays, job, copies, LogStays, logVars, Leave, Done
    <2>1. CASE doing[w] = "other"
        <3>1. Building' = Building /\ Ended' = Ended
            BY <1>0, <2>0, <2>1 DEF Building, Ended, Ends
        <3>2. unlogged' = unlogged
            BY <1>9, <2>1 DEF Die, Unlogged
        <3> QED
            BY <1>1, <1>2, <2>0, <3>1, <3>2 DEF Accounts
    <2>2. CASE doing[w] = "job"
        <3>1. Building' = Building \ {w} /\ w \in Building
            BY <1>0, <2>0, <2>2 DEF Building, Ends
        <3>2. CASE stage[w] = "build" \/ at[w] = "lpush"
            <4>1. unlogged' = unlogged + 1
                BY <1>9, <2>2, <3>2 DEF Die, Unlogged
            <4>2. Ended' = Ended
                BY <1>0, <2>0, <2>2, <3>2 DEF Ended, Ends, Staged
            <4> QED
                BY <1>1, <1>2, <2>0, <3>1, <4>1, <4>2, CountOne DEF Accounts
        <3>3. CASE ~(stage[w] = "build" \/ at[w] = "lpush")
            <4>1. unlogged' = unlogged
                BY <1>9, <3>3 DEF Die
            <4>2. Ended' = Ended \ {w} /\ w \in Ended
                BY <1>0, <2>0, <2>2, <3>3 DEF Ended, Ends, Staged
            <4> QED
                BY <1>1, <1>2, <2>0, <3>1, <4>1, <4>2, CountOne DEF Accounts
        <3> QED
            BY <3>2, <3>3
    <2> QED
        BY <2>0, <2>1, <2>2
<1>10. CASE Maintain
    <2>1. Building' = Building /\ Ended' = Ended
        BY <1>10 DEF Maintain, LogStays, logVars, Building, Ended
    <2>2. failures' = failures + 1
        BY <1>10 DEF Maintain
    <2>3. \/ /\ running > Cardinality(Building) /\ running' = running - 1
             /\ unlogged' = unlogged
          \/ running' = running /\ unlogged' = unlogged + 1
        BY <1>10 DEF Maintain, Fail, FailUnstarted, CopiesAre
    <2> QED
        BY <1>1, <1>2, <2>1, <2>2, <2>3 DEF Accounts
<1>11. CASE Elsewhere \/ UNCHANGED allVars
    <2>1. UNCHANGED <<doing, stage, at, failures, unlogged>>
        BY <1>11 DEF Elsewhere, LogStays, logVars, reportVars, allVars
    <2>2. Building' = Building /\ Ended' = Ended
        BY <2>1 DEF Building, Ended
    <2>3. running' = running
        <3>1. CASE \E r \in Readers : Answering(r)
            BY <3>1, AnsweringKeeps
        <3>2. CASE Queue \/ Advance \/ Dequeue \/ Drop \/ Expire \/ UNCHANGED allVars
            BY <3>2 DEF Queue, Advance, Dequeue, Drop, Expire, CopiesAre, copies, allVars, job
        <3> QED
            BY <1>11, <3>1, <3>2 DEF Elsewhere
    <2> QED
        BY <1>1, <1>2, <2>1, <2>2, <2>3 DEF Accounts
<1> QED
    BY <1>3, <1>4, <1>5, <1>6, <1>7, <1>8, <1>9, <1>10, <1>11 DEF ReportNext

LEMMA ReportAlways == ReportSpec => []ReportInv
<1>1. ReportInit => ReportInv
    <2> SUFFICES ASSUME ReportInit PROVE ReportInv
        OBVIOUS
    <2>1. TypeOK /\ LogTypeOK
        BY JobReplyAssumption, ErrorLogAssumption, EmptySeq, ListedPlaces
           DEF ReportInit, Init, LogInit, TypeOK, LogTypeOK, Statuses, Fates, Reads,
               Replies, Entries, None
    <2>2. ReportTypeOK /\ Staged
        BY DEF ReportInit, LogInit, ReportTypeOK, Staged
    <2>3. Range(pushed) = {}
        BY DEF ReportInit, LogInit, Range
    <2>4. Fresh
        BY <2>3 DEF ReportInit, LogInit, Fresh
    <2>5. Building = {} /\ Ended = {} /\ Logged = {}
        BY <2>3 DEF ReportInit, Building, Ended, Logged
    <2>6. Accounts
        BY <2>5, FS_EmptySet DEF ReportInit, Init, Accounts
    <2> QED
        BY <2>1, <2>2, <2>4, <2>6 DEF ReportInv, Types
<1>2. ReportInv /\ [ReportNext]_allVars => ReportInv'
    BY ReportTypeInductive, FreshInductive, AccountsInductive DEF ReportInv
<1> QED
    BY <1>1, <1>2, PTL DEF ReportSpec

(* Every time the job is marked failed its error is in the log, unless Redis *)
(* refused it or the worker died first.                                      *)
THEOREM FailuresAlwaysLogged == ReportSpec => []FailuresLogged
<1>1. ReportInv => FailuresLogged
    <2> SUFFICES ASSUME ReportInv PROVE FailuresLogged
        OBVIOUS
    <2> QED
        BY CountsFinite DEF ReportInv, Accounts, FailuresLogged
<1> QED
    BY <1>1, ReportAlways, PTL

-----------------------------------------------------------------------------
(* What a client is told of *)

FailedCounted ==
    /\ result = "failure" => failures > 0
    /\ \A r \in Readers : reply[r] = "500" => failures > 0

LEMMA FailedCountedInductive ==
    Types /\ FailedCounted /\ [ReportNext]_allVars => FailedCounted'
<1> SUFFICES ASSUME Types, FailedCounted, [ReportNext]_allVars PROVE FailedCounted'
    OBVIOUS
<1>0. failures \in Nat /\ reply \in [Readers -> Replies]
    BY DEF Types, TypeOK, ReportTypeOK
<1>1. ASSUME failures' = failures + 1, reply' = reply PROVE FailedCounted'
    BY <1>0, <1>1 DEF FailedCounted
<1>2. ASSUME failures' = failures, result' = result \/ result' # "failure", reply' = reply
      PROVE  FailedCounted'
    BY <1>2 DEF FailedCounted
<1>3. ASSUME failures' = failures, JobStays \/ UNCHANGED allVars
      PROVE  FailedCounted'
    BY <1>3 DEF JobStays, allVars, job, readers, FailedCounted
<1>4. ASSUME NEW w \in Workers,
             Take(w) \/ Succeeds(w) \/ Fails(w) \/ CountRefused(w)
                 \/ Logs(w) \/ Raise(w) \/ Die(w)
      PROVE  FailedCounted'
    <2>1. CASE Take(w)
        BY <1>2, <2>1 DEF Take, Start, Becomes, SameCount
    <2>2. CASE Succeeds(w)
        BY <1>2, <2>2 DEF Succeeds, Succeed, Becomes, SameCount
    <2>3. CASE Fails(w) \/ CountRefused(w) \/ Logs(w) \/ Die(w)
        BY <1>3, <2>3 DEF Fails, CountRefused, Logs, Die
    <2>4. CASE Raise(w)
        BY <1>1, <2>4 DEF Raise, Fail, Becomes
    <2> QED
        BY <1>4, <2>1, <2>2, <2>3, <2>4
<1>5. CASE Maintain
    BY <1>1, <1>5 DEF Maintain, Fail, FailUnstarted, Becomes
<1>6. CASE Elsewhere
    <2>0. failures' = failures
        BY <1>6 DEF Elsewhere, reportVars
    <2>1. CASE Queue \/ Advance \/ Dequeue \/ Drop \/ Expire
        BY <1>2, <2>0, <2>1 DEF Queue, Advance, Dequeue, Drop, Expire, Becomes, readers
    <2>2. ASSUME NEW r \in Readers, Answering(r) PROVE FailedCounted'
        <3>1. result' = result
            BY <2>2, AnsweringKeeps
        <3>2. \A x \in Readers : reply'[x] = "500" => reply[x] = "500" \/ result = "failure"
            BY <1>0, <2>2 DEF Answering, Fetch, IsFailed, IsQueued, GetPosition, IsStarted,
                              IsFinished, ExcString, ReturnValue, Ask, Tell, Read
        <3> QED
            BY <2>0, <3>1, <3>2 DEF FailedCounted
    <2> QED
        BY <1>6, <2>1, <2>2 DEF Elsewhere
<1>7. CASE UNCHANGED allVars
    BY <1>3, <1>7 DEF allVars, reportVars
<1> QED
    BY <1>4, <1>5, <1>6, <1>7 DEF ReportNext

(* A client that is told of a failure can find it in the log, unless newer   *)
(* entries have displaced it or one of the job's failures was not logged.    *)
THEOREM ToldIsAlwaysLogged == ReportSpec => []ToldIsLogged
<1>1. ReportInit => FailedCounted
    BY DEF ReportInit, Init, FailedCounted
<1>2. ReportInv => Types
    BY DEF ReportInv
<1>3. ReportSpec => []FailedCounted
    BY <1>1, <1>2, ReportAlways, FailedCountedInductive, PTL DEF ReportSpec
<1>4. ReportSpec => []NewestKept
    BY ReportKeepsLog, NewestKeptAlways, PTL
<1>5. ReportInv /\ FailedCounted /\ NewestKept => ToldIsLogged
    <2> SUFFICES ASSUME ReportInv, FailedCounted, NewestKept,
                        NEW r \in Readers, pc[r] = "idle", reply[r] = "500", unlogged = 0
                 PROVE  \E i \in DOMAIN pushed :
                            /\ pushed[i] \in ours
                            /\ i <= MaxEntries => i \in DOMAIN log /\ log[i] = pushed[i]
        BY DEF ToldIsLogged
    <2>1. failures > 0
        BY DEF FailedCounted
    <2>2. Types /\ Accounts
        BY DEF ReportInv
    <2>3. Cardinality(Logged) > 0
        BY <2>1, <2>2, CountsFinite DEF Accounts
    <2>4. Logged # {}
        BY <2>3, FS_EmptySet
    <2>5. PICK i \in DOMAIN pushed : pushed[i] \in ours
        BY <2>4 DEF Logged, Range
    <2>6. log \in Seq(Entries) /\ pushed \in Seq(Entries) /\ MaxEntries \in Nat
        BY <2>2, ErrorLogAssumption DEF Types, LogTypeOK
    <2>7. /\ Len(log) <= Len(pushed)
          /\ \A j \in 1..Len(log) : log[j] = pushed[j]
          /\ Len(log) < MaxEntries => log = pushed
        BY <2>6, PrefixPointwise DEF NewestKept
    <2>8. DOMAIN log = 1..Len(log) /\ DOMAIN pushed = 1..Len(pushed)
          /\ Len(log) \in Nat /\ Len(pushed) \in Nat
        BY <2>6, LenProperties
    <2>9. i <= MaxEntries => i \in DOMAIN log /\ log[i] = pushed[i]
        BY <2>5, <2>6, <2>7, <2>8
    <2> QED
        BY <2>5, <2>9
<1> QED
    BY <1>3, <1>4, <1>5, ReportAlways, PTL
=================================================================================
