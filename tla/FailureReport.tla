----------------------------- MODULE FailureReport -----------------------------
(***************************************************************************)
(* What becomes of a build that fails: build() (asu/build.py) counts the   *)
(* failure, writes it to the error log and raises again; RQ then marks the *)
(* job failed, and return_job_v1 tells the client.  JobReply has the job   *)
(* and the answer, ErrorLog the log, which the workers share with the      *)
(* builds of other jobs.                                                   *)
(***************************************************************************)
EXTENDS JobReply, ErrorLog

VARIABLES
    doing,     \* each worker: a copy of the job, another job that failed, or
               \* nothing
    stage,     \* how far build() is: it builds, logs the error, raises it again
    ours,      \* history: the times of the errors that were the job's own
    failures,  \* history: how often the job was marked failed
    unlogged   \* history: its failures that got no entry, for Redis refused it
               \* or the worker died

reportVars == <<doing, stage, ours, failures, unlogged>>
allVars    == <<job, readers, logVars, reportVars>>

ReportTypeOK ==
    /\ doing \in [Workers -> {"nothing", "job", "other"}]
    /\ stage \in [Workers -> {"build", "log", "raise"}]
    /\ ours \subseteq 1..MaxErrors
    /\ failures \in Nat
    /\ unlogged \in Nat

ReportInit ==
    /\ Init
    /\ LogInit
    /\ doing = [w \in Workers |-> "nothing"]
    /\ stage = [w \in Workers |-> "build"]
    /\ ours = {}
    /\ failures = 0
    /\ unlogged = 0

Building == {w \in Workers : doing[w] = "job"}

(* The job and its readers, the log, and how far its failures were logged. *)
JobStays  == UNCHANGED <<job, readers>>
LogStays  == UNCHANGED logVars
SameCount == UNCHANGED <<ours, failures, unlogged>>

Ends(w) ==
    /\ doing' = [doing EXCEPT ![w] = "nothing"]
    /\ stage' = [stage EXCEPT ![w] = "build"]

Unlogged(w) == unlogged' = IF doing[w] = "job" THEN unlogged + 1 ELSE unlogged

-----------------------------------------------------------------------------
Take(w) ==
    /\ doing[w] = "nothing"
    /\ Start
    /\ doing' = [doing EXCEPT ![w] = "job"]
    /\ LogStays /\ SameCount /\ UNCHANGED stage

Succeeds(w) ==
    /\ doing[w] = "job" /\ stage[w] = "build"
    /\ Succeed
    /\ Ends(w)
    /\ LogStays /\ SameCount

(* The except clause of build(): the failure is counted and logged.  The     *)
(* builds of other jobs matter from their failure on, until it is logged.    *)
Fails(w) ==
    /\ stage[w] = "build"
    /\ LogError(w)
    /\ \/ doing[w] = "job" /\ ours' = ours \cup {clock'} /\ UNCHANGED doing
       \/ /\ doing[w] = "nothing"
          /\ doing' = [doing EXCEPT ![w] = "other"]
          /\ UNCHANGED ours
    /\ stage' = [stage EXCEPT ![w] = "log"]
    /\ JobStays /\ UNCHANGED <<failures, unlogged>>

(* If Redis refuses the count, its exception leaves the clause at once. *)
CountRefused(w) ==
    /\ doing[w] = "job" /\ stage[w] = "build"
    /\ stage' = [stage EXCEPT ![w] = "raise"]
    /\ Unlogged(w)
    /\ JobStays /\ LogStays /\ UNCHANGED <<doing, ours, failures>>

Logs(w) ==
    /\ stage[w] = "log"
    /\ \/ (Push(w) \/ Trim(w)) /\ UNCHANGED unlogged
       \/ Leave(w) /\ (IF at[w] = "lpush" THEN Unlogged(w) ELSE UNCHANGED unlogged)
    /\ IF at'[w] # "idle" THEN UNCHANGED <<doing, stage>>
       ELSE IF doing[w] = "other" THEN Ends(w)
       ELSE stage' = [stage EXCEPT ![w] = "raise"] /\ UNCHANGED doing
    /\ JobStays /\ UNCHANGED <<ours, failures>>

\* Mutant of Raise: the error is raised again before it has been logged.
RaiseFirst(w) ==
    /\ doing[w] = "job" /\ stage[w] \in {"log", "raise"} /\ at[w] # "ltrim"
    /\ Fail
    /\ failures' = failures + 1
    /\ Ends(w)
    /\ Done(w)
    /\ UNCHANGED <<log, clock, pushed, untrimmed, ours, unlogged>>

(* The end of the clause is the end of the job. *)
Raise(w) ==
    /\ stage[w] = "raise"
    /\ Fail
    /\ failures' = failures + 1
    /\ Ends(w)
    /\ LogStays /\ UNCHANGED <<ours, unlogged>>

(* The worker dies: its copy of the job stays until RQ's maintenance. *)
Die(w) ==
    /\ doing[w] # "nothing"
    /\ IF at[w] = "idle" THEN LogStays ELSE Leave(w)
    /\ IF stage[w] = "build" \/ at[w] = "lpush" THEN Unlogged(w) ELSE UNCHANGED unlogged
    /\ Ends(w)
    /\ JobStays /\ UNCHANGED <<ours, failures>>

Maintain ==
    /\ \/ /\ running > Cardinality(Building)
          /\ Fail
          /\ UNCHANGED unlogged
       \/ FailUnstarted /\ unlogged' = unlogged + 1
    /\ failures' = failures + 1
    /\ LogStays /\ UNCHANGED <<doing, stage, ours>>

Elsewhere ==
    /\ \/ Queue \/ Advance \/ Dequeue \/ Drop \/ Expire
       \/ \E r \in Readers : Answering(r)
    /\ LogStays /\ UNCHANGED reportVars

ReportNext ==
    \/ \E w \in Workers :
           \/ Take(w) \/ Succeeds(w) \/ Fails(w) \/ CountRefused(w)
           \/ Logs(w) \/ Raise(w) \/ Die(w)
    \/ Maintain
    \/ Elsewhere

ReportSpec == ReportInit /\ [][ReportNext]_allVars

-----------------------------------------------------------------------------
(* Properties *)

(* The entries of the job's own errors. *)
Logged == Range(pushed) \cap ours

(* Every time the job is marked failed there is an entry of it in the log,   *)
(* but for the failures that Redis refused to log or whose worker died       *)
(* before it could: build() logs before it raises.                           *)
FailuresLogged == failures <= Cardinality(Logged) + unlogged

(* A client that is told of a failure can find it in the log, unless         *)
(* MAX_ENTRIES newer entries have displaced it.                              *)
ToldIsLogged ==
    \A r \in Readers :
        pc[r] = "idle" /\ reply[r] = "500" /\ unlogged = 0 =>
            \E i \in DOMAIN pushed :
                /\ pushed[i] \in ours
                /\ i <= MaxEntries => i \in DOMAIN log /\ log[i] = pushed[i]
===============================================================================
