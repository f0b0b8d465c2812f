---------------------------- MODULE ImageBuildProofs ----------------------------
(***************************************************************************)
(* Theorems about ImageBuild: no container is lost track of, a failure     *)
(* stands, and an image that is reported as done is in the store.          *)
(***************************************************************************)
EXTENDS ImageBuild, TLAPS

(* What a build that has come past its checks has behind it. *)
Passed(b) ==
    \/ pc[b] \in {"sign", "signing", "upload", "uploading", "report", "done"}
    \/ pc[b] \in Cleaning /\ next[b] = "upload"

(* A container that podman has is in a try statement, or is accounted for. *)
Tracked(b) ==
    container[b] /\ b \notin leaked => pc[b] \in InTry \cup Cleaning \cup {"crashed"}

(* FailureStands for one build, with why a build that is done has passed. *)
Stands(b) ==
    /\ meta[b] = "failed" => Failing(b)
    /\ ~alarm[b] /\ b \notin swallowed => Failing(b)
    /\ Passed(b) => output[b] = "ok"
    /\ pc[b] = "done" => meta[b] = "done"

BuildInv == TypeOK /\ \A b \in Builds : Tracked(b) /\ Stands(b)

-----------------------------------------------------------------------------
(* Types *)

LEMMA InitType == Init => TypeOK
BY ImageBuildAssumption
   DEF Init, TypeOK, Nothing, Stages, InTry, Outside, Cleaning, Ended

(* report_error keeps the types of what it assigns, *)
LEMMA ReportErrorType ==
    ASSUME TypeOK, NEW b \in Builds, report_error(b)
    PROVE  /\ pc' \in [Builds -> {"idle"} \cup InTry \cup Outside \cup Cleaning \cup Ended]
           /\ next' \in [Builds -> {"check", "upload", "failed"}]
           /\ meta' \in [Builds -> Stages]
BY ZenonT(60) DEF TypeOK, report_error, Finally, Goto, Stage, Stages, Cleaning, Ended

(* and so does the copy of what a command has written. *)
LEMMA CopyType ==
    ASSUME TypeOK, NEW b \in Builds, NEW written \in SUBSET Artefacts, Copy(b, written)
    PROVE  /\ exists' \in [Dirs -> BOOLEAN]
           /\ files' \in [Dirs -> [Artefacts -> Builds \cup {NoBuild}]]
           /\ \A d \in Dirs : files'[d] # Nothing => exists'[d]
           /\ made' \subseteq Builds
<1> DEFINE new == [f \in Artefacts |-> IF f \in written THEN b ELSE files[DirOf[b]][f]]
<1>1. DirOf[b] \in Dirs
    BY ImageBuildAssumption
<1>2. new \in [Artefacts -> Builds \cup {NoBuild}]
    <2>1. files[DirOf[b]] \in [Artefacts -> Builds \cup {NoBuild}]
        BY <1>1 DEF TypeOK
    <2>2. \A f \in Artefacts : files[DirOf[b]][f] \in Builds \cup {NoBuild}
        BY <2>1
    <2> QED
        BY <2>2
<1>3. files' = [files EXCEPT ![DirOf[b]] = new]
    BY <1>1 DEF Copy, TypeOK
<1> HIDE DEF new
<1>4. files' \in [Dirs -> [Artefacts -> Builds \cup {NoBuild}]]
    BY <1>1, <1>2, <1>3 DEF TypeOK
<1>5. \A d \in Dirs : files'[d] # Nothing => exists'[d]
    BY <1>1, <1>3 DEF TypeOK, Copy
<1> QED
    BY <1>1, <1>4, <1>5 DEF TypeOK, Copy

LEMMA InterruptedType ==
    ASSUME TypeOK, NEW b \in Builds, Interrupted(b)
    PROVE  /\ pc' \in [Builds -> {"idle"} \cup InTry \cup Outside \cup Cleaning \cup Ended]
           /\ next' \in [Builds -> {"check", "upload", "failed"}]
           /\ container' \in [Builds -> BOOLEAN]
           /\ exists' \in [Dirs -> BOOLEAN]
           /\ files' \in [Dirs -> [Artefacts -> Builds \cup {NoBuild}]]
           /\ \A d \in Dirs : files'[d] # Nothing => exists'[d]
           /\ made' \subseteq Builds /\ leaked' \subseteq Builds
<1>1. CASE pc[b] \in InTry
    <2>1. PICK written \in SUBSET Artefacts :
              IF written = {} THEN UNCHANGED <<exists, files, made>> ELSE Copy(b, written)
        BY <1>1 DEF Interrupted, InTry, Outside
    <2>2. UNCHANGED <<exists, files, made>> \/ Copy(b, written)
        BY <2>1
    <2>3. /\ Finally(b, "failed")
          /\ UNCHANGED <<container, leaked>>
        BY <1>1 DEF Interrupted, InTry, Outside
    <2>4. /\ exists' \in [Dirs -> BOOLEAN]
          /\ files' \in [Dirs -> [Artefacts -> Builds \cup {NoBuild}]]
          /\ \A d \in Dirs : files'[d] # Nothing => exists'[d]
          /\ made' \subseteq Builds
        BY <2>2, CopyType DEF TypeOK
    <2> QED
        BY <2>3, <2>4 DEF TypeOK, Finally, Goto, Cleaning
<1>2. CASE pc[b] \notin InTry
    BY <1>2, ZenonT(60) DEF TypeOK, Interrupted, Goto, Ended
<1> QED
    BY <1>1, <1>2
LEMMA TypeStep == TypeOK /\ [Next]_vars => TypeOK'
<1> SUFFICES ASSUME TypeOK, [Next]_vars PROVE TypeOK'
    OBVIOUS
<1>1. ASSUME NEW b \in Builds, Begin(b) PROVE TypeOK'
    BY <1>1, ImageBuildAssumption DEF Begin, Goto, Outside, TypeOK, settingVars, historyVars
<1>2. ASSUME NEW b \in Builds, Prepare(b) PROVE TypeOK'
    BY <1>2, ImageBuildAssumption
       DEF Prepare, Goto, Stage, Stages, Outside, TypeOK, settingVars, historyVars
<1>3. ASSUME NEW b \in Builds, Connect(b) PROVE TypeOK'
    BY <1>3 DEF Connect, Goto, Stage, Stages, Outside, TypeOK, settingVars, storeVars, historyVars
<1>4. ASSUME NEW b \in Builds, Pull(b) PROVE TypeOK'
    BY <1>4, ReportErrorType
       DEF Pull, Goto, Outside, TypeOK, settingVars, storeVars, historyVars
<1>5. ASSUME NEW b \in Builds, Create(b) PROVE TypeOK'
    BY <1>5 DEF Create, Goto, InTry, TypeOK, settingVars, storeVars, historyVars
<1>6. ASSUME NEW b \in Builds, SetUp(b) PROVE TypeOK'
    BY <1>6, ReportErrorType
       DEF SetUp, Goto, Stage, Stages, InTry, TypeOK, settingVars, storeVars, historyVars
<1>7. ASSUME NEW b \in Builds, Revision(b) PROVE TypeOK'
    BY <1>7, ReportErrorType
       DEF Revision, Goto, Stage, Stages, InTry, TypeOK, settingVars, storeVars, historyVars
<1>8. ASSUME NEW b \in Builds, Manifest(b) PROVE TypeOK'
    BY <1>8, ReportErrorType
       DEF Manifest, Goto, Stage, Stages, InTry, TypeOK, settingVars, storeVars, historyVars
<1>9. ASSUME NEW b \in Builds, MakeImage(b) PROVE TypeOK'
    <2>1. PICK end \in {"ok", "too big", "error"}, written \in SUBSET Artefacts :
              /\ Copy(b, written)
              /\ output' = [output EXCEPT ![b] = end]
        BY <1>9 DEF MakeImage
    <2>2. /\ exists' \in [Dirs -> BOOLEAN]
          /\ files' \in [Dirs -> [Artefacts -> Builds \cup {NoBuild}]]
          /\ \A d \in Dirs : files'[d] # Nothing => exists'[d]
          /\ made' \subseteq Builds
        BY <2>1, CopyType
    <2>3. /\ Finally(b, "check")
          /\ UNCHANGED <<settingVars, container, meta, alarm, remote, latest, missed, leaked,
                          swallowed>>
        BY <1>9 DEF MakeImage
    <2>4. output' \in [Builds -> {"none", "ok", "too big", "error"}]
        BY <2>1 DEF TypeOK
    <2> QED
        BY <2>2, <2>3, <2>4, ZenonT(60) DEF Finally, Goto, Cleaning, TypeOK, settingVars
<1>10. ASSUME NEW b \in Builds, Kill(b) PROVE TypeOK'
    BY <1>10 DEF Kill, Goto, Cleaning, TypeOK, settingVars, storeVars, historyVars
<1>11. ASSUME NEW b \in Builds, Remove(b) PROVE TypeOK'
    <2>1. pc' \in [Builds -> {"idle"} \cup InTry \cup Outside \cup Cleaning \cup Ended]
        <3>1. next[b] \in Outside \cup Ended
            BY DEF Outside, Ended, TypeOK
        <3> QED
            BY <1>11, <3>1 DEF Remove, Goto, TypeOK
    <2>2. container' \in [Builds -> BOOLEAN] /\ leaked' \subseteq Builds
        BY <1>11 DEF Remove, TypeOK
    <2> QED
        BY <1>11, <2>1, <2>2 DEF Remove, TypeOK, settingVars, storeVars
<1>12. ASSUME NEW b \in Builds, Check(b) PROVE TypeOK'
    <2>1. report_error(b) \/ (Goto(b, "sign") /\ UNCHANGED <<next, meta>>)
        BY <1>12 DEF Check
    <2>2. /\ pc' \in [Builds -> {"idle"} \cup InTry \cup Outside \cup Cleaning \cup Ended]
          /\ next' \in [Builds -> {"check", "upload", "failed"}]
          /\ meta' \in [Builds -> Stages]
        BY <2>1, ReportErrorType DEF Goto, Outside, TypeOK
    <2>3. missed' \subseteq Builds
        BY <1>12 DEF Check, TypeOK
    <2> QED
        BY <1>12, <2>2, <2>3, ZenonT(60) DEF Check, TypeOK, settingVars, storeVars
<1>13. ASSUME NEW b \in Builds, SignCreate(b) PROVE TypeOK'
    BY <1>13 DEF SignCreate, Goto, InTry, Outside, TypeOK, settingVars, storeVars, historyVars
<1>14. ASSUME NEW b \in Builds, Sign(b) PROVE TypeOK'
    BY <1>14 DEF Sign, Finally, Goto, Cleaning, TypeOK, settingVars, storeVars, historyVars
<1>15. ASSUME NEW b \in Builds, UploadFile(b) PROVE TypeOK'
    <2>1. DirOf[b] \in Dirs
        BY ImageBuildAssumption
    <2>2. PICK f \in Artefacts : remote' = [remote EXCEPT ![DirOf[b]][f] = files[DirOf[b]][f]]
        BY <1>15 DEF UploadFile
    <2>3. /\ files[DirOf[b]] \in [Artefacts -> Builds \cup {NoBuild}]
          /\ remote[DirOf[b]] \in [Artefacts -> Builds \cup {NoBuild}]
        BY <2>1 DEF TypeOK
    <2>4. remote' = [remote EXCEPT ![DirOf[b]] = [remote[DirOf[b]] EXCEPT ![f] = files[DirOf[b]][f]]]
        BY <2>1, <2>2 DEF TypeOK
    <2>5. \A new \in [Artefacts -> Builds \cup {NoBuild}] :
              [remote EXCEPT ![DirOf[b]] = new] \in [Dirs -> [Artefacts -> Builds \cup {NoBuild}]]
        BY <2>1 DEF TypeOK
    <2>6. remote' \in [Dirs -> [Artefacts -> Builds \cup {NoBuild}]]
        BY <2>3, <2>4, <2>5
    <2> QED
        BY <1>15, <2>6 DEF UploadFile, Goto, Outside, TypeOK, settingVars, historyVars
<1>16. ASSUME NEW b \in Builds, Uploaded(b) PROVE TypeOK'
    <2>1. Nothing \in [Artefacts -> Builds \cup {NoBuild}]
        BY DEF Nothing
    <2>2. /\ exists' = [exists EXCEPT ![DirOf[b]] = @ /\ ~s3]
          /\ files' = [files EXCEPT ![DirOf[b]] = IF s3 THEN Nothing ELSE @]
        BY <1>16 DEF Uploaded
    <2> HIDE DEF Nothing
    <2>3. /\ exists' \in [Dirs -> BOOLEAN]
          /\ files' \in [Dirs -> [Artefacts -> Builds \cup {NoBuild}]]
        BY <2>1, <2>2, ImageBuildAssumption DEF TypeOK
    <2>4. \A d \in Dirs : files'[d] # Nothing => exists'[d]
        BY <2>2 DEF TypeOK
    <2> QED
        BY <1>16, <2>3, <2>4 DEF Uploaded, Goto, Outside, TypeOK, settingVars, historyVars
<1>17. ASSUME NEW b \in Builds, Report(b) PROVE TypeOK'
    BY <1>17
       DEF Report, Goto, Stage, Stages, Ended, TypeOK, settingVars, storeVars, historyVars
<1>18. ASSUME NEW b \in Builds, Raise(b) PROVE TypeOK'
    BY <1>18, InterruptedType, ZenonT(60) DEF Raise, TypeOK, settingVars
<1>19. ASSUME NEW b \in Builds, Timeout(b) PROVE TypeOK'
    <2>1. /\ alarm' \in [Builds -> BOOLEAN]
          /\ UNCHANGED <<settingVars, output, meta, remote, latest, missed>>
        BY <1>19 DEF Timeout, TypeOK
    <2>2. CASE Interrupted(b) /\ UNCHANGED swallowed
        BY <2>1, <2>2, InterruptedType, ZenonT(60) DEF TypeOK, settingVars
    <2>3. CASE ~(Interrupted(b) /\ UNCHANGED swallowed)
        <3>1. /\ Goto(b, IF pc[b] = "kill" THEN "remove" ELSE next[b])
              /\ swallowed' = swallowed \cup {b}
              /\ leaked' \in {leaked, leaked \cup {b}}
              /\ container' \in {container, [container EXCEPT ![b] = FALSE]}
              /\ UNCHANGED <<next, exists, files, made>>
            BY <1>19, <2>3 DEF Timeout
        <3>2. (IF pc[b] = "kill" THEN "remove" ELSE next[b]) \in Outside \cup Cleaning \cup Ended
            BY DEF Outside, Cleaning, Ended, TypeOK
        <3>3. pc' \in [Builds -> {"idle"} \cup InTry \cup Outside \cup Cleaning \cup Ended]
            BY <3>1, <3>2 DEF Goto, TypeOK
        <3>4. container' \in [Builds -> BOOLEAN] /\ leaked' \subseteq Builds
            BY <3>1 DEF TypeOK
        <3>5. UNCHANGED <<settingVars, next, output, meta, exists, files, remote, latest>>
            BY <2>1, <3>1
        <3>6. swallowed' \subseteq Builds /\ UNCHANGED <<made, missed>>
            BY <2>1, <3>1 DEF TypeOK
        <3> QED
            BY <2>1, <3>3, <3>4, <3>5, <3>6 DEF TypeOK, settingVars
    <2> QED
        BY <2>2, <2>3
<1>20. ASSUME NEW b \in Builds, Crash(b) PROVE TypeOK'
    BY <1>20 DEF Crash, Goto, Ended, TypeOK, settingVars, storeVars, historyVars
<1>21. CASE UNCHANGED vars
    BY <1>21 DEF vars, TypeOK, settingVars, storeVars, historyVars
<1> QED
    BY <1>1, <1>2, <1>3, <1>4, <1>5, <1>6, <1>7, <1>8, <1>9, <1>10, <1>11, <1>12, <1>13,
       <1>14, <1>15, <1>16, <1>17, <1>18, <1>19, <1>20, <1>21
       DEF Next, Build
-----------------------------------------------------------------------------
(* Containers and failures *)

(* What a build does is its own. *)
OthersStay(b) ==
    \A a \in Builds \ {b} :
        /\ UNCHANGED <<pc[a], next[a], container[a], output[a], meta[a], alarm[a]>>
        /\ a \in leaked' <=> a \in leaked
        /\ a \in swallowed' <=> a \in swallowed

LEMMA BuildStep ==
    ASSUME TypeOK, NEW b \in Builds, Tracked(b), Stands(b),
           Build(b) \/ Raise(b) \/ Timeout(b) \/ Crash(b)
    PROVE  Tracked(b)' /\ Stands(b)' /\ OthersStay(b)
<1> USE DEF TypeOK, Tracked, Stands, Passed, Failing, OthersStay, Running,
            InTry, Outside, Cleaning, Ended
<1> DEFINE Goal == Tracked(b)' /\ Stands(b)' /\ OthersStay(b)
<1>0. ASSUME report_error(b), pc[b] \in InTry \cup {"pull", "check"},
             UNCHANGED <<container, output, alarm, leaked, swallowed>>
      PROVE  Goal
    <2>1. CASE pc[b] \in InTry
        BY <1>0, <2>1, ZenonT(60) DEF report_error, Finally, Goto, Stage
    <2>2. CASE pc[b] \notin InTry
        BY <1>0, <2>2 DEF report_error, Goto, Stage
    <2> QED
        BY <2>1, <2>2
<1>1. CASE Begin(b)
    BY <1>1 DEF Begin, Goto, storeVars, historyVars
<1>2. CASE Prepare(b)
    BY <1>2 DEF Prepare, Goto, Stage, historyVars
<1>3. CASE Connect(b)
    BY <1>3 DEF Connect, Goto, Stage, historyVars
<1>4. CASE Pull(b)
    <2>1. CASE report_error(b)
        BY <1>0, <1>4, <2>1 DEF Pull, historyVars
    <2>2. CASE ~report_error(b)
        BY <1>4, <2>2 DEF Pull, Goto, Stage, historyVars
    <2> QED
        BY <2>1, <2>2
<1>5. CASE Create(b)
    BY <1>5 DEF Create, Goto, historyVars
<1>6. CASE SetUp(b)
    <2>1. CASE report_error(b)
        BY <1>0, <1>6, <2>1 DEF SetUp, historyVars
    <2>2. CASE ~report_error(b)
        BY <1>6, <2>2 DEF SetUp, Goto, Stage, historyVars
    <2> QED
        BY <2>1, <2>2
<1>7. CASE Revision(b)
    <2>1. CASE report_error(b)
        BY <1>0, <1>7, <2>1 DEF Revision, historyVars
    <2>2. CASE ~report_error(b)
        BY <1>7, <2>2 DEF Revision, Goto, Stage, historyVars
    <2> QED
        BY <2>1, <2>2
<1>8. CASE Manifest(b)
    <2>1. CASE report_error(b)
        BY <1>0, <1>8, <2>1 DEF Manifest, historyVars
    <2>2. CASE ~report_error(b)
        BY <1>8, <2>2 DEF Manifest, Goto, Stage, historyVars
    <2> QED
        BY <2>1, <2>2
<1>9. CASE MakeImage(b)
    BY <1>9 DEF MakeImage, Finally, Goto, historyVars
<1>10. CASE Kill(b)
    BY <1>10 DEF Kill, Goto, historyVars
<1>11. CASE Remove(b)
    BY <1>11 DEF Remove, Goto, historyVars
<1>12. CASE Check(b)
    <2>1. CASE report_error(b)
        BY <1>0, <1>12, <2>1 DEF Check, historyVars
    <2>2. CASE ~report_error(b)
        BY <1>12, <2>2 DEF Check, Goto, Stage, historyVars
    <2> QED
        BY <2>1, <2>2
<1>13. CASE SignCreate(b)
    BY <1>13 DEF SignCreate, Goto, historyVars
<1>14. CASE Sign(b)
    BY <1>14 DEF Sign, Finally, Goto, historyVars
<1>15. CASE UploadFile(b)
    BY <1>15 DEF UploadFile, Goto, historyVars
<1>16. CASE Uploaded(b)
    BY <1>16 DEF Uploaded, Goto, historyVars
<1>17. CASE Report(b)
    BY <1>17 DEF Report, Goto, Stage, historyVars
<1>18. CASE Raise(b)
    BY <1>18 DEF Raise, Interrupted, Finally, Goto, historyVars
<1>19. CASE Timeout(b)
    <2>1. CASE Interrupted(b) /\ UNCHANGED swallowed
        <3>1. pc'[b] = "failed" \/ (pc'[b] = "kill" /\ next'[b] = "failed")
            BY <2>1 DEF Interrupted, Finally, Goto
        <3>2. Tracked(b)'
            BY <2>1 DEF Interrupted, Finally, Goto
        <3>3. OthersStay(b)
            BY <1>19, <2>1, ZenonT(60) DEF Timeout, Interrupted, Finally, Goto
        <3> QED
            BY <3>1, <3>2, <3>3
    <2>2. CASE ~(Interrupted(b) /\ UNCHANGED swallowed)
        BY <1>19, <2>2, ZenonT(60) DEF Timeout, Goto
    <2> QED
        BY <2>1, <2>2
<1>20. CASE Crash(b)
    BY <1>20 DEF Crash, Goto, historyVars
<1> QED
    BY <1>1, <1>2, <1>3, <1>4, <1>5, <1>6, <1>7, <1>8, <1>9, <1>10, <1>11, <1>12, <1>13, <1>14, <1>15, <1>16, <1>17, <1>18, <1>19, <1>20 DEF Build
LEMMA InvStep == BuildInv /\ [Next]_vars => BuildInv'
<1> SUFFICES ASSUME BuildInv, [Next]_vars PROVE BuildInv'
    OBVIOUS
<1>1. TypeOK'
    BY TypeStep DEF BuildInv
<1>2. ASSUME NEW b \in Builds, Build(b) \/ Raise(b) \/ Timeout(b) \/ Crash(b), NEW a \in Builds
      PROVE  Tracked(a)' /\ Stands(a)'
    <2>1. Tracked(b)' /\ Stands(b)' /\ OthersStay(b)
        BY <1>2, BuildStep DEF BuildInv
    <2>2. CASE a # b
        BY <2>1, <2>2 DEF BuildInv, OthersStay, Tracked, Stands, Passed, Failing
    <2> QED
        BY <2>1, <2>2
<1>3. CASE UNCHANGED vars
    BY <1>1, <1>3
       DEF BuildInv, vars, historyVars, Tracked, Stands, Passed, Failing
<1> QED
    BY <1>1, <1>2, <1>3 DEF Next, BuildInv

LEMMA Invariant == Spec => []BuildInv
<1>1. Init => BuildInv
    BY InitType DEF Init, BuildInv, Tracked, Stands, Passed, Failing, Cleaning
<1> QED
    BY <1>1, InvStep, PTL DEF Spec

(* Whatever fails, and however many builds run together. *)
THEOREM BuildTypeCorrect == Spec => []TypeOK
BY Invariant, PTL DEF BuildInv

(* Every way out of the two try statements of _build goes through            *)
(* _cleanup_container, so that podman keeps a container of a build that has  *)
(* ended only if it refused to remove it, or the call that created it raised.*)
THEOREM ContainersAlwaysRemoved == Spec => []ContainersRemoved
<1>1. BuildInv => ContainersRemoved
    BY DEF BuildInv, Tracked, ContainersRemoved, InTry, Cleaning
<1> QED
    BY <1>1, Invariant, PTL

(* A failure that the client was told, or a job_timeout that was not         *)
(* swallowed, is the end of a build, and only an image that was made is done.*)
THEOREM FailuresStand == Spec => []FailureStands
<1>1. BuildInv => FailureStands
    BY DEF BuildInv, Stands, Passed, FailureStands
<1> QED
    BY <1>1, Invariant, PTL
-----------------------------------------------------------------------------
(* The store, when no two builds with one bin_dir run at a time *)

(* The latest build of a bin_dir is the only one that runs, *)
Alone(b) ==
    Running(b) =>
        /\ latest[DirOf[b]] = b
        /\ \A a \in Builds \ {b} : DirOf[a] = DirOf[b] => ~Running(a)

HasImage(artefacts, b) == artefacts["image"] = b
Complete(artefacts, b) == artefacts["image"] = b /\ artefacts["json"] # NoBuild

(* and what it has made is in bin_dir until it is in the store.  Once it is  *)
(* done, only a later build of the bin_dir can take it away.                 *)
Held(b) ==
    LET d == DirOf[b]
    IN  /\ (pc[b] = "check" \/ (pc[b] \in Cleaning /\ next[b] = "check")) /\ output[b] = "ok"
               => HasImage(files[d], b)
        /\ Passed(b) /\ pc[b] \notin {"report", "done"} => Complete(files[d], b)
        /\ pc[b] = "report" \/ (pc[b] = "done" /\ latest[d] = b) => Complete(Stored(d), b)

StoreInv == BuildInv /\ \A b \in Builds : Alone(b) /\ Held(b)

(* A build writes to its own bin_dir only, and is its latest from the start. *)
DirsStay(b) ==
    /\ UNCHANGED s3
    /\ \A d \in Dirs \ {DirOf[b]} : UNCHANGED <<files[d], remote[d], latest[d]>>
    /\ \/ pc[b] = "idle" /\ latest'[DirOf[b]] = b
       \/ Running(b) /\ UNCHANGED latest

LEMMA HeldStep ==
    ASSUME TypeOK, NEW b \in Builds, Stands(b), Held(b),
           Build(b) \/ Raise(b) \/ Timeout(b) \/ Crash(b)
    PROVE  Held(b)' /\ DirsStay(b)
<1> USE ImageBuildAssumption
    DEF TypeOK, Stands, Passed, Held, HasImage, Complete, Stored, DirsStay, Running, Failing,
        Artefacts, InTry, Outside, Cleaning, Ended, settingVars, storeVars
<1>0. ASSUME Interrupted(b), UNCHANGED <<s3, remote, latest>>
      PROVE  Held(b)' /\ DirsStay(b)
    <2>1. Running(b)
        BY <1>0 DEF Interrupted
    <2>2. pc'[b] = "failed" \/ (pc'[b] = "kill" /\ next'[b] = "failed")
        BY <1>0 DEF Interrupted, Finally, Goto
    <2>3. Held(b)'
        BY <2>2
    <2>4. \A d \in Dirs \ {DirOf[b]} : UNCHANGED files[d]
        BY <1>0 DEF Interrupted, Copy
    <2> QED
        BY <1>0, <2>1, <2>3, <2>4
<1>E. ASSUME report_error(b), pc[b] \in InTry \cup {"pull", "check"},
             UNCHANGED <<s3, files, remote, latest>>
      PROVE  Held(b)' /\ DirsStay(b)
    <2>1. pc'[b] = "failed" \/ (pc'[b] = "kill" /\ next'[b] = "failed")
        BY <1>E DEF report_error, Finally, Goto
    <2>2. Held(b)'
        BY <2>1
    <2> QED
        BY <1>E, <2>2
<1>1. CASE Begin(b)
    BY <1>1 DEF Begin, Goto, settingVars
<1>2. CASE Prepare(b)
    BY <1>2 DEF Prepare, Goto
<1>3. CASE Connect(b)
    BY <1>3 DEF Connect, Goto
<1>4. CASE Pull(b)
    <2>1. CASE report_error(b)
        BY <1>E, <1>4, <2>1 DEF Pull
    <2>2. CASE ~report_error(b)
        BY <1>4, <2>2 DEF Pull, Goto
    <2> QED
        BY <2>1, <2>2
<1>5. CASE Create(b)
    BY <1>5 DEF Create, Goto
<1>6. CASE SetUp(b)
    <2>1. CASE report_error(b)
        BY <1>E, <1>6, <2>1 DEF SetUp
    <2>2. CASE ~report_error(b)
        BY <1>6, <2>2 DEF SetUp, Goto
    <2> QED
        BY <2>1, <2>2
<1>7. CASE Revision(b)
    <2>1. CASE report_error(b)
        BY <1>E, <1>7, <2>1 DEF Revision
    <2>2. CASE ~report_error(b)
        BY <1>7, <2>2 DEF Revision, Goto
    <2> QED
        BY <2>1, <2>2
<1>8. CASE Manifest(b)
    <2>1. CASE report_error(b)
        BY <1>E, <1>8, <2>1 DEF Manifest
    <2>2. CASE ~report_error(b)
        BY <1>8, <2>2 DEF Manifest, Goto
    <2> QED
        BY <2>1, <2>2
<1>9. CASE MakeImage(b)
    <2>1. PICK end \in {"ok", "too big", "error"}, written \in SUBSET Artefacts :
              /\ end = "ok" => "image" \in written
              /\ Copy(b, written)
              /\ output' = [output EXCEPT ![b] = end]
        BY <1>9 DEF MakeImage
    <2>2. end = "ok" => HasImage(files'[DirOf[b]], b)
        BY <2>1 DEF Copy
    <2>3. output'[b] = end
        BY <2>1
    <2>4. /\ pc'[b] = "kill" /\ next'[b] = "check"
          /\ pc[b] = "image"
          /\ UNCHANGED <<s3, remote, latest>>
        BY <1>9 DEF MakeImage, Finally, Goto
    <2>5. Held(b)'
        BY <2>2, <2>3, <2>4
    <2>6. \A d \in Dirs \ {DirOf[b]} : UNCHANGED files[d]
        BY <2>1 DEF Copy
    <2> QED
        BY <2>4, <2>5, <2>6
<1>10. CASE Kill(b)
    BY <1>10 DEF Kill, Goto
<1>11. CASE Remove(b)
    BY <1>11 DEF Remove, Goto
<1>12. CASE Check(b)
    <2>1. CASE report_error(b)
        BY <1>E, <1>12, <2>1 DEF Check
    <2>2. CASE ~report_error(b)
        BY <1>12, <2>2 DEF Check, Goto
    <2> QED
        BY <2>1, <2>2
<1>13. CASE SignCreate(b)
    BY <1>13 DEF SignCreate, Goto
<1>14. CASE Sign(b)
    BY <1>14 DEF Sign, Finally, Goto
<1>15. CASE UploadFile(b)
    BY <1>15 DEF UploadFile, Goto
<1>16. CASE Uploaded(b)
    <2>1. pc'[b] = "report" /\ UNCHANGED <<s3, next, output, remote, latest>>
        BY <1>16 DEF Uploaded, Goto
    <2>2. Complete(files[DirOf[b]], b)
        BY <1>16 DEF Uploaded
    <2>3. Complete(Stored(DirOf[b])', b)
        <3>1. CASE s3
            BY <1>16, <2>1, <2>2, <3>1 DEF Uploaded
        <3>2. CASE ~s3
            <4>1. files'[DirOf[b]] = files[DirOf[b]]
                BY <1>16, <3>2 DEF Uploaded
            <4> QED
                BY <2>1, <2>2, <3>2, <4>1
        <3> QED
            BY <3>1, <3>2
    <2>4. DirsStay(b)
        BY <1>16, <2>1 DEF Uploaded
    <2> QED
        BY <2>1, <2>3, <2>4
<1>17. CASE Report(b)
    BY <1>17 DEF Report, Goto
<1>18. CASE Raise(b)
    BY <1>0, <1>18 DEF Raise
<1>19. CASE Timeout(b)
    <2>1. CASE Interrupted(b)
        BY <1>0, <1>19, <2>1 DEF Timeout
    <2>2. CASE ~Interrupted(b)
        BY <1>19, <2>2, ZenonT(60) DEF Timeout, Goto
    <2> QED
        BY <2>1, <2>2
<1>20. CASE Crash(b)
    BY <1>20 DEF Crash, Goto
<1> QED
    BY <1>1, <1>2, <1>3, <1>4, <1>5, <1>6, <1>7, <1>8, <1>9, <1>10, <1>11, <1>12, <1>13, <1>14, <1>15, <1>16, <1>17, <1>18, <1>19, <1>20 DEF Build
LEMMA StoreStep ==
    ASSUME ~Together, StoreInv, [Next]_vars PROVE StoreInv'
<1>1. BuildInv'
    BY InvStep DEF StoreInv
<1>2. ASSUME NEW b \in Builds, Build(b) \/ Raise(b) \/ Timeout(b) \/ Crash(b), NEW a \in Builds
      PROVE  Alone(a)' /\ Held(a)'
    <2>1. /\ TypeOK /\ Tracked(b) /\ Stands(b)
          /\ Alone(a) /\ Held(a) /\ Alone(b) /\ Held(b)
        BY DEF StoreInv, BuildInv
    <2>2. OthersStay(b)
        BY <1>2, <2>1, BuildStep
    <2>3. Held(b)' /\ DirsStay(b)
        BY <1>2, <2>1, HeldStep
    <2>4. \A c \in Builds \ {b} : Running(c)' <=> Running(c)
        BY <2>2 DEF OthersStay, Running
    <2>5. CASE pc[b] = "idle"
        <3>1. Begin(b)
            BY <1>2, <2>5
               DEF Build, Raise, Timeout, Crash, Interrupted, Running, InTry, Outside, Cleaning,
                   Prepare, Connect, Pull, Create, SetUp, Revision, Manifest, MakeImage, Kill,
                   Remove, Check, SignCreate, Sign, UploadFile, Uploaded, Report
        <3>2. /\ \A c \in Builds : DirOf[c] = DirOf[b] => ~Running(c)
              /\ latest' = [latest EXCEPT ![DirOf[b]] = b]
              /\ UNCHANGED <<s3, files, remote>>
            BY <3>1 DEF Begin, settingVars
        <3>3. CASE a = b
            BY <2>1, <2>3, <2>4, <3>2, <3>3, ImageBuildAssumption DEF Alone, TypeOK
        <3>4. CASE a # b
            <4>1. CASE DirOf[a] = DirOf[b]
                <5>1. ~Running(a) /\ latest'[DirOf[a]] # a
                    BY <2>1, <3>2, <3>4, <4>1, ImageBuildAssumption DEF TypeOK
                <5>2. Alone(a)'
                    BY <2>4, <3>4, <5>1 DEF Alone
                <5>3. Held(a)'
                    BY <2>2, <3>4, <5>1
                       DEF OthersStay, Held, Passed, Running, Cleaning, Ended
                <5> QED
                    BY <5>2, <5>3
            <4>2. CASE DirOf[a] # DirOf[b]
                <5>1. latest'[DirOf[a]] = latest[DirOf[a]]
                    BY <2>1, <3>2, <4>2, ImageBuildAssumption DEF TypeOK
                <5>2. Alone(a)'
                    BY <2>1, <2>4, <3>4, <4>2, <5>1 DEF Alone
                <5>3. Held(a)'
                    BY <2>1, <2>2, <3>2, <3>4, <5>1
                       DEF OthersStay, Held, Passed, HasImage, Complete, Stored
                <5> QED
                    BY <5>2, <5>3
            <4> QED
                BY <4>1, <4>2
        <3> QED
            BY <3>3, <3>4
    <2>6. CASE pc[b] # "idle"
        <3>1. Running(b) /\ UNCHANGED <<latest, s3>>
            BY <2>3, <2>6 DEF DirsStay
        <3>2. latest[DirOf[b]] = b /\ \A c \in Builds \ {b} : DirOf[c] = DirOf[b] => ~Running(c)
            BY <2>1, <3>1 DEF Alone
        <3>3. CASE a = b
            BY <2>3, <2>4, <3>1, <3>2, <3>3 DEF Alone
        <3>4. CASE a # b
            <4>1. Alone(a)'
                BY <2>1, <2>4, <3>1, <3>2, <3>4 DEF Alone
            <4>2. CASE DirOf[a] = DirOf[b]
                <5>1. ~Running(a) /\ latest'[DirOf[a]] # a
                    BY <3>1, <3>2, <3>4, <4>2
                <5> QED
                    BY <2>2, <3>4, <4>1, <5>1
                       DEF OthersStay, Held, Passed, Running, Cleaning, Ended
            <4>3. CASE DirOf[a] # DirOf[b]
                <5>1. UNCHANGED <<files[DirOf[a]], remote[DirOf[a]]>>
                    BY <2>3, <4>3, ImageBuildAssumption DEF DirsStay
                <5>2. Held(a)'
                    BY <2>1, <2>2, <3>1, <3>4, <5>1
                       DEF OthersStay, Held, Passed, HasImage, Complete, Stored
                <5> QED
                    BY <4>1, <5>2
            <4> QED
                BY <4>2, <4>3
        <3> QED
            BY <3>3, <3>4
    <2> QED
        BY <2>5, <2>6
<1>3. CASE UNCHANGED vars
    BY <1>1, <1>3
       DEF StoreInv, vars, settingVars, storeVars, Alone, Running, Held, Passed, HasImage,
           Complete, Stored
<1> QED
    BY <1>1, <1>2, <1>3 DEF Next, StoreInv

(* An image that is reported as done is in the store, with a JSON beside it, *)
(* until a later build of its bin_dir begins: as long as no two builds with  *)
(* one bin_dir run at a time, whatever earlier ones failed at and left       *)
(* behind.  Run image_shared shows that this condition is needed.            *)
THEOREM DoneAlwaysStored ==
    ASSUME ~Together PROVE Spec => []DoneStored
<1>1. Init => StoreInv
    <2>1. Init => BuildInv
        BY InitType DEF Init, BuildInv, Tracked, Stands, Passed, Failing, Cleaning
    <2> QED
        BY <2>1 DEF Init, StoreInv, Alone, Running, Held, Passed, Cleaning
<1>2. StoreInv /\ [Next]_vars => StoreInv'
    BY StoreStep
<1>3. StoreInv => DoneStored
    BY DEF StoreInv, Held, Complete, DoneStored
<1> QED
    BY <1>1, <1>2, <1>3, PTL DEF Spec
===============================================================================
