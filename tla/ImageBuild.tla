------------------------------- MODULE ImageBuild -------------------------------
(***************************************************************************)
(* _build (asu/build.py): how a worker builds one image in containers of   *)
(* its own, and what it leaves in the store.  Several builds may run at a  *)
(* time.  A build writes to the bin_dir named by the hash it computes of   *)
(* the request as validate_request has normalised it, which is not the id  *)
(* of its job: requests that differ only in an alias of the profile have   *)
(* two jobs and one bin_dir.  So have the attempts at one request, one     *)
(* after the other.                                                        *)
(***************************************************************************)
EXTENDS Naturals, FiniteSets

CONSTANTS
    Builds,       \* the builds: each a job, or an attempt at one
    Dirs,         \* the bin_dirs
    DirOf,        \* the bin_dir of each build
    NoBuild,      \* the build of an artefact that is not there
    Together      \* whether builds with one bin_dir may run at a time

ASSUME ImageBuildAssumption ==
    /\ DirOf \in [Builds -> Dirs]
    /\ NoBuild \notin Builds
    /\ Together \in BOOLEAN

VARIABLES
    s3, build_key, \* the settings: store_backend is "s3", there is a BUILD_KEY
    pc,            \* each build: the part of _build it is in
    next,          \* what it does after _cleanup_container
    container,     \* whether podman has a container of it
    output,        \* how its make image ended
    meta,          \* the imagebuilder_status of its job
    alarm,         \* whether job_timeout is still to fire
    exists, files, \* each bin_dir: whether it is there, and whose artefacts it has
    remote,        \* whose artefacts of each bin_dir the bucket has
    latest,        \* history: the latest build begun of each bin_dir
    made,          \* history: builds whose image and JSON were copied to bin_dir
    missed,        \* history: builds that failed with "No JSON file found"
    leaked,        \* history: builds that lost track of a container
    swallowed      \* history: builds whose job_timeout hit _cleanup_container

settingVars == <<s3, build_key>>
storeVars   == <<exists, files, remote, latest>>
historyVars == <<made, missed, leaked, swallowed>>
vars == <<settingVars, pc, next, container, output, meta, alarm, storeVars, historyVars>>

Artefacts == {"image", "json"}
Nothing   == [f \in Artefacts |-> NoBuild]
InTry     == {"setup", "revision", "manifest", "image", "signing"}
Outside   == {"prepare", "connect", "pull", "create", "check", "sign", "upload", "uploading", "report"}
Cleaning  == {"kill", "remove"}
Ended     == {"done", "failed", "crashed"}
Stages    == {"none", "init", "container_setup", "validate_revision",
              "validate_manifest", "building_image", "done", "failed"}

TypeOK ==
    /\ s3 \in BOOLEAN /\ build_key \in BOOLEAN
    /\ pc \in [Builds -> {"idle"} \cup InTry \cup Outside \cup Cleaning \cup Ended]
    /\ next \in [Builds -> {"check", "upload", "failed"}]
    /\ container \in [Builds -> BOOLEAN]
    /\ output \in [Builds -> {"none", "ok", "too big", "error"}]
    /\ meta \in [Builds -> Stages]
    /\ alarm \in [Builds -> BOOLEAN]
    /\ exists \in [Dirs -> BOOLEAN]
    /\ files \in [Dirs -> [Artefacts -> Builds \cup {NoBuild}]]
    /\ \A d \in Dirs : files[d] # Nothing => exists[d]
    /\ remote \in [Dirs -> [Artefacts -> Builds \cup {NoBuild}]]
    /\ latest \in [Dirs -> Builds \cup {NoBuild}]
    /\ {made, missed, leaked, swallowed} \subseteq SUBSET Builds

Init ==
    /\ s3 \in BOOLEAN /\ build_key \in BOOLEAN
    /\ pc = [b \in Builds |-> "idle"]
    /\ next = [b \in Builds |-> "failed"]
    /\ container = [b \in Builds |-> FALSE]
    /\ output = [b \in Builds |-> "none"]
    /\ meta = [b \in Builds |-> "none"]
    /\ alarm = [b \in Builds |-> TRUE]
    /\ exists = [d \in Dirs |-> FALSE]
    /\ files = [d \in Dirs |-> Nothing]
    /\ remote = [d \in Dirs |-> Nothing]
    /\ latest = [d \in Dirs |-> NoBuild]
    /\ made = {} /\ missed = {} /\ leaked = {} /\ swallowed = {}

Running(b) == pc[b] \notin {"idle"} \cup Ended

Goto(b, part) == pc' = [pc EXCEPT ![b] = part]
Stage(b, stage) == meta' = [meta EXCEPT ![b] = stage]

(* The finally clause of a try statement, and what follows it. *)
Finally(b, after) ==
    /\ Goto(b, "kill")
    /\ next' = [next EXCEPT ![b] = after]

\* Mutant of report_error: the message goes to the status of the build.
report_message(b) ==
    /\ Stage(b, "Error")
    /\ IF pc[b] \in InTry THEN Finally(b, "failed")
                          ELSE Goto(b, "failed") /\ UNCHANGED next

(* report_error raises: inside a try statement the container is removed first. *)
report_error(b) ==
    /\ Stage(b, "failed")
    /\ IF pc[b] \in InTry THEN Finally(b, "failed")
                          ELSE Goto(b, "failed") /\ UNCHANGED next

-----------------------------------------------------------------------------
(* An RQ worker takes the job. *)
Begin(b) ==
    /\ pc[b] = "idle"
    /\ Together \/ \A a \in Builds : DirOf[a] = DirOf[b] => ~Running(a)
    /\ Goto(b, "prepare")
    /\ latest' = [latest EXCEPT ![DirOf[b]] = b]
    /\ UNCHANGED <<settingVars, next, container, output, meta, alarm, exists, files,
                    remote, historyVars>>

(* mkdir of bin_dir and the first metadata, *)
Prepare(b) ==
    /\ pc[b] = "prepare"
    /\ exists' = [exists EXCEPT ![DirOf[b]] = TRUE]
    /\ Stage(b, "init")
    /\ Goto(b, "connect")
    /\ UNCHANGED <<settingVars, next, container, output, alarm, files, remote, latest,
                    historyVars>>

(* then the connection to podman. *)
Connect(b) ==
    /\ pc[b] = "connect"
    /\ Stage(b, "container_setup")
    /\ Goto(b, "pull")
    /\ UNCHANGED <<settingVars, next, container, output, alarm, storeVars, historyVars>>

(* The pull of the ImageBuilder: an image that is not there is reported. *)
Pull(b) ==
    /\ pc[b] = "pull"
    /\ \/ Goto(b, "create") /\ UNCHANGED <<next, meta>>
       \/ report_error(b)
    /\ UNCHANGED <<settingVars, container, output, alarm, storeVars, historyVars>>

Create(b) ==
    /\ pc[b] = "create"
    /\ container' = [container EXCEPT ![b] = TRUE]
    /\ Goto(b, "setup")
    /\ UNCHANGED <<settingVars, next, output, meta, alarm, storeVars, historyVars>>

(* The container is started and given its files, up to make info. *)
SetUp(b) ==
    /\ pc[b] = "setup"
    /\ \/ Goto(b, "revision") /\ Stage(b, "validate_revision") /\ UNCHANGED next
       \/ report_error(b)
    /\ UNCHANGED <<settingVars, container, output, alarm, storeVars, historyVars>>

(* The revision is checked and the packages are worked out. *)
Revision(b) ==
    /\ pc[b] = "revision"
    /\ \/ Goto(b, "manifest") /\ Stage(b, "validate_manifest") /\ UNCHANGED next
       \/ report_error(b)
    /\ UNCHANGED <<settingVars, container, output, alarm, storeVars, historyVars>>

(* make manifest and its check, up to the command that builds the image. *)
Manifest(b) ==
    /\ pc[b] = "manifest"
    /\ \/ Goto(b, "image") /\ Stage(b, "building_image") /\ UNCHANGED next
       \/ report_error(b)
    /\ UNCHANGED <<settingVars, container, output, alarm, storeVars, historyVars>>

(* run_cmd copies whatever make image has left over what bin_dir has,        *)
(* whether it succeeded or not.                                              *)
Copy(b, written) ==
    /\ exists' = [exists EXCEPT ![DirOf[b]] = TRUE]
    /\ files' = [files EXCEPT ![DirOf[b]] =
                     [f \in Artefacts |-> IF f \in written THEN b ELSE @[f]]]
    /\ made' = IF written = Artefacts THEN made \cup {b} ELSE made

(* make image: a success writes the image, and its JSON unless something is  *)
(* wrong with the ImageBuilder; otherwise it writes any part of them.        *)
MakeImage(b) ==
    /\ pc[b] = "image"
    /\ \E end \in {"ok", "too big", "error"}, written \in SUBSET Artefacts :
           /\ end = "ok" => "image" \in written
           /\ Copy(b, written)
           /\ output' = [output EXCEPT ![b] = end]
    /\ Finally(b, "check")
    /\ UNCHANGED <<settingVars, container, meta, alarm, remote, latest, missed, leaked,
                    swallowed>>

(* _cleanup_container: kill, whose failure is ignored, *)
Kill(b) ==
    /\ pc[b] = "kill"
    /\ Goto(b, "remove")
    /\ UNCHANGED <<settingVars, next, container, output, meta, alarm, storeVars, historyVars>>

\* Mutant of Remove: the exception that led to the cleanup is forgotten.
RemoveForgets(b) ==
    /\ pc[b] = "remove"
    /\ Goto(b, IF output[b] = "none" THEN next[b] ELSE "upload")
    /\ \/ container' = [container EXCEPT ![b] = FALSE] /\ UNCHANGED leaked
       \/ leaked' = leaked \cup {b} /\ UNCHANGED container
    /\ UNCHANGED <<settingVars, next, output, meta, alarm, storeVars, made, missed,
                    swallowed>>

(* and remove, whose failure is logged. *)
Remove(b) ==
    /\ pc[b] = "remove"
    /\ Goto(b, next[b])
    /\ \/ container' = [container EXCEPT ![b] = FALSE] /\ UNCHANGED leaked
       \/ leaked' = leaked \cup {b} /\ UNCHANGED container
    /\ UNCHANGED <<settingVars, next, output, meta, alarm, storeVars, made, missed,
                    swallowed>>

(* The checks of the output, of profiles.json and of the profile in it. *)
Check(b) ==
    /\ pc[b] = "check"
    /\ \/ /\ output[b] \in {"too big", "error"}
          /\ report_error(b)
          /\ UNCHANGED missed
       \/ /\ output[b] = "ok"
          /\ files[DirOf[b]]["json"] = NoBuild
          /\ report_error(b)
          /\ missed' = missed \cup {b}
       \/ /\ output[b] = "ok"
          /\ files[DirOf[b]]["json"] # NoBuild
          /\ \/ Goto(b, "sign") /\ UNCHANGED <<next, meta>>
             \/ report_error(b)
          /\ UNCHANGED missed
    /\ UNCHANGED <<settingVars, container, output, alarm, storeVars, made, leaked, swallowed>>

(* With a build key a second container signs the images in bin_dir. *)
SignCreate(b) ==
    /\ pc[b] = "sign"
    /\ IF build_key
       THEN container' = [container EXCEPT ![b] = TRUE] /\ Goto(b, "signing")
       ELSE Goto(b, "upload") /\ UNCHANGED container
    /\ UNCHANGED <<settingVars, next, output, meta, alarm, storeVars, historyVars>>

(* The return code of the signing commands is not looked at. *)
Sign(b) ==
    /\ pc[b] = "signing"
    /\ Finally(b, "upload")
    /\ UNCHANGED <<settingVars, container, output, meta, alarm, storeVars, historyVars>>

(* upload_dir: a LocalStore has the files already; to an S3Store they are    *)
(* uploaded one by one, over those of earlier builds.                        *)
UploadFile(b) ==
    LET d == DirOf[b]
    IN  /\ pc[b] \in {"upload", "uploading"}
        /\ s3
        /\ \E f \in Artefacts :
               /\ files[d][f] \notin {NoBuild, remote[d][f]}
               /\ remote' = [remote EXCEPT ![d][f] = files[d][f]]
        /\ Goto(b, "uploading")
        /\ UNCHANGED <<settingVars, next, container, output, meta, alarm, exists, files,
                        latest, historyVars>>

\* Mutant of Uploaded: bin_dir is removed when the first file has been uploaded.
UploadedOne(b) ==
    LET d == DirOf[b]
    IN  /\ pc[b] \in {"upload", "uploading"}
        /\ s3 => pc[b] = "uploading" \/ files[d] = Nothing
        /\ exists' = [exists EXCEPT ![d] = @ /\ ~s3]
        /\ files' = [files EXCEPT ![d] = IF s3 THEN Nothing ELSE @]
        /\ Goto(b, "report")
        /\ UNCHANGED <<settingVars, next, container, output, meta, alarm, remote, latest,
                        historyVars>>

(* All that bin_dir has is uploaded, and bin_dir is removed unless it is the *)
(* store itself.                                                             *)
Uploaded(b) ==
    LET d == DirOf[b]
    IN  /\ pc[b] \in {"upload", "uploading"}
        /\ s3 => \A f \in Artefacts : files[d][f] \in {NoBuild, remote[d][f]}
        /\ exists' = [exists EXCEPT ![d] = @ /\ ~s3]
        /\ files' = [files EXCEPT ![d] = IF s3 THEN Nothing ELSE @]
        /\ Goto(b, "report")
        /\ UNCHANGED <<settingVars, next, container, output, meta, alarm, remote, latest,
                        historyVars>>

(* The statistics of the build, and its last metadata. *)
Report(b) ==
    /\ pc[b] = "report"
    /\ Stage(b, "done")
    /\ Goto(b, "done")
    /\ UNCHANGED <<settingVars, next, container, output, alarm, storeVars, historyVars>>

-----------------------------------------------------------------------------
(* Failures *)

\* Mutant of Interrupted: the signing container is not removed by a finally clause.
InterruptedSigning(b) ==
    \/ /\ pc[b] \in InTry \ {"signing"}
       /\ Finally(b, "failed")
       /\ \E written \in (IF pc[b] = "image" THEN SUBSET Artefacts ELSE {{}}) :
              IF written = {} THEN UNCHANGED <<exists, files, made>> ELSE Copy(b, written)
       /\ UNCHANGED <<container, leaked>>
    \/ /\ pc[b] \in Outside \cup {"signing"}
       /\ Goto(b, "failed")
       /\ \/ UNCHANGED <<container, leaked>>
          \/ /\ pc[b] = "create" \/ (pc[b] = "sign" /\ build_key)
             /\ container' = [container EXCEPT ![b] = TRUE]
             /\ leaked' = leaked \cup {b}
       /\ UNCHANGED <<next, exists, files, made>>

(* An exception that report_error did not raise: podman, Redis, the file     *)
(* system or the store failed, or a command's output is not what it should   *)
(* be.  Only inside the try statements is the container removed; one that    *)
(* podman had created when the call for it failed is not.                    *)
Interrupted(b) ==
    \/ /\ pc[b] \in InTry
       /\ Finally(b, "failed")
       /\ \E written \in (IF pc[b] = "image" THEN SUBSET Artefacts ELSE {{}}) :
              IF written = {} THEN UNCHANGED <<exists, files, made>> ELSE Copy(b, written)
       /\ UNCHANGED <<container, leaked>>
    \/ /\ pc[b] \in Outside
       /\ Goto(b, "failed")
       /\ \/ UNCHANGED <<container, leaked>>
          \/ /\ pc[b] = "create" \/ (pc[b] = "sign" /\ build_key)
             /\ container' = [container EXCEPT ![b] = TRUE]
             /\ leaked' = leaked \cup {b}
       /\ UNCHANGED <<next, exists, files, made>>

Raise(b) ==
    /\ Interrupted(b)
    /\ UNCHANGED <<settingVars, output, meta, alarm, remote, latest, missed, swallowed>>

\* Mutant of Timeout: the exception is also ignored while the image is pulled.
TimeoutIgnored(b) ==
    /\ Running(b) /\ alarm[b]
    /\ alarm' = [alarm EXCEPT ![b] = FALSE]
    /\ \/ Interrupted(b) /\ pc[b] # "pull" /\ UNCHANGED swallowed
       \/ /\ pc[b] = "pull"
          /\ Goto(b, "create")
          /\ UNCHANGED <<next, container, exists, files, made, leaked, swallowed>>
       \/ /\ pc[b] \in Cleaning
          /\ Goto(b, IF pc[b] = "kill" THEN "remove" ELSE next[b])
          /\ swallowed' = swallowed \cup {b}
          /\ \/ UNCHANGED <<container, leaked>> /\ pc[b] = "kill"
             \/ leaked' = leaked \cup {b} /\ pc[b] = "remove" /\ UNCHANGED container
             \/ container' = [container EXCEPT ![b] = FALSE] /\ pc[b] = "remove"
                /\ UNCHANGED leaked
          /\ UNCHANGED <<next, exists, files, made>>
    /\ UNCHANGED <<settingVars, output, meta, remote, latest, missed>>

(* job_timeout, once: an exception like any other, which the two except      *)
(* clauses of _cleanup_container swallow.                                    *)
Timeout(b) ==
    /\ Running(b) /\ alarm[b]
    /\ alarm' = [alarm EXCEPT ![b] = FALSE]
    /\ \/ Interrupted(b) /\ UNCHANGED swallowed
       \/ /\ pc[b] \in Cleaning
          /\ Goto(b, IF pc[b] = "kill" THEN "remove" ELSE next[b])
          /\ swallowed' = swallowed \cup {b}
          /\ \/ UNCHANGED <<container, leaked>> /\ pc[b] = "kill"
             \/ leaked' = leaked \cup {b} /\ pc[b] = "remove" /\ UNCHANGED container
             \/ container' = [container EXCEPT ![b] = FALSE] /\ pc[b] = "remove"
                /\ UNCHANGED leaked
          /\ UNCHANGED <<next, exists, files, made>>
    /\ UNCHANGED <<settingVars, output, meta, remote, latest, missed>>

(* The worker process dies: nobody is left to remove its container. *)
Crash(b) ==
    /\ Running(b)
    /\ Goto(b, "crashed")
    /\ UNCHANGED <<settingVars, next, container, output, meta, alarm, storeVars, historyVars>>

Build(b) ==
    \/ Begin(b) \/ Prepare(b) \/ Connect(b) \/ Pull(b) \/ Create(b) \/ SetUp(b)
    \/ Revision(b) \/ Manifest(b)
    \/ MakeImage(b) \/ Kill(b) \/ Remove(b) \/ Check(b) \/ SignCreate(b) \/ Sign(b)
    \/ UploadFile(b) \/ Uploaded(b) \/ Report(b)

Next == \E b \in Builds : Build(b) \/ Raise(b) \/ Timeout(b) \/ Crash(b)

Spec == Init /\ [][Next]_vars

(* Podman, the commands it runs and the store may hang for ever.  Only RQ's  *)
(* alarm is sure to come, and podman to answer for the two steps of          *)
(* _cleanup_container.                                                       *)
FairSpec ==
    /\ Spec
    /\ \A b \in Builds : WF_vars(Timeout(b)) /\ WF_vars(Kill(b)) /\ WF_vars(Remove(b))

-----------------------------------------------------------------------------
(* Properties *)

Stored(d) == IF s3 THEN remote[d] ELSE files[d]

(* A build that is reported as done has its own image in the store, and a    *)
(* JSON beside it, until a later attempt at the same request begins,         *)
(* whatever earlier attempts failed at and left behind.                      *)
DoneStored ==
    \A b \in Builds :
        pc[b] = "done" /\ latest[DirOf[b]] = b =>
            /\ Stored(DirOf[b])["image"] = b
            /\ Stored(DirOf[b])["json"] # NoBuild

(* A build that has ended has no container in podman, unless podman refused  *)
(* to remove it or an exception hit the call that created it: every way out  *)
(* of the two try statements goes through _cleanup_container.                *)
ContainersRemoved ==
    \A b \in Builds :
        pc[b] \in {"done", "failed"} /\ container[b] => b \in leaked

Failing(b) == pc[b] \in {"failed", "crashed"} \/ (pc[b] \in Cleaning /\ next[b] = "failed")

(* A failure stands: a build whose metadata says "failed", as report_error   *)
(* has told the client, or that job_timeout has hit, but for the one place   *)
(* where the code swallows the exception, never goes on to upload or to      *)
(* succeed, and one that is done says so.                                    *)
FailureStands ==
    \A b \in Builds :
        /\ meta[b] = "failed" => Failing(b)
        /\ ~alarm[b] /\ b \notin swallowed => Failing(b)
        /\ pc[b] = "done" => meta[b] = "done" /\ output[b] = "ok"

(* Whatever hangs, job_timeout ends the build and frees the worker, unless   *)
(* _cleanup_container has swallowed it: then only RQ's monitor, which kills  *)
(* the worker's process, is left to do so, and is not relied on here.        *)
TimeLimited == \A b \in Builds : Running(b) ~> (~Running(b) \/ b \in swallowed)

(* The README: "each build happens inside a container so that one build      *)
(* can't affect another".  A build that has copied its JSON to bin_dir does  *)
(* not fail because it is not there.                                         *)
NotAffected == \A b \in Builds : b \in missed => b \notin made
===============================================================================
