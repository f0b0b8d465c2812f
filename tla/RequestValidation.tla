---------------------------- MODULE RequestValidation ----------------------------
(***************************************************************************)
(* validate_request (asu/routers/api.py) from its check of the target on,  *)
(* run by the web server's threads, and the caches of one version that     *)
(* they share: app.targets and app.profiles, which reload_targets and      *)
(* reload_profiles (asu/util.py) download from upstream.  A step is one    *)
(* access to a cache or one download; upstream may rebuild a target or     *)
(* drop it between any two of them.                                        *)
(*                                                                         *)
(* What upstream says of a target is a map from each name a profile goes   *)
(* by, its own or that of a supported device, to the profile.              *)
(***************************************************************************)
EXTENDS Naturals, FiniteSets

CONSTANTS
    Threads,      \* threads of the web server
    Targets,      \* targets of the version
    Names,        \* what clients ask for as a profile
    Generic,      \* the name and profile "generic"
    MapsOf,       \* the maps that upstream may publish for each target
    NoTarget,     \* the target of a thread that has none
    MaxChanges    \* bound of the model: changes upstream in a behaviour

\* A target has the one profile "generic" in every build of it or in none.
ASSUME RequestValidationAssumption ==
    /\ Generic \in Names
    /\ \A g \in Targets : \A m \in MapsOf[g] : DOMAIN m \in (SUBSET Names) \ {{}}
    /\ \A g \in Targets : \A m, n \in MapsOf[g] :
           DOMAIN m = {Generic} => DOMAIN n = {Generic}
    /\ NoTarget \notin Targets
    /\ MaxChanges \in Nat

Nothing == <<>>   \* the map without a name: that of a target that is not there

VARIABLES
    upstream,     \* the map upstream publishes for each target
    changes,      \* changes upstream so far
    targets,      \* app.targets of the version
    profiles,     \* app.profiles of the version
    pc,           \* each thread: where it is in its handler
    target, name, \* build_request.target and build_request.profile
    file,         \* the response it has downloaded
    offered,      \* history: the maps upstream has published for each target
    asked,        \* history: build_request.profile as the client sent it
    calm          \* history: nothing changed upstream and no download failed
                  \* since the request was received, nor was an old one in hand

upVars     == <<upstream, changes, offered>>
threadVars == <<target, name, asked>>
vars       == <<upVars, targets, profiles, pc, threadVars, file, calm>>

AllMaps  == {Nothing} \cup UNION {MapsOf[g] : g \in Targets}
Answers  == {"accepted", "target refused", "profile refused", "error"}
Places   == {"idle", "target", "reload targets", "set targets", "target again", "profile",
             "reload profiles", "set profiles", "profile again", "lookup"} \cup Answers
ProfileOf(m) == {m[n] : n \in DOMAIN m}
Results  == Names \cup UNION {ProfileOf(m) : m \in AllMaps}

CachesTypeOK ==
    /\ upstream \in [Targets -> AllMaps]
    /\ changes \in 0..MaxChanges
    /\ offered \in [Targets -> SUBSET AllMaps]
    /\ targets \in SUBSET Targets
    /\ profiles \in [Targets -> AllMaps]
    /\ \A g \in Targets :
           /\ upstream[g] \in MapsOf[g] \cup {Nothing}
           /\ profiles[g] \in MapsOf[g] \cup {Nothing}
           /\ offered[g] \subseteq MapsOf[g]

ThreadsTypeOK ==
    /\ pc \in [Threads -> Places]
    /\ target \in [Threads -> Targets \cup {NoTarget}]
    /\ name \in [Threads -> Results]
    /\ asked \in [Threads -> Names]
    /\ calm \in [Threads -> BOOLEAN]
    /\ \A t \in Threads :
           pc[t] \in {"idle", "reload targets", "set targets", "error"} \/ target[t] \in Targets

FilesTypeOK ==
    /\ DOMAIN file = Threads
    /\ \A t \in Threads :
           /\ pc[t] = "set targets" => file[t] \subseteq Targets
           /\ pc[t] = "set profiles" => file[t] \in MapsOf[target[t]]
           /\ pc[t] \notin {"set targets", "set profiles"} => file[t] = Nothing

TypeOK == CachesTypeOK /\ ThreadsTypeOK /\ FilesTypeOK

(* The server starts with empty caches. *)
Init ==
    /\ upstream \in [Targets -> AllMaps]
    /\ \A g \in Targets : upstream[g] \in MapsOf[g] \cup {Nothing}
    /\ changes = 0
    /\ offered = [g \in Targets |-> {upstream[g]} \ {Nothing}]
    /\ targets = {}
    /\ profiles = [g \in Targets |-> Nothing]
    /\ pc = [t \in Threads |-> "idle"]
    /\ target = [t \in Threads |-> NoTarget]
    /\ name = [t \in Threads |-> Generic]
    /\ asked = [t \in Threads |-> Generic]
    /\ file = [t \in Threads |-> Nothing]
    /\ calm = [t \in Threads |-> FALSE]

-----------------------------------------------------------------------------
(* Upstream: the targets in .targets.json are those that have a profiles.json *)
Published == {g \in Targets : upstream[g] # Nothing}

Change(g) ==
    /\ changes < MaxChanges
    /\ changes' = changes + 1
    /\ \E m \in (MapsOf[g] \cup {Nothing}) \ {upstream[g]} :
           /\ upstream' = [upstream EXCEPT ![g] = m]
           /\ offered' = [offered EXCEPT ![g] = @ \cup ({m} \ {Nothing})]
    /\ calm' = [t \in Threads |-> FALSE]
    /\ UNCHANGED <<targets, profiles, pc, threadVars, file>>

-----------------------------------------------------------------------------
Goto(t, place) == pc' = [pc EXCEPT ![t] = place]

(* A response that a thread has in hand and that is not what upstream has now. *)
Old(t) ==
    \/ pc[t] = "set targets" /\ file[t] # Published
    \/ pc[t] = "set profiles" /\ file[t] # upstream[target[t]]

(* A build request whose distro, branch and version are supported. *)
Request(t, g, n) ==
    /\ pc[t] = "idle"
    /\ Goto(t, "target")
    /\ target' = [target EXCEPT ![t] = g]
    /\ name' = [name EXCEPT ![t] = n]
    /\ asked' = [asked EXCEPT ![t] = n]
    /\ calm' = [calm EXCEPT ![t] = \A u \in Threads : ~Old(u)]
    /\ UNCHANGED <<upVars, targets, profiles, file>>

(* generate_branches, for a version that has no targets in the cache. *)
Overview(t) ==
    /\ pc[t] = "idle"
    /\ targets = {}
    /\ Goto(t, "reload targets")
    /\ target' = [target EXCEPT ![t] = NoTarget]
    /\ UNCHANGED <<upVars, targets, profiles, name, asked, file, calm>>

\* Mutant of LookTarget: a target that is not in the cache is refused at once.
LookTargetOnce(t) ==
    /\ pc[t] = "target"
    /\ Goto(t, IF target[t] \in targets THEN "profile" ELSE "target refused")
    /\ UNCHANGED <<upVars, targets, profiles, threadVars, file, calm>>

LookTarget(t) ==
    /\ pc[t] = "target"
    /\ Goto(t, IF target[t] \in targets THEN "profile" ELSE "reload targets")
    /\ UNCHANGED <<upVars, targets, profiles, threadVars, file, calm>>

(* A download that fails disturbs everybody. *)
Disturb == calm' = [t \in Threads |-> FALSE]

(* reload_targets: an answer other than 200 counts as one without targets. *)
DownloadTargets(t) ==
    /\ pc[t] = "reload targets"
    /\ \/ /\ Goto(t, "set targets")
          /\ file' = [file EXCEPT ![t] = Published]
          /\ UNCHANGED calm
       \/ /\ Goto(t, "set targets")
          /\ file' = [file EXCEPT ![t] = {}]
          /\ Disturb
       \/ /\ Goto(t, "error")
          /\ Disturb /\ UNCHANGED <<file>>
    /\ UNCHANGED <<upVars, targets, profiles, threadVars>>

SetTargets(t) ==
    /\ pc[t] = "set targets"
    /\ targets' = file[t]
    /\ file' = [file EXCEPT ![t] = Nothing]
    /\ Goto(t, IF target[t] = NoTarget THEN "idle" ELSE "target again")
    /\ UNCHANGED <<upVars, profiles, threadVars, calm>>

LookTargetAgain(t) ==
    /\ pc[t] = "target again"
    /\ Goto(t, IF target[t] \in targets THEN "profile" ELSE "target refused")
    /\ UNCHANGED <<upVars, targets, profiles, threadVars, file, calm>>

(* valid_profile: a name the target has, or, where there is only "generic", *)
(* any name, which becomes "generic".                                       *)
valid_profile(t, otherwise) ==
    LET m == profiles[target[t]]
    IN  IF name[t] \in DOMAIN m \/ DOMAIN m = {Generic}
        THEN /\ Goto(t, "lookup")
             /\ name' = [name EXCEPT ![t] = IF @ \in DOMAIN m THEN @ ELSE Generic]
        ELSE Goto(t, otherwise) /\ UNCHANGED name

LookProfile(t) ==
    /\ pc[t] = "profile"
    /\ valid_profile(t, "reload profiles")
    /\ UNCHANGED <<upVars, targets, profiles, target, asked, file, calm>>

(* reload_profiles: anything but a profiles.json raises. *)
DownloadProfiles(t) ==
    /\ pc[t] = "reload profiles"
    /\ \/ /\ target[t] \in Published
          /\ Goto(t, "set profiles")
          /\ file' = [file EXCEPT ![t] = upstream[target[t]]]
          /\ UNCHANGED calm
       \/ /\ Goto(t, "error")
          /\ Disturb /\ UNCHANGED file
    /\ UNCHANGED <<upVars, targets, profiles, threadVars>>

\* Mutant of SetProfiles: stored under the version, for every target of it.
SetProfilesOfVersion(t) ==
    /\ pc[t] = "set profiles"
    /\ profiles' = [g \in Targets |-> file[t]]
    /\ file' = [file EXCEPT ![t] = Nothing]
    /\ Goto(t, "profile again")
    /\ UNCHANGED <<upVars, targets, threadVars, calm>>

SetProfiles(t) ==
    /\ pc[t] = "set profiles"
    /\ profiles' = [profiles EXCEPT ![target[t]] = file[t]]
    /\ file' = [file EXCEPT ![t] = Nothing]
    /\ Goto(t, "profile again")
    /\ UNCHANGED <<upVars, targets, threadVars, calm>>

\* Mutant of LookProfileAgain: a name that is missing is taken at its word.
LookProfileNever(t) ==
    /\ pc[t] = "profile again"
    /\ Goto(t, "accepted")
    /\ UNCHANGED <<upVars, targets, profiles, threadVars, file, calm>>

LookProfileAgain(t) ==
    /\ pc[t] = "profile again"
    /\ valid_profile(t, "profile refused")
    /\ UNCHANGED <<upVars, targets, profiles, target, asked, file, calm>>

(* The name is replaced by the profile; it may be gone by now: a KeyError. *)
Lookup(t) ==
    LET m == profiles[target[t]]
    IN  /\ pc[t] = "lookup"
        /\ IF name[t] \in DOMAIN m
           THEN Goto(t, "accepted") /\ name' = [name EXCEPT ![t] = m[@]]
           ELSE Goto(t, "error") /\ UNCHANGED name
        /\ UNCHANGED <<upVars, targets, profiles, target, asked, file, calm>>

(* The response is sent: what the handler had of its own is gone. *)
Answered(t) ==
    /\ pc[t] \in Answers
    /\ Goto(t, "idle")
    /\ target' = [target EXCEPT ![t] = NoTarget]
    /\ name' = [name EXCEPT ![t] = Generic]
    /\ asked' = [asked EXCEPT ![t] = Generic]
    /\ calm' = [calm EXCEPT ![t] = FALSE]
    /\ UNCHANGED <<upVars, targets, profiles, file>>

Validating(t) ==
    \/ \E g \in Targets, n \in Names : Request(t, g, n)
    \/ Overview(t)
    \/ LookTarget(t) \/ DownloadTargets(t) \/ SetTargets(t) \/ LookTargetAgain(t)
    \/ LookProfile(t) \/ DownloadProfiles(t) \/ SetProfiles(t) \/ LookProfileAgain(t)
    \/ Lookup(t) \/ Answered(t)

Next ==
    \/ \E g \in Targets : Change(g)
    \/ \E t \in Threads : Validating(t)

Spec == Init /\ [][Next]_vars

-----------------------------------------------------------------------------
(* Properties *)

(* A request that goes on to the queue is for a profile that upstream has,   *)
(* or had, for its target, under the name that the client sent or, where     *)
(* there is only "generic", under any name: whichever reloads other threads  *)
(* do between the check of the name and its replacement.                     *)
AcceptedWasOffered ==
    \A t \in Threads :
        pc[t] = "accepted" =>
            \E m \in offered[target[t]] :
                \/ asked[t] \in DOMAIN m /\ name[t] = m[asked[t]]
                \/ DOMAIN m = {Generic} /\ name[t] = m[Generic]

(* As long as upstream does not change and answers, and nobody stores what   *)
(* was downloaded before the last change, a request for what upstream has is *)
(* neither refused nor failed, whatever is in the caches, however old.  The  *)
(* docstring of reload_targets, "No race conditions occur", promises more.   *)
ServedInCalm ==
    \A t \in Threads :
        LET m == upstream[target[t]]
        IN  pc[t] \in Answers \ {"accepted"} /\ calm[t] /\ target[t] \in Targets =>
                /\ asked[t] \notin DOMAIN m
                /\ DOMAIN m # {Generic}
===============================================================================
