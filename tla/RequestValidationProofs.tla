------------------------ MODULE RequestValidationProofs ------------------------
(***************************************************************************)
(* Theorems about RequestValidation, for every set of threads, targets and *)
(* names, whatever upstream may publish and however often it changes.      *)
(***************************************************************************)
EXTENDS RequestValidation, TLAPS

USE RequestValidationAssumption

(* No map that upstream publishes is without a name. *)
LEMMA MapsHaveNames ==
    ASSUME NEW g \in Targets, NEW m \in MapsOf[g]
    PROVE  m # Nothing /\ m \in AllMaps
<1>1. DOMAIN m # {}
    OBVIOUS
<1>2. DOMAIN Nothing = {}
    BY DEF Nothing
<1> QED
    BY <1>1, <1>2 DEF AllMaps

LEMMA ResultsOfMaps ==
    ASSUME NEW g \in Targets, NEW m \in MapsOf[g], NEW n \in DOMAIN m
    PROVE  m[n] \in Results
    BY DEF Results, ProfileOf, AllMaps

LEMMA NothingInAllMaps == Nothing \in AllMaps
    BY DEF AllMaps

LEMMA NamesAreResults == Names \subseteq Results
    BY DEF Results

LEMMA TypeInitially == Init => TypeOK
    BY NothingInAllMaps, MapsHaveNames, NamesAreResults
    DEF Init, TypeOK, CachesTypeOK, ThreadsTypeOK, FilesTypeOK, Places

LEMMA TypeInductive == TypeOK /\ [Next]_vars => TypeOK'
<1> SUFFICES ASSUME TypeOK, [Next]_vars PROVE TypeOK'
    OBVIOUS
<1> USE DEF TypeOK
<1>1. ASSUME NEW g \in Targets, Change(g) PROVE TypeOK'
    <2>1. PICK m \in MapsOf[g] \cup {Nothing} :
              /\ upstream' = [upstream EXCEPT ![g] = m]
              /\ offered' = [offered EXCEPT ![g] = @ \cup ({m} \ {Nothing})]
        BY <1>1 DEF Change
    <2>2. m \in AllMaps /\ {m} \ {Nothing} \subseteq MapsOf[g] /\ {m} \ {Nothing} \subseteq AllMaps
        BY NothingInAllMaps, MapsHaveNames
    <2>3. changes' \in 0..MaxChanges
        BY <1>1 DEF Change, CachesTypeOK
    <2>4. CachesTypeOK'
        BY <1>1, <2>1, <2>2, <2>3 DEF Change, CachesTypeOK
    <2>5. ThreadsTypeOK' /\ FilesTypeOK'
        BY <1>1 DEF Change, ThreadsTypeOK, FilesTypeOK, threadVars
    <2> QED
        BY <2>4, <2>5
<1>2. ASSUME NEW t \in Threads, NEW g \in Targets, NEW n \in Names, Request(t, g, n)
      PROVE  TypeOK'
    BY <1>2, NamesAreResults DEF Request, CachesTypeOK, ThreadsTypeOK, FilesTypeOK, Goto,
        Places, upVars, threadVars
<1>3. ASSUME NEW t \in Threads, Overview(t) PROVE TypeOK'
    BY <1>3 DEF Overview, CachesTypeOK, ThreadsTypeOK, FilesTypeOK, Goto, Places, upVars,
        threadVars
<1>4. ASSUME NEW t \in Threads, LookTarget(t) PROVE TypeOK'
    BY <1>4 DEF LookTarget, CachesTypeOK, ThreadsTypeOK, FilesTypeOK, Goto, Places, upVars,
        threadVars
<1>5. ASSUME NEW t \in Threads, DownloadTargets(t) PROVE TypeOK'
    <2>1. /\ CachesTypeOK' /\ UNCHANGED threadVars
          /\ calm' \in [Threads -> BOOLEAN] /\ pc[t] = "reload targets"
        BY <1>5 DEF DownloadTargets, Disturb, CachesTypeOK, ThreadsTypeOK, upVars
    <2>2. \/ /\ pc' = [pc EXCEPT ![t] = "set targets"]
             /\ \E S \in SUBSET Targets : file' = [file EXCEPT ![t] = S]
          \/ pc' = [pc EXCEPT ![t] = "error"] /\ file' = file
        BY <1>5 DEF DownloadTargets, Goto, Published
    <2>3. ThreadsTypeOK'
        BY <2>1, <2>2 DEF ThreadsTypeOK, Places, Answers, threadVars
    <2>4. FilesTypeOK'
        <3>1. target' = target
            BY <2>1 DEF threadVars
        <3>2. CASE pc' = [pc EXCEPT ![t] = "error"] /\ file' = file
            BY <2>1, <3>1, <3>2 DEF FilesTypeOK, ThreadsTypeOK
        <3>3. ASSUME pc' = [pc EXCEPT ![t] = "set targets"],
                     NEW S \in SUBSET Targets, file' = [file EXCEPT ![t] = S]
              PROVE  FilesTypeOK'
            BY <3>1, <3>3 DEF FilesTypeOK, ThreadsTypeOK
        <3> QED
            BY <2>2, <3>2, <3>3
    <2> QED
        BY <2>1, <2>3, <2>4
<1>6. ASSUME NEW t \in Threads, SetTargets(t) PROVE TypeOK'
    BY <1>6, ZenonT(60) DEF SetTargets, CachesTypeOK, ThreadsTypeOK, FilesTypeOK, Goto, Places, upVars,
        threadVars
<1>7. ASSUME NEW t \in Threads, LookTargetAgain(t) PROVE TypeOK'
    BY <1>7 DEF LookTargetAgain, CachesTypeOK, ThreadsTypeOK, FilesTypeOK, Goto, Places,
        upVars, threadVars, Answers
<1>8. ASSUME NEW t \in Threads, LookProfile(t) \/ LookProfileAgain(t) PROVE TypeOK'
    <2>1. /\ CachesTypeOK' /\ UNCHANGED <<target, asked, file, calm>>
          /\ target[t] \in Targets /\ pc[t] \in {"profile", "profile again"}
        BY <1>8 DEF LookProfile, LookProfileAgain, CachesTypeOK, ThreadsTypeOK, upVars
    <2>2. \E p \in {"lookup", "reload profiles", "profile refused"} : pc' = [pc EXCEPT ![t] = p]
        BY <1>8 DEF LookProfile, LookProfileAgain, valid_profile, Goto
    <2>3. \/ name' = name
          \/ name' = [name EXCEPT ![t] = name[t]]
          \/ name' = [name EXCEPT ![t] = Generic]
        BY <1>8 DEF LookProfile, LookProfileAgain, valid_profile
    <2>4. name' \in [Threads -> Results]
        BY <2>3, NamesAreResults DEF ThreadsTypeOK
    <2>5. ThreadsTypeOK' /\ FilesTypeOK'
        BY <2>1, <2>2, <2>4 DEF ThreadsTypeOK, FilesTypeOK, Places, Answers
    <2> QED
        BY <2>1, <2>5
<1>9. ASSUME NEW t \in Threads, DownloadProfiles(t) PROVE TypeOK'
    <2>1. /\ CachesTypeOK' /\ UNCHANGED threadVars
          /\ calm' \in [Threads -> BOOLEAN] /\ pc[t] = "reload profiles"
        BY <1>9 DEF DownloadProfiles, Disturb, CachesTypeOK, ThreadsTypeOK, upVars
    <2>2. \/ /\ pc' = [pc EXCEPT ![t] = "set profiles"]
             /\ target[t] \in Targets
             /\ \E m \in MapsOf[target[t]] : file' = [file EXCEPT ![t] = m]
          \/ pc' = [pc EXCEPT ![t] = "error"] /\ file' = file
        BY <1>9 DEF DownloadProfiles, Goto, Published, CachesTypeOK
    <2>3. ThreadsTypeOK' /\ FilesTypeOK'
        BY <2>1, <2>2 DEF ThreadsTypeOK, FilesTypeOK, Places, Answers, threadVars
    <2> QED
        BY <2>1, <2>3
<1>10. ASSUME NEW t \in Threads, SetProfiles(t) PROVE TypeOK'
    <2>1. target[t] \in Targets /\ file[t] \in MapsOf[target[t]] /\ file[t] \in AllMaps
        BY <1>10, MapsHaveNames DEF SetProfiles, ThreadsTypeOK, FilesTypeOK
    <2>2. CachesTypeOK'
        BY <1>10, <2>1 DEF SetProfiles, CachesTypeOK, upVars
    <2>3. ThreadsTypeOK' /\ FilesTypeOK'
        BY <1>10, <2>1 DEF SetProfiles, ThreadsTypeOK, FilesTypeOK, Goto, Places, threadVars
    <2> QED
        BY <2>2, <2>3
<1>11. ASSUME NEW t \in Threads, Lookup(t) PROVE TypeOK'
    <2>1. /\ CachesTypeOK' /\ UNCHANGED <<target, asked, file, calm>>
          /\ target[t] \in Targets /\ pc[t] = "lookup"
        BY <1>11 DEF Lookup, CachesTypeOK, ThreadsTypeOK, upVars
    <2>2. \E p \in {"accepted", "error"} : pc' = [pc EXCEPT ![t] = p]
        BY <1>11 DEF Lookup, Goto
    <2>3. name' \in [Threads -> Results]
        <3>1. CASE name' = name
            BY <3>1 DEF ThreadsTypeOK
        <3>2. CASE name' # name
            <4>1. /\ name' = [name EXCEPT ![t] = profiles[target[t]][name[t]]]
                  /\ name[t] \in DOMAIN profiles[target[t]]
                BY <1>11, <3>2 DEF Lookup
            <4>2. profiles[target[t]] \in MapsOf[target[t]]
                BY <2>1, <4>1 DEF CachesTypeOK, Nothing
            <4>3. profiles[target[t]][name[t]] \in Results
                BY <2>1, <4>1, <4>2, ResultsOfMaps
            <4> QED
                BY <4>1, <4>3 DEF ThreadsTypeOK
        <3> QED
            BY <3>1, <3>2
    <2>4. ThreadsTypeOK' /\ FilesTypeOK'
        BY <2>1, <2>2, <2>3 DEF ThreadsTypeOK, FilesTypeOK, Places, Answers
    <2> QED
        BY <2>1, <2>4
<1>12. ASSUME NEW t \in Threads, Answered(t) PROVE TypeOK'
    <2>1. CachesTypeOK'
        BY <1>12 DEF Answered, CachesTypeOK, upVars
    <2>2. ThreadsTypeOK'
        BY <1>12, NamesAreResults DEF Answered, ThreadsTypeOK, Goto, Places
    <2>3. FilesTypeOK'
        BY <1>12 DEF Answered, ThreadsTypeOK, FilesTypeOK, Goto, Answers
    <2> QED
        BY <2>1, <2>2, <2>3
<1>13. CASE UNCHANGED vars
    <2>1. CachesTypeOK' /\ ThreadsTypeOK'
        BY <1>13 DEF vars, CachesTypeOK, ThreadsTypeOK, Places, upVars, threadVars
    <2>2. FilesTypeOK'
        <3>1. pc' = pc /\ file' = file /\ target' = target
            BY <1>13 DEF vars, threadVars
        <3> QED
            BY <3>1 DEF FilesTypeOK
    <2> QED
        BY <2>1, <2>2
<1> QED
    BY <1>1, <1>2, <1>3, <1>4, <1>5, <1>6, <1>7, <1>8, <1>9, <1>10, <1>11, <1>12, <1>13
    DEF Next, Validating

(* The caches, the threads and what they have downloaded stay within their *)
(* types.                                                                  *)
THEOREM TypeCorrect == Spec => []TypeOK
    BY TypeInitially, TypeInductive, PTL DEF Spec

-----------------------------------------------------------------------------
\* A name that is valid for a map that was offered, and the profile it stands for.
Valid(g, a, n) ==
    \E m \in offered[g] :
        \/ a \in DOMAIN m /\ n = a
        \/ DOMAIN m = {Generic} /\ n = Generic
Taken(g, a, n) ==
    \E m \in offered[g] :
        \/ a \in DOMAIN m /\ n = m[a]
        \/ DOMAIN m = {Generic} /\ n = m[Generic]

(* What upstream has, and what is in the cache, was offered. *)
KnownOffered ==
    \A g \in Targets :
        /\ upstream[g] # Nothing => upstream[g] \in offered[g]
        /\ profiles[g] # Nothing => profiles[g] \in offered[g]

(* What a thread knows of the name it was sent. *)
Traced(t) ==
    /\ pc[t] = "set profiles" => file[t] \in offered[target[t]]
    /\ pc[t] \notin {"lookup"} \cup Answers => name[t] = asked[t]
    /\ pc[t] = "lookup" => Valid(target[t], asked[t], name[t])
    /\ pc[t] = "accepted" => Taken(target[t], asked[t], name[t])

TracedInv == TypeOK /\ KnownOffered /\ \A t \in Threads : Traced(t)

LEMMA TracedInitially == Init => TracedInv
    BY TypeInitially DEF Init, TracedInv, KnownOffered, Traced, Answers

(* A thread that takes no step keeps what it knows: offers only grow. *)
LEMMA OthersTraced ==
    ASSUME TypeOK, NEW u \in Threads, Traced(u),
           \A g \in Targets : offered[g] \subseteq offered'[g],
           pc'[u] = pc[u], target'[u] = target[u], file'[u] = file[u],
           name'[u] = name[u], asked'[u] = asked[u]
    PROVE  Traced(u)'
<1>1. pc[u] \in {"set profiles", "lookup", "accepted"} => target[u] \in Targets
    BY DEF TypeOK, ThreadsTypeOK
<1> QED
    BY <1>1 DEF Traced, Valid, Taken

LEMMA TracedInductive == TracedInv /\ [Next]_vars => TracedInv'
<1> SUFFICES ASSUME TracedInv, [Next]_vars PROVE KnownOffered' /\ \A u \in Threads : Traced(u)'
    BY TypeInductive DEF TracedInv
<1> USE DEF TracedInv
<1>1. ASSUME NEW g \in Targets, Change(g) PROVE KnownOffered' /\ \A u \in Threads : Traced(u)'
    <2>1. PICK m \in MapsOf[g] \cup {Nothing} :
              /\ upstream' = [upstream EXCEPT ![g] = m]
              /\ offered' = [offered EXCEPT ![g] = @ \cup ({m} \ {Nothing})]
        BY <1>1 DEF Change
    <2>2. \A h \in Targets : offered[h] \subseteq offered'[h]
        BY <2>1 DEF TypeOK, CachesTypeOK
    <2>3. UNCHANGED <<profiles, pc, target, file, name, asked>>
        BY <1>1 DEF Change, threadVars
    <2>4. KnownOffered'
        BY <2>1, <2>2, <2>3 DEF KnownOffered, TypeOK, CachesTypeOK
    <2>5. \A u \in Threads : Traced(u)'
        BY <2>2, <2>3, OthersTraced
    <2> QED
        BY <2>4, <2>5
<1>2. ASSUME NEW t \in Threads, Validating(t) PROVE KnownOffered' /\ \A u \in Threads : Traced(u)'
    <2>1. offered' = offered /\ upstream' = upstream
        BY <1>2 DEF Validating, Request, Overview, LookTarget, DownloadTargets, SetTargets,
            LookTargetAgain, LookProfile, DownloadProfiles, SetProfiles, LookProfileAgain,
            Lookup, Answered, upVars
    <2>2. ASSUME NEW u \in Threads \ {t} PROVE Traced(u)'
        <3>1. pc'[u] = pc[u] /\ target'[u] = target[u] /\ file'[u] = file[u]
              /\ name'[u] = name[u] /\ asked'[u] = asked[u]
            BY <1>2, ZenonT(60) DEF Validating, Request, Overview, LookTarget, DownloadTargets, SetTargets,
                LookTargetAgain, LookProfile, DownloadProfiles, SetProfiles, LookProfileAgain,
                valid_profile, Lookup, Answered, Goto, threadVars, TypeOK, ThreadsTypeOK, FilesTypeOK
        <3> QED
            BY <2>1, <3>1, OthersTraced
    <2>3. ASSUME NEW g \in Targets, NEW n \in Names, Request(t, g, n)
          PROVE  KnownOffered' /\ Traced(t)'
        BY <2>3, <2>1 DEF Request, KnownOffered, Traced, Goto, Answers, TypeOK, ThreadsTypeOK
    <2>4. ASSUME \/ Overview(t) \/ LookTarget(t) \/ LookTargetAgain(t)
                 \/ DownloadTargets(t) \/ SetTargets(t)
          PROVE  KnownOffered' /\ Traced(t)'
        <3>1. name' = name /\ asked' = asked /\ profiles' = profiles
            BY <2>4 DEF Overview, LookTarget, DownloadTargets, SetTargets, LookTargetAgain,
                threadVars
        <3>2. /\ pc[t] \notin {"lookup"} \cup Answers
              /\ pc'[t] \notin {"set profiles", "lookup", "accepted"}
            BY <2>4 DEF Overview, LookTarget, DownloadTargets, SetTargets, LookTargetAgain,
                Goto,
                Answers, TypeOK, ThreadsTypeOK
        <3> QED
            BY <2>1, <3>1, <3>2 DEF KnownOffered, Traced
    <2>5. ASSUME LookProfile(t) \/ LookProfileAgain(t) PROVE KnownOffered' /\ Traced(t)'
        <3>1. UNCHANGED <<profiles, target, asked>> /\ target[t] \in Targets /\ name[t] = asked[t]
            BY <2>5 DEF LookProfile, LookProfileAgain, Traced, Answers, TypeOK, ThreadsTypeOK
        <3>2. CASE pc'[t] = "lookup"
            <4> DEFINE m == profiles[target[t]]
            <4>1. /\ name[t] \in DOMAIN m \/ DOMAIN m = {Generic}
                  /\ name'[t] = IF name[t] \in DOMAIN m THEN name[t] ELSE Generic
                BY <2>5, <3>2 DEF LookProfile, LookProfileAgain, valid_profile, Goto,
                    TypeOK, ThreadsTypeOK
            <4>2. m \in offered[target[t]]
                BY <3>1, <4>1 DEF KnownOffered, Nothing
            <4>3. \/ asked[t] \in DOMAIN m /\ name'[t] = asked[t]
                  \/ DOMAIN m = {Generic} /\ name'[t] = Generic
                BY <3>1, <4>1
            <4>4. Valid(target[t], asked[t], name'[t])
                <5> HIDE DEF m
                <5> QED
                    BY <4>2, <4>3 DEF Valid
            <4>5. Valid(target[t], asked[t], name[t])'
                BY <2>1, <3>1, <4>4 DEF Valid
            <4>6. Traced(t)'
                BY <3>2, <4>5 DEF Traced, Answers
            <4> QED
                BY <2>1, <3>1, <4>6 DEF KnownOffered
        <3>3. CASE pc'[t] # "lookup"
            <4>1. name' = name /\ pc'[t] \in {"reload profiles", "profile refused"}
                BY <2>5, <3>3 DEF LookProfile, LookProfileAgain, valid_profile, Goto,
                    TypeOK, ThreadsTypeOK
            <4> QED
                BY <2>1, <3>1, <4>1 DEF Traced, KnownOffered, Answers
        <3> QED
            BY <3>2, <3>3
    <2>6. ASSUME DownloadProfiles(t) PROVE KnownOffered' /\ Traced(t)'
        <3>1. UNCHANGED <<name, asked, target, profiles>> /\ pc[t] = "reload profiles"
            BY <2>6 DEF DownloadProfiles, threadVars
        <3>2. \/ pc'[t] = "error"
              \/ pc'[t] = "set profiles" /\ file'[t] \in offered[target[t]]
            BY <2>6 DEF DownloadProfiles, Goto, Published, KnownOffered, TypeOK,
                ThreadsTypeOK, FilesTypeOK
        <3> QED
            <4>1. Traced(t)'
                BY <2>1, <3>1, <3>2 DEF Traced, Answers
            <4> QED
                BY <2>1, <3>1, <4>1 DEF KnownOffered
    <2>7. ASSUME SetProfiles(t) PROVE KnownOffered' /\ Traced(t)'
        <3>1. target[t] \in Targets /\ file[t] \in offered[target[t]]
            BY <2>7 DEF SetProfiles, Traced, TypeOK, ThreadsTypeOK
        <3>2. KnownOffered'
            BY <2>1, <2>7, <3>1 DEF SetProfiles, KnownOffered, TypeOK, CachesTypeOK
        <3>3. /\ pc[t] = "set profiles" /\ pc'[t] = "profile again"
              /\ name'[t] = name[t] /\ asked'[t] = asked[t]
            BY <2>7 DEF SetProfiles, Goto, threadVars, TypeOK, ThreadsTypeOK
        <3>4. Traced(t)'
            BY <3>3 DEF Traced, Answers
        <3> QED
            BY <3>2, <3>4
    <2>8. ASSUME Lookup(t) PROVE KnownOffered' /\ Traced(t)'
        <3> DEFINE m == profiles[target[t]]
        <3>1. UNCHANGED <<profiles, target, asked>> /\ target[t] \in Targets
              /\ Valid(target[t], asked[t], name[t])
            BY <2>8 DEF Lookup, Traced, TypeOK, ThreadsTypeOK
        <3>2. CASE name[t] \in DOMAIN m
            <4>1. pc'[t] = "accepted" /\ name'[t] = m[name[t]]
                BY <2>8, <3>2 DEF Lookup, Goto, TypeOK, ThreadsTypeOK
            <4>2. m \in offered[target[t]]
                BY <3>1, <3>2 DEF KnownOffered, Nothing
            <4>3. m \in MapsOf[target[t]] /\ offered[target[t]] \subseteq MapsOf[target[t]]
                BY <3>1, <4>2 DEF TypeOK, CachesTypeOK
            <4>4. \/ name[t] = asked[t]
                  \/ name[t] = Generic /\ DOMAIN m = {Generic}
                <5>1. PICK k \in offered[target[t]] :
                          \/ name[t] = asked[t]
                          \/ DOMAIN k = {Generic} /\ name[t] = Generic
                    BY <3>1 DEF Valid
                <5>2. CASE DOMAIN k = {Generic} /\ name[t] = Generic
                    <6>1. k \in MapsOf[target[t]]
                        BY <4>3, <5>1
                    <6>2. DOMAIN m = {Generic}
                        BY <3>1, <4>3, <5>2, <6>1 DEF RequestValidationAssumption
                    <6> QED
                        BY <5>2, <6>2
                <5> QED
                    BY <5>1, <5>2
            <4>5. Taken(target[t], asked[t], name[t])'
                BY <2>1, <3>1, <3>2, <4>1, <4>2, <4>4 DEF Taken
            <4>6. Traced(t)'
                BY <4>1, <4>5 DEF Traced, Answers
            <4> QED
                BY <2>1, <3>1, <4>6 DEF KnownOffered
        <3>3. CASE name[t] \notin DOMAIN m
            <4>1. pc'[t] = "error"
                BY <2>8, <3>3 DEF Lookup, Goto, TypeOK, ThreadsTypeOK
            <4>2. Traced(t)'
                BY <4>1 DEF Traced, Answers
            <4> QED
                BY <2>1, <3>1, <4>2 DEF KnownOffered
        <3> QED
            BY <3>2, <3>3
    <2>9. ASSUME Answered(t) PROVE KnownOffered' /\ Traced(t)'
        <3>1. pc'[t] = "idle" /\ name'[t] = asked'[t] /\ profiles' = profiles
            BY <2>9 DEF Answered, Goto, TypeOK, ThreadsTypeOK
        <3>2. Traced(t)'
            BY <3>1 DEF Traced, Answers
        <3> QED
            BY <2>1, <3>1, <3>2 DEF KnownOffered
    <2>10. KnownOffered' /\ Traced(t)'
        BY <1>2, <2>3, <2>4, <2>5, <2>6, <2>7, <2>8, <2>9 DEF Validating
    <2> QED
        BY <2>2, <2>10
<1>3. CASE UNCHANGED vars
    BY <1>3, OthersTraced DEF vars, upVars, threadVars, KnownOffered
<1> QED
    BY <1>1, <1>2, <1>3 DEF Next

(* What is accepted was offered by upstream for its target, under the name   *)
(* that the client sent or, where there is only "generic", under any.        *)
THEOREM AcceptedWasOfferedAlways == Spec => []AcceptedWasOffered
<1>1. TracedInv => AcceptedWasOffered
    BY DEF TracedInv, Traced, Taken, AcceptedWasOffered
<1> QED
    BY <1>1, TracedInitially, TracedInductive, PTL DEF Spec
-----------------------------------------------------------------------------
(* Requests while upstream stays as it is *)

NoneOld == \A u \in Threads : ~Old(u)

\* Upstream has what the thread was asked for.
Serves(t) ==
    asked[t] \in DOMAIN upstream[target[t]] \/ DOMAIN upstream[target[t]] = {Generic}

(* While it is calm nobody stores anything but what upstream has, so a cache *)
(* that was reloaded stays right, and one that knew the name keeps it.       *)
Served(t) ==
    calm[t] /\ target[t] \in Targets =>
        /\ NoneOld
        /\ pc[t] = "target again" => targets = Published
        /\ pc[t] = "profile again" => profiles[target[t]] = upstream[target[t]]
        /\ Serves(t) =>
               /\ pc[t] \notin Answers \ {"accepted"}
               /\ pc[t] = "lookup" =>
                      name[t] \in DOMAIN profiles[target[t]] \cap DOMAIN upstream[target[t]]

CalmInv == TracedInv /\ \A t \in Threads : Served(t)

(* What a thread does to the others. *)
LEMMA CalmEffects ==
    ASSUME TypeOK, NoneOld, NEW t \in Threads, Validating(t), NEW u \in Threads, calm'[u]
    PROVE  /\ NoneOld'
           /\ targets' = targets \/ targets' = Published
           /\ \A g \in Targets : profiles'[g] = profiles[g] \/ profiles'[g] = upstream[g]
<1>1. upstream' = upstream
    BY DEF Validating, Request, Overview, LookTarget, DownloadTargets, SetTargets,
        LookTargetAgain, LookProfile, DownloadProfiles, SetProfiles, LookProfileAgain,
        Lookup, Answered, upVars
<1>2. ASSUME pc'[t] \notin {"set targets", "set profiles"} PROVE NoneOld'
    <2>1. \A v \in Threads \ {t} : pc'[v] = pc[v] /\ target'[v] = target[v] /\ file'[v] = file[v]
        BY ZenonT(60) DEF Validating, Request, Overview, LookTarget, DownloadTargets, SetTargets,
            LookTargetAgain, LookProfile, DownloadProfiles, SetProfiles, LookProfileAgain,
            valid_profile, Lookup, Answered, Goto, threadVars, TypeOK, ThreadsTypeOK, FilesTypeOK
    <2> QED
        BY <1>1, <1>2, <2>1, ZenonT(60) DEF NoneOld, Old, Published
<1>3. CASE DownloadTargets(t)
    <2>1. ~Disturb
        BY DEF Disturb
    <2>2. /\ pc'[t] = "set targets" /\ file' = [file EXCEPT ![t] = Published]
          /\ UNCHANGED <<targets, profiles, target>>
          /\ pc' = [pc EXCEPT ![t] = "set targets"]
        BY <1>3, <2>1 DEF DownloadTargets, Goto, threadVars, TypeOK, ThreadsTypeOK
    <2>3. NoneOld'
        BY <1>1, <2>2 DEF NoneOld, Old, Published, TypeOK, ThreadsTypeOK, FilesTypeOK
    <2> QED
        BY <2>2, <2>3
<1>4. CASE DownloadProfiles(t)
    <2>1. ~Disturb
        BY DEF Disturb
    <2>2. /\ pc'[t] = "set profiles" /\ file' = [file EXCEPT ![t] = upstream[target[t]]]
          /\ UNCHANGED <<targets, profiles, target>>
          /\ pc' = [pc EXCEPT ![t] = "set profiles"]
        BY <1>4, <2>1 DEF DownloadProfiles, Goto, threadVars, TypeOK, ThreadsTypeOK
    <2>3. NoneOld'
        BY <1>1, <2>2 DEF NoneOld, Old, Published, TypeOK, ThreadsTypeOK, FilesTypeOK
    <2> QED
        BY <2>2, <2>3
<1>5. CASE SetTargets(t)
    <2>1. targets' = Published /\ profiles' = profiles
        BY <1>5 DEF SetTargets, NoneOld, Old
    <2>2. pc'[t] \notin {"set targets", "set profiles"}
        BY <1>5 DEF SetTargets, Goto, TypeOK, ThreadsTypeOK
    <2> QED
        BY <1>2, <2>1, <2>2
<1>6. CASE SetProfiles(t)
    <2>1. /\ targets' = targets
          /\ profiles' = [profiles EXCEPT ![target[t]] = upstream[target[t]]]
        BY <1>6 DEF SetProfiles, NoneOld, Old
    <2>2. pc'[t] \notin {"set targets", "set profiles"}
        BY <1>6 DEF SetProfiles, Goto, TypeOK, ThreadsTypeOK
    <2>3. \A g \in Targets : profiles'[g] = profiles[g] \/ profiles'[g] = upstream[g]
        BY <2>1 DEF TypeOK, CachesTypeOK
    <2> QED
        BY <1>2, <2>1, <2>2, <2>3
<1>7. ASSUME ~DownloadTargets(t), ~DownloadProfiles(t), ~SetTargets(t), ~SetProfiles(t)
      PROVE  /\ pc'[t] \notin {"set targets", "set profiles"}
             /\ UNCHANGED <<targets, profiles>>
    BY <1>7 DEF Validating, Request, Overview, LookTarget, LookTargetAgain, LookProfile,
        LookProfileAgain, valid_profile, Lookup, Answered, Goto, TypeOK, ThreadsTypeOK
<1> QED
    BY <1>2, <1>3, <1>4, <1>5, <1>6, <1>7
(* A name that the cache and upstream both know is known to both as the same. *)
LEMMA KnownToBoth ==
    ASSUME TracedInv, NEW t \in Threads, target[t] \in Targets, name[t] = asked[t], Serves(t),
           NEW place, valid_profile(t, place), pc'[t] = "lookup", place # "lookup"
    PROVE  name'[t] \in DOMAIN profiles[target[t]] \cap DOMAIN upstream[target[t]]
<1> DEFINE m == profiles[target[t]]
           k == upstream[target[t]]
<1>1. m \in MapsOf[target[t]] \cup {Nothing} /\ k \in MapsOf[target[t]] \cup {Nothing}
    BY DEF TracedInv, TypeOK, CachesTypeOK
<1>2. /\ name[t] \in DOMAIN m \/ DOMAIN m = {Generic}
      /\ name'[t] = IF name[t] \in DOMAIN m THEN name[t] ELSE Generic
    BY DEF valid_profile, Goto, TracedInv, TypeOK, ThreadsTypeOK
<1>3. DOMAIN Nothing = {}
    BY DEF Nothing
<1>4. m \in MapsOf[target[t]] /\ k \in MapsOf[target[t]]
    BY <1>1, <1>2, <1>3 DEF Serves
<1>5. DOMAIN m = {Generic} <=> DOMAIN k = {Generic}
    BY <1>4, RequestValidationAssumption
<1> HIDE DEF m, k
<1>6. asked[t] \in DOMAIN k \/ DOMAIN k = {Generic}
    BY DEF Serves, k
<1>7. name'[t] \in DOMAIN m /\ name'[t] \in DOMAIN k
    BY <1>2, <1>5, <1>6
<1> QED
    BY <1>7 DEF m, k

LEMMA CalmInductive == CalmInv /\ [Next]_vars => CalmInv'
<1> SUFFICES ASSUME CalmInv, [Next]_vars PROVE \A u \in Threads : Served(u)'
    BY TracedInductive DEF CalmInv
<1> USE DEF CalmInv
<1>0. TypeOK
    BY DEF TracedInv
<1>1. ASSUME NEW g \in Targets, Change(g) PROVE \A u \in Threads : Served(u)'
    BY <1>1 DEF Change, Served
<1>2. ASSUME NEW t \in Threads, Validating(t), NEW u \in Threads, calm'[u], target'[u] \in Targets
      PROVE  Served(u)'
    <2>1. UNCHANGED upstream
        BY <1>2 DEF Validating, Request, Overview, LookTarget, DownloadTargets, SetTargets,
            LookTargetAgain, LookProfile, DownloadProfiles, SetProfiles, LookProfileAgain,
            Lookup, Answered, upVars
    <2>2. CASE u # t
        <3>1. /\ pc'[u] = pc[u] /\ target'[u] = target[u]
              /\ name'[u] = name[u] /\ asked'[u] = asked[u]
              /\ calm[u]
            BY <1>0, <1>2, <2>2
               DEF Validating, Request, Overview, LookTarget, DownloadTargets, SetTargets,
                LookTargetAgain, LookProfile, DownloadProfiles, SetProfiles, LookProfileAgain,
                valid_profile, Lookup, Answered, Disturb, Goto, threadVars, TypeOK, ThreadsTypeOK
        <3>2. NoneOld
            BY <1>2, <3>1 DEF Served
        <3>3. /\ NoneOld'
              /\ targets' = targets \/ targets' = Published
              /\ profiles'[target[u]] = profiles[target[u]] \/ profiles'[target[u]] = upstream[target[u]]
            BY <1>0, <1>2, <3>1, <3>2, CalmEffects
        <3> QED
            BY <1>2, <2>1, <3>1, <3>3 DEF Served, Serves, Published
    <2>3. ASSUME u = t, NEW g \in Targets, NEW n \in Names, Request(t, g, n) PROVE Served(u)'
        <3>1. NoneOld /\ pc'[t] = "target"
            BY <1>0, <1>2, <2>3 DEF Request, Goto, NoneOld, TypeOK, ThreadsTypeOK
        <3>2. NoneOld'
            BY <1>0, <1>2, <3>1, CalmEffects
        <3> QED
            BY <2>3, <3>1, <3>2 DEF Served, Answers
    <2>4. ASSUME u = t, ~(\E g \in Targets, n \in Names : Request(t, g, n)) PROVE Served(u)'
        <3>1. ~Overview(t) /\ ~Answered(t)
            BY <1>0, <1>2, <2>4, RequestValidationAssumption
               DEF Overview, Answered, TypeOK, ThreadsTypeOK
        <3>2. UNCHANGED <<target, asked>> /\ calm[t]
            BY <1>0, <1>2, <2>4, <3>1
               DEF Validating, LookTarget, DownloadTargets, SetTargets, LookTargetAgain,
                LookProfile, DownloadProfiles, SetProfiles, LookProfileAgain, Lookup, Disturb,
                threadVars
        <3>3. NoneOld /\ NoneOld'
            BY <1>0, <1>2, <2>4, <3>2, CalmEffects DEF Served
        <3>4. Serves(t)' <=> Serves(t)
            BY <2>1, <3>2 DEF Serves
        <3>5. CASE LookTarget(t) \/ DownloadTargets(t) \/ DownloadProfiles(t)
            <4>1. pc'[t] \notin {"target again", "profile again", "lookup"} \cup Answers
                BY <1>0, <1>2, <2>4, <3>5, ZenonT(60)
                   DEF LookTarget, DownloadTargets, DownloadProfiles, Goto, Disturb, Answers,
                       TypeOK, ThreadsTypeOK
            <4> QED
                BY <2>4, <3>3, <4>1 DEF Served
        <3>6. CASE SetTargets(t)
            <4>1. targets' = Published /\ Published' = Published
                BY <2>1, <3>3, <3>6 DEF SetTargets, NoneOld, Old, Published
            <4>2. pc'[t] = "target again"
                BY <1>0, <1>2, <2>4, <3>2, <3>6, RequestValidationAssumption
                   DEF SetTargets, Goto, TypeOK, ThreadsTypeOK
            <4> QED
                BY <2>4, <3>3, <4>1, <4>2 DEF Served, Answers
        <3>7. CASE LookTargetAgain(t)
            <4>1. targets = Published /\ target[t] \in Targets
                BY <1>2, <2>4, <3>2, <3>7 DEF LookTargetAgain, Served
            <4>2. Serves(t) => target[t] \in Published
                BY <4>1 DEF Serves, Published, Nothing
            <4>3. /\ pc'[t] \in {"profile", "target refused"}
                  /\ Serves(t) => pc'[t] = "profile"
                BY <1>0, <3>7, <4>1, <4>2 DEF LookTargetAgain, Goto, TypeOK, ThreadsTypeOK
            <4> QED
                BY <2>4, <3>3, <3>4, <4>3 DEF Served, Answers
        <3>8. CASE LookProfile(t)
            <4>1. /\ pc'[t] \in {"lookup", "reload profiles"}
                  /\ UNCHANGED profiles /\ valid_profile(t, "reload profiles")
                BY <1>0, <3>8 DEF LookProfile, valid_profile, Goto, TypeOK, ThreadsTypeOK
            <4>2. name[t] = asked[t]
                BY <3>8 DEF LookProfile, TracedInv, Traced, Answers
            <4>3. Serves(t) /\ pc'[t] = "lookup" =>
                      name'[t] \in DOMAIN profiles[target[t]] \cap DOMAIN upstream[target[t]]
                BY <1>2, <2>4, <3>2, <4>1, <4>2, KnownToBoth
            <4> QED
                BY <2>1, <2>4, <3>2, <3>3, <3>4, <4>1, <4>3 DEF Served, Answers
        <3>9. CASE SetProfiles(t)
            <4>1. pc'[t] = "profile again" /\ profiles'[target[t]] = upstream[target[t]]
                BY <1>0, <1>2, <2>4, <3>2, <3>3, <3>9
                   DEF SetProfiles, NoneOld, Old, Goto, TypeOK, ThreadsTypeOK, CachesTypeOK
            <4> QED
                BY <2>1, <2>4, <3>2, <3>3, <4>1 DEF Served, Answers
        <3>10. CASE LookProfileAgain(t)
            <4>1. /\ pc'[t] \in {"lookup", "profile refused"}
                  /\ UNCHANGED profiles /\ valid_profile(t, "profile refused")
                BY <1>0, <3>10 DEF LookProfileAgain, valid_profile, Goto, TypeOK, ThreadsTypeOK
            <4>2. name[t] = asked[t] /\ profiles[target[t]] = upstream[target[t]]
                BY <1>2, <2>4, <3>2, <3>10 DEF LookProfileAgain, TracedInv, Traced, Served, Answers
            <4>3. Serves(t) => pc'[t] = "lookup"
                BY <1>0, <4>1, <4>2 DEF Serves, valid_profile, Goto, TypeOK, ThreadsTypeOK
            <4>4. Serves(t) =>
                      name'[t] \in DOMAIN profiles[target[t]] \cap DOMAIN upstream[target[t]]
                BY <1>2, <2>4, <3>2, <4>1, <4>2, <4>3, KnownToBoth
            <4> QED
                BY <2>1, <2>4, <3>2, <3>3, <3>4, <4>1, <4>3, <4>4 DEF Served, Answers
        <3>11. CASE Lookup(t)
            <4>1. Serves(t) => name[t] \in DOMAIN profiles[target[t]]
                BY <1>2, <2>4, <3>2, <3>11 DEF Lookup, Served
            <4>2. pc'[t] \in {"accepted", "error"} /\ (Serves(t) => pc'[t] = "accepted")
                BY <1>0, <3>11, <4>1 DEF Lookup, Goto, TypeOK, ThreadsTypeOK
            <4> QED
                BY <2>4, <3>3, <3>4, <4>2 DEF Served, Answers
        <3> QED
            BY <1>2, <2>4, <3>1, <3>5, <3>6, <3>7, <3>8, <3>9, <3>10, <3>11 DEF Validating
    <2> QED
        BY <2>2, <2>3, <2>4
<1>3. CASE UNCHANGED vars
    BY <1>3 DEF vars, upVars, threadVars, Served, Serves, NoneOld, Old, Published
<1>4. ASSUME NEW t \in Threads, Validating(t) PROVE \A u \in Threads : Served(u)'
    BY <1>2, <1>4 DEF Served
<1> QED
    BY <1>1, <1>3, <1>4 DEF Next

(* As long as upstream is calm, whatever is in the caches, and whatever the  *)
(* other threads reload, a request for what upstream has is served.          *)
THEOREM ServedInCalmAlways == Spec => []ServedInCalm
<1>1. Init => CalmInv
    BY TracedInitially DEF Init, CalmInv, Served
<1>2. CalmInv => ServedInCalm
    BY DEF CalmInv, Served, Serves, ServedInCalm
<1> QED
    BY <1>1, <1>2, CalmInductive, PTL DEF Spec
===============================================================================
