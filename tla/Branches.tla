------------------------------- MODULE Branches -------------------------------
(***************************************************************************)
(* generate_branches (asu/main.py), which branches.json, overview.json and *)
(* the overview page call in threads of the web server.  Its copy of       *)
(* settings.branches is shallow: all threads clear, fill and read the same *)
(* dictionaries, and the answer is encoded from them after the function    *)
(* has returned.  A step treats one branch or one version.                 *)
(***************************************************************************)
EXTENDS Naturals, FiniteSets, Sequences, SequencesExt

CONSTANTS
    Threads,      \* threads of the web server
    BranchSeq,    \* settings.branches, in its order
    VersionSeq,   \* app.versions when it is complete and sorted
    BranchOf,     \* get_branch(version)["name"]
    NoVersion,    \* the version of targets that have not been set
    Repeats       \* how often a loop over app.versions may meet a version

BranchSet == ToSet(BranchSeq)
Versions  == ToSet(VersionSeq)

\* A branch that settings.branches does not enable has no version.
ASSUME BranchesAssumption ==
    /\ IsFiniteSet(Threads)
    /\ BranchSeq \in Seq(BranchSet) \ {<<>>}
    /\ VersionSeq \in Seq(Versions) /\ IsInjective(VersionSeq)
    /\ BranchOf \in [Versions -> BranchSet]
    /\ NoVersion \notin Versions
    /\ Repeats \in Nat \ {0}

VARIABLES
    versions,     \* settings.branches[b]["versions"]
    targets,      \* the version whose targets settings.branches[b]["targets"] are
    pc,           \* each thread: where it is in generate_branches
    at,           \* its place in a loop over the branches
    todo,         \* how often it has yet to append each version
    reply,        \* what is encoded of its answer so far
    alone         \* history: it has downloaded the versions, and no other thread
                  \* reloads or generates since its call

vars == <<versions, targets, pc, at, todo, reply, alone>>

Branch == [versions : Seq(Versions), targets : Versions \cup {NoVersion}]
Empty  == [b \in BranchSet |-> [versions |-> <<>>, targets |-> NoVersion]]

TypeOK ==
    /\ versions \in [BranchSet -> Seq(Versions)]
    /\ \A b \in BranchSet : \A v \in ToSet(versions[b]) : BranchOf[v] = b
    /\ targets \in [BranchSet -> Versions \cup {NoVersion}]
    /\ pc \in [Threads -> {"idle", "clear", "read", "fill", "targets", "encode",
                           "answered", "no version", "failed"}]
    /\ at \in [Threads -> 1..Len(BranchSeq)]
    /\ todo \in [Threads -> [Versions -> 0..Repeats]]
    /\ reply \in [Threads -> [BranchSet -> Branch]]
    /\ alone \in [Threads -> BOOLEAN]

Init ==
    /\ versions = [b \in BranchSet |-> <<>>]
    /\ targets = [b \in BranchSet |-> NoVersion]
    /\ pc = [t \in Threads |-> "idle"]
    /\ at = [t \in Threads |-> 1]
    /\ todo = [t \in Threads |-> [v \in Versions |-> 0]]
    /\ reply = [t \in Threads |-> Empty]
    /\ alone = [t \in Threads |-> FALSE]

-----------------------------------------------------------------------------
Goto(t, place) == pc' = [pc EXCEPT ![t] = place]

(* A loop over the branches goes on, or to what follows it. *)
NextBranch(t, place, after) ==
    IF at[t] < Len(BranchSeq)
    THEN Goto(t, place) /\ at' = [at EXCEPT ![t] = @ + 1]
    ELSE Goto(t, after) /\ at' = [at EXCEPT ![t] = 1]

(* The call and its reload_versions, which may fail; one that overlaps *)
(* another leaves the list in a state that VersionCache is about.      *)
Call(t) ==
    /\ pc[t] = "idle"
    /\ Goto(t, "clear")
    /\ \E downloaded \in BOOLEAN :
           alone' = [u \in Threads |->
                        u = t /\ downloaded /\ \A w \in Threads : pc[w] = "idle"]
    /\ UNCHANGED <<versions, targets, at, todo, reply>>

(* Another handler reloads the versions. *)
OtherReload ==
    /\ \E t \in Threads : alone[t]
    /\ alone' = [t \in Threads |-> FALSE]
    /\ UNCHANGED <<versions, targets, pc, at, todo, reply>>

\* Mutant of Clear: the versions of a branch are set where there are none yet.
ClearUnset(t) ==
    /\ pc[t] = "clear"
    /\ NextBranch(t, "clear", "read")
    /\ UNCHANGED <<versions, targets, todo, reply, alone>>

Clear(t) ==
    /\ pc[t] = "clear"
    /\ versions' = [versions EXCEPT ![BranchSeq[at[t]]] = <<>>]
    /\ NextBranch(t, "clear", "read")
    /\ UNCHANGED <<targets, todo, reply, alone>>

(* The loop over app.versions runs over a list object, which the reloads of  *)
(* other threads may be filling or sorting meanwhile: it may then miss a     *)
(* version, or meet it again where a sort has moved it to.                   *)
Read(t) ==
    /\ pc[t] = "read"
    /\ Goto(t, "fill")
    /\ \E times \in [Versions -> 0..Repeats] :
           /\ alone[t] => \A v \in Versions : times[v] = 1
           /\ todo' = [todo EXCEPT ![t] = times]
    /\ UNCHANGED <<versions, targets, at, reply, alone>>

Place(v) == CHOOSE i \in DOMAIN VersionSeq : VersionSeq[i] = v

\* The version that the loop is at: the next one, when nothing moves them.
MayBeNext(t, v) ==
    /\ todo[t][v] > 0
    /\ alone[t] => \A u \in Versions : todo[t][u] > 0 => Place(v) <= Place(u)

Filled(t) ==
    /\ pc[t] = "fill"
    /\ \A v \in Versions : todo[t][v] = 0
    /\ Goto(t, "targets")
    /\ UNCHANGED <<versions, targets, at, todo, reply, alone>>

\* Mutant of Fill: every version goes to the first branch.
FillFirst(t) ==
    /\ pc[t] = "fill"
    /\ \E v \in Versions :
           /\ MayBeNext(t, v)
           /\ versions' = [versions EXCEPT ![BranchSeq[1]] = Append(@, v)]
           /\ todo' = [todo EXCEPT ![t][v] = @ - 1]
    /\ UNCHANGED <<targets, pc, at, reply, alone>>

Fill(t) ==
    /\ pc[t] = "fill"
    /\ \E v \in Versions :
           /\ MayBeNext(t, v)
           /\ versions' = [versions EXCEPT ![BranchOf[v]] = Append(@, v)]
           /\ todo' = [todo EXCEPT ![t][v] = @ - 1]
    /\ UNCHANGED <<targets, pc, at, reply, alone>>

(* The targets of a branch are those of its first version: an IndexError if *)
(* it has none.  A download of .targets.json may raise.                     *)
SetTargets(t) ==
    LET b == BranchSeq[at[t]]
    IN  /\ pc[t] = "targets"
        /\ IF versions[b] = <<>>
           THEN Goto(t, "no version") /\ at' = [at EXCEPT ![t] = 1] /\ UNCHANGED targets
           ELSE \/ /\ targets' = [targets EXCEPT ![b] = Head(versions[b])]
                   /\ NextBranch(t, "targets", "encode")
                \/ Goto(t, "failed") /\ at' = [at EXCEPT ![t] = 1] /\ UNCHANGED targets
        /\ UNCHANGED <<versions, todo, reply, alone>>

Encode(t) ==
    LET b == BranchSeq[at[t]]
    IN  /\ pc[t] = "encode"
        /\ reply' = [reply EXCEPT ![t][b] = [versions |-> versions[b], targets |-> targets[b]]]
        /\ NextBranch(t, "encode", "answered")
        /\ UNCHANGED <<versions, targets, todo, alone>>

Answered(t) ==
    /\ pc[t] \in {"answered", "no version", "failed"}
    /\ Goto(t, "idle")
    /\ reply' = [reply EXCEPT ![t] = Empty]
    /\ alone' = [alone EXCEPT ![t] = FALSE]
    /\ UNCHANGED <<versions, targets, at, todo>>

Generating(t) ==
    \/ Call(t) \/ Clear(t) \/ Read(t) \/ Fill(t) \/ Filled(t)
    \/ SetTargets(t) \/ Encode(t) \/ Answered(t)

Next == OtherReload \/ \E t \in Threads : Generating(t)

Spec == Init /\ [][Next]_vars

-----------------------------------------------------------------------------
(* Properties *)

VersionsOf(b) == {v \in Versions : BranchOf[v] = b}

\* All of S and nothing else, each once, the newest first.
NewestFirst(s, S) ==
    /\ ToSet(s) = S
    /\ \A i, j \in DOMAIN s : i < j => Place(s[i]) < Place(s[j])

(* A call that overlaps no other, and no reload of the versions, answers     *)
(* each branch with its versions, newest first and each once, and with the   *)
(* targets of the newest, whatever overlapping calls have left behind; it    *)
(* finds no branch without versions but one that is not enabled.             *)
AloneComplete ==
    \A t \in Threads : alone[t] =>
        /\ pc[t] = "no version" => \E b \in BranchSet : VersionsOf(b) = {}
        /\ pc[t] = "answered" =>
               \A b \in BranchSet :
                   /\ NewestFirst(reply[t][b].versions, VersionsOf(b))
                   /\ reply[t][b].targets = Head(reply[t][b].versions)

Copies(b, v) == {i \in DOMAIN versions[b] : versions[b][i] = v}

(* However calls and reloads overlap, no list has a version more often than  *)
(* each thread's latest call can have met it: the lists that all of them     *)
(* append to do not grow for good.                                           *)
CopiesBounded ==
    \A b \in BranchSet : \A v \in Versions :
        Cardinality(Copies(b, v)) <= Cardinality(Threads) * Repeats
===============================================================================
