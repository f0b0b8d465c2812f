------------------------------ MODULE VersionCache ------------------------------
(***************************************************************************)
(* app.versions, the list of supported versions that every web thread      *)
(* shares, and reload_versions (asu/util.py), which any of them may call   *)
(* at any time: validate_request when it misses a version, generate_latest *)
(* and generate_branches (asu/main.py) on each of their requests.          *)
(*                                                                         *)
(* The attribute app.versions refers to a list object, and reload_versions *)
(* reads the attribute again for each thing it does: it binds a new empty  *)
(* list, fills the list then bound and sorts the list then bound.  While   *)
(* list.sort calls its key function, which lets other threads run, the     *)
(* list is empty; a list found changed at the end of its sort is restored  *)
(* to what it was at the beginning, sorted, and the sort raises.           *)
(***************************************************************************)
EXTENDS Naturals, FiniteSets, SequencesExt

CONSTANTS
    Threads,      \* threads of the web server
    Versions,     \* versions of OpenWrt, as numbers in the order of the sort
    Supported,    \* the versions that are in_supported_branch
    First,        \* the versions upstream has published when the server starts
    NoVersion,    \* what is asked of a reload that serves no build request
    MaxReloads    \* bound of the model: reloads in a behaviour

ASSUME VersionCacheAssumption ==
    /\ Versions \subseteq Nat
    /\ Supported \subseteq Versions
    /\ First \in SUBSET Versions \ {{}} /\ IsFiniteSet(First)
    /\ NoVersion \notin Versions
    /\ MaxReloads \in Nat

VARIABLES
    published,    \* the versions in upstream's .versions.json
    lists,        \* the list objects, one per reload: items, and whether a sort is on
    bound,        \* the list object app.versions refers to
    reloads,      \* the list objects made so far
    pc,           \* each thread: where it is
    want,         \* the version it has been asked for
    file,         \* what it has still to add of the .versions.json it downloaded
    list, saved,  \* the list object it works on, and what its sort has set aside
    seen,         \* history: the versions in the file it downloaded, {} if it got none
    mixed         \* history: threads whose reload has overlapped another one

threadVars == <<pc, want, file, list, saved, seen>>
vars == <<published, lists, bound, reloads, threadVars, mixed>>

Objects  == 0..MaxReloads
ListType == [items : Seq(Versions), sorting : BOOLEAN]
Reload   == {"download", "reset", "bind", "look", "append", "sort", "recheck"}

TypeOK ==
    /\ published \in SUBSET Versions
    /\ lists \in [Objects -> ListType]
    /\ bound \in Objects /\ reloads \in Objects
    /\ pc \in [Threads -> Reload \cup {"idle", "refused", "error"}]
    /\ want \in [Threads -> Versions \cup {NoVersion}]
    /\ file \in [Threads -> Seq(Versions)]
    /\ list \in [Threads -> Objects]
    /\ saved \in [Threads -> ListType]
    /\ seen \in [Threads -> SUBSET Versions]
    /\ mixed \in SUBSET Threads

\* The items that come no later than the j-th when the newest come first.
Upto(s, j) == {i \in DOMAIN s : s[i] > s[j] \/ (s[i] = s[j] /\ i <= j)}
Sorted(s)  == [n \in DOMAIN s |-> s[CHOOSE j \in DOMAIN s : Cardinality(Upto(s, j)) = n]]

(* .versions.json: the upcoming version, then all of them.  <<>> stands for *)
(* a document without versions_list.                                        *)
FileOf(upcoming, S) == <<upcoming>> \o SetToSeq(S)

Empty == [items |-> <<>>, sorting |-> FALSE]

\* The reload that the server starts with may have been told anything but 200.
Init ==
    /\ published = First
    /\ \E items \in {<<>>, Sorted(SetToSeq(First \cap Supported))} :
           lists = [o \in Objects |-> IF o = 0 THEN [Empty EXCEPT !.items = items] ELSE Empty]
    /\ bound = 0
    /\ reloads = 0
    /\ pc = [t \in Threads |-> "idle"]
    /\ want = [t \in Threads |-> NoVersion]
    /\ file = [t \in Threads |-> <<>>]
    /\ list = [t \in Threads |-> 0]
    /\ saved = [t \in Threads |-> Empty]
    /\ seen = [t \in Threads |-> {}]
    /\ mixed = {}

Known(v) == v \in ToSet(lists[bound].items)

Goto(t, state) == pc' = [pc EXCEPT ![t] = state]

-----------------------------------------------------------------------------
(* Upstream releases a version. *)
Publish(v) ==
    /\ v \notin published
    /\ published' = published \cup {v}
    /\ UNCHANGED <<lists, bound, reloads, threadVars, mixed>>

(* A build request for a version that is not in app.versions, or, for        *)
(* NoVersion, a request for latest.json, branches.json or overview.json.     *)
Request(t, v) ==
    LET others == {u \in Threads \ {t} : pc[u] \in Reload}
    IN  /\ pc[t] = "idle"
        /\ ~Known(v)
        /\ reloads + Cardinality(others) < MaxReloads
        /\ Goto(t, "download")
        /\ want' = [want EXCEPT ![t] = v]
        /\ mixed' = IF others = {} THEN mixed ELSE mixed \cup others \cup {t}
        /\ UNCHANGED <<published, lists, bound, reloads, file, list, saved, seen>>

(* client_get and the parsing of its answer.  Anything but a 200 leaves       *)
(* app.versions alone, and so does a connection that fails or times out, a    *)
(* document that is no JSON or one without the three versions of app.latest,  *)
(* which raise.  A document that has these but no versions_list is found out  *)
(* later, when the list is filled.                                            *)
Download(t) ==
    /\ pc[t] = "download"
    /\ \/ /\ Goto(t, "recheck") \/ Goto(t, "error")
          /\ UNCHANGED <<file, seen>>
       \/ /\ Goto(t, "reset")
          /\ file' = [file EXCEPT ![t] = <<>>]
          /\ UNCHANGED seen
       \/ /\ Goto(t, "reset")
          /\ \E upcoming \in published :
                 file' = [file EXCEPT ![t] = FileOf(upcoming, published)]
          /\ seen' = [seen EXCEPT ![t] = published]
    /\ UNCHANGED <<published, lists, bound, reloads, want, list, saved, mixed>>

(* app.versions = [] *)
Reset(t) ==
    /\ pc[t] = "reset"
    /\ reloads < MaxReloads
    /\ reloads' = reloads + 1
    /\ bound' = reloads'
    /\ Goto(t, "bind")
    /\ UNCHANGED <<published, lists, want, file, list, saved, seen, mixed>>

(* add_versions(app.versions, ...): the list bound by now is the one filled, *)
(* or left as it is if versions_list, the next argument, is missing.         *)
Bind(t) ==
    /\ pc[t] = "bind"
    /\ list' = [list EXCEPT ![t] = bound]
    /\ Goto(t, IF file[t] = <<>> THEN "error" ELSE "look")
    /\ UNCHANGED <<published, lists, bound, reloads, want, file, saved, seen, mixed>>

Look(t) ==
    /\ pc[t] = "look" /\ file[t] # <<>>
    /\ IF \/ Head(file[t]) \in ToSet(lists[list[t]].items)
          \/ Head(file[t]) \notin Supported
       THEN file' = [file EXCEPT ![t] = Tail(@)] /\ UNCHANGED pc
       ELSE Goto(t, "append") /\ UNCHANGED file
    /\ UNCHANGED <<published, lists, bound, reloads, want, list, saved, seen, mixed>>

(* An append ends the sort that may be on: it is the change the sort detects. *)
AppendVersion(t) ==
    /\ pc[t] = "append"
    /\ lists' = [lists EXCEPT ![list[t]] =
                    [items |-> Append(@.items, Head(file[t])), sorting |-> FALSE]]
    /\ file' = [file EXCEPT ![t] = Tail(@)]
    /\ Goto(t, "look")
    /\ UNCHANGED <<published, bound, reloads, want, list, saved, seen, mixed>>

(* app.versions.sort(...): the list bound by now is emptied for the time of  *)
(* the sort.  An empty list is sorted without calling the key function.      *)
SortBegin(t) ==
    /\ pc[t] = "look" /\ file[t] = <<>>
    /\ IF lists[bound].items = <<>>
       THEN Goto(t, "recheck") /\ UNCHANGED <<lists, list, saved>>
       ELSE /\ Goto(t, "sort")
            /\ list' = [list EXCEPT ![t] = bound]
            /\ saved' = [saved EXCEPT ![t] = lists[bound]]
            /\ lists' = [lists EXCEPT ![bound] = [items |-> <<>>, sorting |-> TRUE]]
    /\ UNCHANGED <<published, bound, reloads, want, file, seen, mixed>>

\* Mutant of SortEnd: the items are put back as they were.
SortEndUnsorted(t) ==
    /\ pc[t] = "sort"
    /\ Goto(t, IF lists[list[t]].sorting THEN "recheck" ELSE "error")
    /\ lists' = [lists EXCEPT ![list[t]] = saved[t]]
    /\ UNCHANGED <<published, bound, reloads, want, file, list, saved, seen, mixed>>

\* Mutant of SortEnd: app.versions = app.versions.sort(...), which is None.
SortEndNone(t) ==
    /\ pc[t] = "sort"
    /\ Goto(t, IF lists[list[t]].sorting THEN "recheck" ELSE "error")
    /\ lists' = [lists EXCEPT ![list[t]] =
                    [saved[t] EXCEPT !.items = Sorted(@)]]
    /\ bound' = NoVersion
    /\ UNCHANGED <<published, reloads, want, file, list, saved, seen, mixed>>

(* The items that were set aside come back; a change meanwhile is lost, and *)
(* the handler fails with a ValueError.                                      *)
SortEnd(t) ==
    /\ pc[t] = "sort"
    /\ Goto(t, IF lists[list[t]].sorting THEN "recheck" ELSE "error")
    /\ lists' = [lists EXCEPT ![list[t]] =
                    [saved[t] EXCEPT !.items = Sorted(@)]]
    /\ UNCHANGED <<published, bound, reloads, want, file, list, saved, seen, mixed>>

\* A call ends, and its local variables with it.
Return(t) ==
    /\ Goto(t, "idle")
    /\ want' = [want EXCEPT ![t] = NoVersion]
    /\ list' = [list EXCEPT ![t] = 0]
    /\ saved' = [saved EXCEPT ![t] = Empty]
    /\ seen' = [seen EXCEPT ![t] = {}]
    /\ mixed' = mixed \ {t}

(* validate_request looks for the version again; the others go on. *)
Recheck(t) ==
    /\ pc[t] = "recheck"
    /\ IF want[t] = NoVersion \/ Known(want[t])
       THEN Return(t)
       ELSE Goto(t, "refused") /\ UNCHANGED <<want, list, saved, seen, mixed>>
    /\ UNCHANGED <<published, lists, bound, reloads, file>>

(* The 400 or 500 answer has been sent. *)
Answered(t) ==
    /\ pc[t] \in {"refused", "error"}
    /\ Return(t)
    /\ UNCHANGED <<published, lists, bound, reloads, file>>

Next ==
    \/ \E v \in Versions : Publish(v)
    \/ \E t \in Threads :
           \/ \E v \in Versions \cup {NoVersion} : Request(t, v)
           \/ Download(t) \/ Reset(t) \/ Bind(t) \/ Look(t) \/ AppendVersion(t)
           \/ SortBegin(t) \/ SortEnd(t) \/ Recheck(t) \/ Answered(t)

Spec == Init /\ [][Next]_vars

-----------------------------------------------------------------------------
(* Properties *)

\* All of S and nothing else, each once, the newest first.
NewestFirst(s, S) ==
    /\ ToSet(s) = S
    /\ \A i, j \in DOMAIN s : i < j => s[i] > s[j]

(* A reload that overlaps no other one and has downloaded the versions does  *)
(* not raise, and leaves app.versions complete, sorted and without           *)
(* duplicates, whatever earlier reloads have left there: those that did      *)
(* overlap, or that emptied the list and raised before they could fill it.   *)
(* That damage lasts until then, and no longer.                              *)
AloneRepairs ==
    \A t \in Threads \ mixed :
        seen[t] # {} =>
        /\ pc[t] # "error"
        /\ pc[t] = "recheck" =>
               NewestFirst(lists[bound].items, seen[t] \cap Supported)

(* The docstring of reload_versions: "no race conditions can exist".  A      *)
(* request is told that a version is unsupported only if the file that was   *)
(* downloaded for that request does not have it.                             *)
NoRaceConditions ==
    \A t \in Threads :
        pc[t] = "refused" /\ seen[t] # {} => want[t] \notin seen[t] \cap Supported
===============================================================================
