-------------------------------- MODULE ErrorLog --------------------------------
(***************************************************************************)
(* The log of failed builds: class ErrorLog (asu/util.py), one Redis list  *)
(* that every worker writes and the statistics page reads.                 *)
(* log_build_error takes the time, pushes its entry to the head and trims  *)
(* the list, in three steps between which other workers do the same; an    *)
(* access that Redis refuses ends the handler, and the exception is        *)
(* swallowed.                                                              *)
(***************************************************************************)
EXTENDS Naturals, Sequences, SequencesExt, FiniteSets

CONSTANTS
    Workers,
    MaxEntries,   \* ErrorLog.MAX_ENTRIES
    MaxErrors     \* bound of the model: errors that are logged

ASSUME ErrorLogAssumption ==
    /\ IsFiniteSet(Workers)
    /\ MaxEntries \in Nat \ {0}
    /\ MaxErrors \in Nat

VARIABLES
    log,      \* the list, newest first
    clock,    \* the time, which the errors tell apart
    at,       \* each worker: the access it makes next
    entry,    \* the entry it is logging
    pushed,   \* history: every entry that was pushed, newest first
    untrimmed \* history: pushes since the last trim whose own trim will not come

logVars == <<log, clock, at, entry, pushed, untrimmed>>

(* An entry is known by its time. *)
Entries == 1..MaxErrors
None    == 0

LogTypeOK ==
    /\ log \in Seq(Entries)
    /\ clock \in 0..MaxErrors
    /\ at \in [Workers -> {"idle", "lpush", "ltrim"}]
    /\ entry \in [Workers -> Entries \cup {None}]
    /\ \A w \in Workers : at[w] # "idle" => entry[w] \in Entries
    /\ pushed \in Seq(Entries)
    /\ untrimmed \in Nat

LogInit ==
    /\ log = <<>>
    /\ clock = 0
    /\ at = [w \in Workers |-> "idle"]
    /\ entry = [w \in Workers |-> None]
    /\ pushed = <<>>
    /\ untrimmed = 0

-----------------------------------------------------------------------------
(* The entry and its time are made before Redis is asked. *)
LogError(w) ==
    /\ at[w] = "idle"
    /\ clock < MaxErrors
    /\ clock' = clock + 1
    /\ entry' = [entry EXCEPT ![w] = clock + 1]
    /\ at' = [at EXCEPT ![w] = "lpush"]
    /\ UNCHANGED <<log, pushed, untrimmed>>

Push(w) ==
    /\ at[w] = "lpush"
    /\ log' = <<entry[w]>> \o log
    /\ pushed' = <<entry[w]>> \o pushed
    /\ at' = [at EXCEPT ![w] = "ltrim"]
    /\ UNCHANGED <<clock, entry, untrimmed>>

(* log_build_error returns. *)
Done(w) ==
    /\ at' = [at EXCEPT ![w] = "idle"]
    /\ entry' = [entry EXCEPT ![w] = None]

\* Mutant of Ltrim: the last index is taken for a length.
LtrimShort(list, last) == IF last < Len(list) THEN SubSeq(list, 1, last) ELSE list

(* LTRIM 0 last keeps the elements up to that index, itself included. *)
Ltrim(list, last) == IF last + 1 < Len(list) THEN SubSeq(list, 1, last + 1) ELSE list

\* Mutant of Trim: the list is trimmed only when it has grown by one.
TrimIfOneOver(w) ==
    /\ at[w] = "ltrim"
    /\ log' = IF Len(log) = MaxEntries + 1 THEN Ltrim(log, MaxEntries - 1) ELSE log
    /\ Done(w)
    /\ untrimmed' = 0
    /\ UNCHANGED <<clock, pushed>>

Trim(w) ==
    /\ at[w] = "ltrim"
    /\ log' = Ltrim(log, MaxEntries - 1)
    /\ Done(w)
    /\ untrimmed' = 0
    /\ UNCHANGED <<clock, pushed>>

(* Redis refuses the access, or the worker dies before it. *)
Leave(w) ==
    /\ at[w] # "idle"
    /\ Done(w)
    /\ untrimmed' = IF at[w] = "ltrim" THEN untrimmed + 1 ELSE untrimmed
    /\ UNCHANGED <<log, clock, pushed>>

LogNext ==
    \E w \in Workers : LogError(w) \/ Push(w) \/ Trim(w) \/ Leave(w)

LogSpec == LogInit /\ [][LogNext]_logVars

-----------------------------------------------------------------------------
(* Properties *)

Trimming == {w \in Workers : at[w] = "ltrim"}

(* The list outgrows MAX_ENTRIES only by entries whose own trim is still to  *)
(* come or was refused: whoever trims cuts what the others have pushed too.  *)
LogBounded == Len(log) <= MaxEntries + Cardinality(Trimming) + untrimmed

(* However the pushes and trims of the workers fall, the list is the newest  *)
(* of the entries pushed, and a trim costs none of the newest MAX_ENTRIES.   *)
NewestKept ==
    /\ IsPrefix(log, pushed)
    /\ Len(log) < MaxEntries => log = pushed
===============================================================================
