--------------------------- MODULE MCFailureReport ---------------------------
(***************************************************************************)
(* FailureReport for TLC: one reader of one job, which is queued twice, and *)
(* two workers.                                                            *)
(***************************************************************************)
EXTENDS FailureReport, TLC

CONSTANTS r1, w1, w2

MCReaders == {r1}
MCWorkers == {w1, w2}

\* The workers are interchangeable in every action and property.
Symmetric == Permutations(MCWorkers)
===============================================================================
