----------------------------- MODULE MCBuildStats -----------------------------
(***************************************************************************)
(* BuildStats for TLC.                                                     *)
(***************************************************************************)
EXTENDS BuildStats, TLC

CONSTANTS t1, t2, w1, w2, a, b

MCThreads == {t1, t2}
MCWorkers == {w1, w2}
MCTwoIds  == {a, b}
MCOneId   == {a}

\* Threads, workers and ids are interchangeable in every action and property.
Symmetric == Permutations(MCThreads) \cup Permutations(MCWorkers)
                 \cup Permutations(MCTwoIds)
===============================================================================
