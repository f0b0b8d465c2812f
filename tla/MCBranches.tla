------------------------------ MODULE MCBranches ------------------------------
(***************************************************************************)
(* Branches for TLC: two threads; two branches, one with a release.        *)
(***************************************************************************)
EXTENDS Branches, TLC

CONSTANTS t1, t2

MCThreads    == {t1, t2}
MCBranchSeq  == <<"SNAPSHOT", "24.10">>
MCVersionSeq == <<"SNAPSHOT", "24.10-SNAPSHOT", "24.10.0">>
MCBranchOf   ==
    [v \in {"SNAPSHOT", "24.10-SNAPSHOT", "24.10.0"} |->
        IF v = "SNAPSHOT" THEN "SNAPSHOT" ELSE "24.10"]

\* The threads are interchangeable in every action and property.
Symmetric == Permutations(MCThreads)
===============================================================================
