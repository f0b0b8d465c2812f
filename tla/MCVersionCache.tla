---------------------------- MODULE MCVersionCache ----------------------------
(***************************************************************************)
(* VersionCache for TLC: two threads; versions 1 to 3 are supported and 0  *)
(* is not, and version 3 is released while the server runs.                *)
(***************************************************************************)
EXTENDS VersionCache, TLC

CONSTANTS t1, t2

MCThreads   == {t1, t2}
MCVersions  == {0, 1, 2, 3}
MCSupported == {1, 2, 3}
MCFirst     == {0, 1, 2}

\* The threads are interchangeable in every action and property.
Symmetric == Permutations(MCThreads)
===============================================================================
