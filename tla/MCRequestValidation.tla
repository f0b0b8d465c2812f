-------------------------- MODULE MCRequestValidation --------------------------
(***************************************************************************)
(* RequestValidation for TLC: two threads; x86, which has only "generic",  *)
(* and ath79, whose profile "wr" may or may not have the alias "tl" in a   *)
(* build.                                                                  *)
(***************************************************************************)
EXTENDS RequestValidation, TLC

CONSTANTS t1, t2

MCThreads == {t1, t2}
MCTargets == {"x86", "ath79"}
MCNames   == {"generic", "wr", "tl"}
MCMapsOf  ==
    [x86   |-> {[generic |-> "generic"]},
     ath79 |-> {[wr |-> "wr"], [wr |-> "wr", tl |-> "wr"]}]

\* The threads are interchangeable in every action and property.
Symmetric == Permutations(MCThreads)
===============================================================================
