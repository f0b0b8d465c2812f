----------------------------- MODULE MCImageBuild -----------------------------
(***************************************************************************)
(* ImageBuild for TLC: two builds with one bin_dir, either two attempts at *)
(* one request or the jobs of two requests for aliases of one profile.     *)
(***************************************************************************)
EXTENDS ImageBuild

CONSTANTS b1, b2, d1

MCBuilds == {b1, b2}
MCDirs   == {d1}
MCDirOf  == [b \in MCBuilds |-> d1]
===============================================================================
