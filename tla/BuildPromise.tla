----------------------------- MODULE BuildPromise -----------------------------
(***************************************************************************)
(* What the server promises about one request hash, whatever the queue,    *)
(* the workers and the web threads do: a hash is asked for, its image is   *)
(* built once or its build fails, the answer is served until it expires,   *)
(* and only then may the hash be asked for again.                          *)
(*                                                                         *)
(* The promise is made to a hash until two POSTs for it overlap: from then *)
(* on it is "raced" and nothing more is said about it.                     *)
(***************************************************************************)
CONSTANT Ids            \* the request hashes

VARIABLE image          \* what a client that polls a hash is entitled to

ImageStates == {"none", "pending", "built", "failed", "raced"}

PromiseTypeOK == image \in [Ids -> ImageStates]

Init == image = [id \in Ids |-> "none"]

Move(id, from, to) ==
    /\ image[id] \in from
    /\ image' = [image EXCEPT ![id] = to]

Ask(id)    == Move(id, {"none"}, "pending")
Build(id)  == Move(id, {"pending"}, "built")
Fail(id)   == Move(id, {"pending"}, "failed")
Forget(id) == Move(id, {"built", "failed"}, "none")
Race(id)   == Move(id, {"none"}, "raced")

Next == \E id \in Ids :
            Ask(id) \/ Build(id) \/ Fail(id) \/ Forget(id) \/ Race(id)

(* A pending image is eventually built or given up. *)
Fairness == \A id \in Ids : WF_image(Build(id) \/ Fail(id))

SafeSpec == Init /\ [][Next]_image
Spec     == SafeSpec /\ Fairness
===============================================================================
