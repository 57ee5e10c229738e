----------------------------- MODULE MCJobArray -----------------------------
(* Instances of JobArray for TLC: a flat set, one launch attempt a member. *)
EXTENDS JobArray

FlatDeps == <<{}, {}, {}>>
FlatAttempts == <<1, 1, 1>>
=============================================================================
