--------------------------- MODULE MCJobLifecycle ---------------------------
(***************************************************************************)
(* Instances of JobLifecycle: jobs and cancel commands are model values,   *)
(* interchangeable among themselves.                                       *)
(***************************************************************************)
EXTENDS JobLifecycle, TLC

Symmetric == Permutations(Job) \cup Permutations(Cancel)
=============================================================================
