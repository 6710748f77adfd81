----------------------------- MODULE MCJobStore -----------------------------
(***************************************************************************)
(* Instances of JobStore: two jobs are added to a list that keeps one, and *)
(* the first of them is updated.                                           *)
(***************************************************************************)
EXTENDS JobStore

CONSTANTS a1, a2, u1, j1, j2

MCJobOf == [c \in Call |-> IF c = a2 THEN j2 ELSE j1]
=============================================================================
