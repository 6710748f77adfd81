-------------------------- MODULE MCKnowledgeIndex --------------------------
(***************************************************************************)
(* Instances of KnowledgeIndex.  Two pages: one may be known when the      *)
(* other is not.                                                           *)
(***************************************************************************)
EXTENDS KnowledgeIndex

CONSTANTS p1, p2

OnePage == {<<"kb", p1>>}
LegacyPage == {<<"jit", p2>>}
=============================================================================
