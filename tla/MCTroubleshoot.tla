--------------------------- MODULE MCTroubleshoot ----------------------------
(***************************************************************************)
(* Instances of Troubleshoot with two specialists: one that always runs,   *)
(* and the one that captures logs.  A probe finds two causes, or fails; the*)
(* model proposes one cause with a score out of range.                     *)
(***************************************************************************)
EXTENDS Troubleshoot

MCBranch == <<"connectivity", "log-intelligence">>
MCProbeResults ==
  {[evidence |-> 4, causes |-> <<75, 45>>]}
MCGuesses == {<<140>>}
MCRescores == {90}
=============================================================================
