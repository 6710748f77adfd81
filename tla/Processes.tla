------------------------------ MODULE Processes ------------------------------
(* The processes of the CLI: shells and single commands, which share the   *)
(* directory of the user's data and nothing else.                          *)
CONSTANTS Proc,
          None        \* nothing: undefined, or a missing file
=============================================================================
