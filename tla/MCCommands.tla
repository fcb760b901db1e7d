----------------------------- MODULE MCCommands -----------------------------
(***************************************************************************)
(* All of the commands of main.c, one after another on the same outputs.   *)
(***************************************************************************)
EXTENDS Commands

AllCommands == CommandNames

=============================================================================
