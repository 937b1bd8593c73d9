------------------------------ MODULE MCCmdQueue ------------------------------
(***************************************************************************)
(* Instances of CmdQueue for TLC.                                          *)
(***************************************************************************)
EXTENDS CmdQueue
=============================================================================
