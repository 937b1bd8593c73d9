----------------------------- MODULE MCToolThread -----------------------------
(***************************************************************************)
(* Instances of ToolThread for TLC.                                        *)
(***************************************************************************)
EXTENDS ToolThread
=============================================================================
