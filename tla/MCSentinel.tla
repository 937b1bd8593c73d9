------------------------------ MODULE MCSentinel ------------------------------
(***************************************************************************)
(* Instances of Sentinel for TLC.                                          *)
(***************************************************************************)
EXTENDS Sentinel

\* mutex(put, get); per get => #waiting(put) = 0 and the object state.
MutexBoth == {{"put", "get"}}
PutFirst == [o \in Ops |-> IF o = "get" THEN {"put"} ELSE {}]
=============================================================================
