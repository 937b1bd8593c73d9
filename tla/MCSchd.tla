------------------------------- MODULE MCSchd -------------------------------
(***************************************************************************)
(* Instances of Schd for TLC.                                              *)
(***************************************************************************)
EXTENDS Schd

\* mutex(put): the activations of put exclude each other; no predicate on get.
MutexOne == [o \in Ops |-> IF o = "put" THEN {"put"} ELSE {}]

\* mutex(put, get): CLASS::TransMutex makes an operation of a mutex exclude all of
\* them, itself included.
MutexTwo == [o \in Ops |-> Ops]

\* Priority files: every class entry is at least 1.
PriorityFiles == [Objs -> 1 .. 2]
=============================================================================
