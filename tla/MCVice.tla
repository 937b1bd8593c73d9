------------------------------- MODULE MCVice -------------------------------
(***************************************************************************)
(* Instances of Vice for TLC.                                              *)
(***************************************************************************)
EXTENDS Vice

\* No operation has an entry in the priority table.
NoPriorities == [op \in Ops |-> DefaultPriority]

\* The names in their order.
Names == <<"BUS", "VBUS", "cpu1", "cpu2", "get", "send">>
NameOrder == [x \in CPUs \cup Buses \cup Ops |-> CHOOSE i \in DOMAIN Names : Names[i] = x]
=============================================================================
