----------------------------- MODULE RemoteCalls -----------------------------
(***************************************************************************)
(* What the CPUs and buses of the distributed interpreter promise the      *)
(* model that runs on them: an operation that is called on another node is *)
(* executed there once, a synchronous one is answered once and only after  *)
(* it was executed, and no call or answer is lost, made up or duplicated.  *)
(* The abstract specification that Vice implements.                        *)
(***************************************************************************)
EXTENDS Naturals

CONSTANT Nodes

VARIABLES
  used,      \* the number of ids given to calls and answers
  calls,     \* the calls that are under way: the id, the node and the stage
  awaited    \* the calls that a thread awaits the answer of

vars == <<used, calls, awaited>>

CallAt(i, n, s) == [id |-> i, node |-> n, stage |-> s]

Init ==
  /\ used = 0
  /\ calls = {}
  /\ awaited = {}

\* An operation is called on the nodes S; only a call to one node is awaited.
Call(S, wait) ==
  /\ used' = used + 1
  /\ wait => \E n \in Nodes : S = {n}
  /\ calls' = calls \cup {CallAt(used', n, "sent") : n \in S}
  /\ awaited' = IF wait THEN awaited \cup {used'} ELSE awaited

Start(c) ==
  /\ c.stage = "sent"
  /\ calls' = (calls \ {c}) \cup {CallAt(c.id, c.node, "running")}
  /\ UNCHANGED <<used, awaited>>

\* The execution ends, with an answer when one is awaited.
Return(c) ==
  /\ c.stage = "running"
  /\ \/ /\ c.id \in awaited
        /\ calls' = (calls \ {c}) \cup {CallAt(c.id, c.node, "answered")}
        /\ used' = used + 1
     \/ /\ c.id \notin awaited
        /\ calls' = calls \ {c}
        /\ UNCHANGED used
  /\ UNCHANGED awaited

\* The caller gets the answer and goes on.
Resume(c) ==
  /\ c.stage = "answered"
  /\ c.id \in awaited
  /\ calls' = calls \ {c}
  /\ awaited' = awaited \ {c.id}
  /\ UNCHANGED used

Next ==
  \/ \E S \in SUBSET Nodes, wait \in BOOLEAN : Call(S, wait)
  \/ \E c \in calls : Start(c) \/ Return(c) \/ Resume(c)

Spec == Init /\ [][Next]_vars
=============================================================================
