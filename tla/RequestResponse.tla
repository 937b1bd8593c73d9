--------------------------- MODULE RequestResponse ---------------------------
(***************************************************************************)
(* What the API command queue promises its callers: a request is executed  *)
(* once, after it was made, and the call then returns the outcome of that  *)
(* very request, a result or an exception, to its caller.  After the       *)
(* request to quit nothing is executed.                                    *)
(***************************************************************************)
CONSTANTS
  Threads,          \* the callers
  Outcomes,         \* the outcomes a request of every caller may have
  QuitOutcomes,     \* the outcomes that ask the program to quit
  None              \* no outcome

VARIABLES
  call,             \* where the call of every caller is
  outcome,          \* the outcome of an executed request
  reply,            \* what a call that has returned gives its caller
  quit

vars == <<call, outcome, reply, quit>>

Init ==
  /\ call = [t \in Threads |-> "idle"]
  /\ outcome = [t \in Threads |-> None]
  /\ reply = [t \in Threads |-> None]
  /\ quit = FALSE

Request(t) ==
  /\ call[t] = "idle"
  /\ call' = [call EXCEPT ![t] = "requested"]
  /\ UNCHANGED <<outcome, reply, quit>>

Execute(t) ==
  /\ ~quit
  /\ call[t] = "requested"
  /\ call' = [call EXCEPT ![t] = "executed"]
  /\ \E o \in Outcomes[t] :
       /\ outcome' = [outcome EXCEPT ![t] = o]
       /\ quit' = (o \in QuitOutcomes)
  /\ UNCHANGED reply

Return(t) ==
  /\ call[t] = "executed"
  /\ call' = [call EXCEPT ![t] = "returned"]
  /\ reply' = [reply EXCEPT ![t] = outcome[t]]
  /\ outcome' = [outcome EXCEPT ![t] = None]
  /\ UNCHANGED quit

\* The caller has taken the reply.
GoOn(t) ==
  /\ call[t] = "returned"
  /\ call' = [call EXCEPT ![t] = "idle"]
  /\ reply' = [reply EXCEPT ![t] = None]
  /\ UNCHANGED <<outcome, quit>>

Next == \E t \in Threads : Request(t) \/ Execute(t) \/ Return(t) \/ GoOn(t)

Spec == Init /\ [][Next]_vars
=============================================================================
