------------------------- MODULE CompiledStatements -------------------------
(***************************************************************************)
(* Compiled statements on the stack machine, compared with what the        *)
(* statements mean.                                                        *)
(***************************************************************************)
EXTENDS StackEval, Cstmt

CompiledProgram(p) == [main |-> OpCode(p.main.body), f |-> OpCode(p.f.body)]

Semantics ==
  INSTANCE EvalStmt WITH Error <- IF RTErrException THEN Exit(RuntimeError) ELSE Err

Meant == Semantics!Call(program, "main", 0, 0)

\* Compiled statements do what they mean: main ends with the value, and the
\* state variable, that the evaluation of the statements gives, with a run-time
\* error when it gives one, and never when handlers exit for ever.  Programs are
\* exempt that take an exit for a value, which they cannot do while run-time
\* errors are exits: an exit that meets no trap ends only the operation, and an
\* assignment of its result goes on.
ResultIsThatOfTheSemantics ==
  /\ Finished /\ ~strayed => Meant = Semantics!Outcome(Top, state.v)
  /\ rterror /\ ~strayed => Meant.val = Err
  /\ RTErrException => ~strayed /\ ~rterror
=============================================================================
