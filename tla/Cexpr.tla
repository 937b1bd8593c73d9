------------------------------- MODULE Cexpr -------------------------------
(***************************************************************************)
(* Instructions of the stack machine, the compilation of expressions to    *)
(* them and the code around a statement that sets a trap (StackCompiler,   *)
(* code/eval/cexpr.cc and cstmt.cc).                                       *)
(***************************************************************************)
EXTENDS Sem

Instr(op, arg) == <<[op |-> op, arg |-> arg]>>

Do(op) == Instr(op, 0)

-----------------------------------------------------------------------------
(* Expressions: a number, v, or the application of an operation to v.        *)

E2I(e) ==
  CASE e.kind = "num"   -> Instr("PUSH", Num(e.val))
    [] e.kind = "name"  -> Do("LOOKUP")
    [] e.kind = "apply" -> Do("LOOKUP") \o Instr("APPLY", e.oper)

-----------------------------------------------------------------------------
(* Exception handlers.  GetNewTrapNo numbers them; here the number is the    *)
(* path from the body of the operation to the statement, which is as unique. *)

AddTrap(body, handler, id) ==
  Instr("PUSHTH", id) \o body \o Do("POPTH") \o Instr("BR", Len(handler) + 2)
    \o Instr("HANDID", id) \o Do("POPTH") \o handler
=============================================================================
