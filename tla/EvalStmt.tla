------------------------------ MODULE EvalStmt ------------------------------
(***************************************************************************)
(* What statements mean: the evaluation of spec/eval-spec/eval_stmt.vdm    *)
(* and of the language manual (doc/lang-man/lang_man.tex:6575-6654), the   *)
(* reference that compiled statements are compared with.                   *)
(*                                                                         *)
(* The outcome of a statement is its value and the state variable after    *)
(* it.  Two values stop everything: Err and Diverges, a tixe statement     *)
(* whose handlers exit for ever.                                           *)
(***************************************************************************)
EXTENDS Sem

CONSTANT Error   \* what a run-time error yields: Err, or an exit

Diverges == Value("DIVERGES", 0)

Stops(val) == val.tag \in {"ERR", "DIVERGES"}

Outcome(val, x) == [val |-> val, x |-> x]

RECURSIVE Eval(_, _, _, _), EvalRecTrap(_, _, _, _, _)

\* The call of an operation with argument v: STATE`EvalCallStmt.
Call(p, oper, v, x) ==
  LET r == Eval(p, p[oper].body, v, x) IN
  CASE IsExit(r.val) \/ Stops(r.val) -> r
    [] r.val.tag \in {"CONT", "RETURN"} ->
         Outcome(IF p[oper].void THEN Cont ELSE Error, r.x)
    [] OTHER -> IF p[oper].void THEN Outcome(Error, r.x) ELSE r

EvalExpr(p, e, v, x) ==
  CASE e.kind = "num"   -> Outcome(Num(e.val), x)
    [] e.kind = "name"  -> Outcome(Num(v), x)
    [] e.kind = "apply" -> Call(p, e.oper, v, x)

\* An operation in the right hand side may end with an exit (EvalAssignStmt).
EvalAssign(p, e, v, x) ==
  LET r == EvalExpr(p, e, v, x) IN
  CASE IsExit(r.val) \/ Stops(r.val) -> r
    [] IsCont(r.val) -> Outcome(Error, r.x)
    [] OTHER -> Outcome(Cont, r.val.v)

\* The loop from n to ub; x after the statement's last turn.
RECURSIVE EvalFor(_, _, _, _, _)
EvalFor(p, body, n, ub, x) ==
  IF n > ub THEN Outcome(Cont, x)
  ELSE LET r == Eval(p, body, n, x) IN
       IF IsCont(r.val) THEN EvalFor(p, body, n + 1, ub, r.x) ELSE r

\* post is executed whatever body does; its exit is the result, or else what
\* body has yielded.
EvalAlways(p, s, v, x) ==
  LET b == Eval(p, s.body, v, x)
      r == Eval(p, s.post, v, b.x)
  IN  IF Stops(b.val) THEN b
      ELSE IF IsExit(r.val) \/ Stops(r.val) THEN r ELSE Outcome(b.val, r.x)

\* A handler in the environment of the match.
Handle(p, pb, post, n, v, x) == Eval(p, post, IF Binds(pb) THEN n ELSE v, x)

EvalTrap(p, s, v, x) ==
  LET b == Eval(p, s.body, v, x) IN
  IF IsNonEmptyExit(b.val) /\ Matches(s.match, b.val.v)
  THEN Handle(p, s.match, s.post, b.val.v, v, b.x) ELSE b

\* The first trap that matches, again and again; seen are the exits before.
EvalRecTrap(p, traps, out, v, seen) ==
  LET matching == {i \in DOMAIN traps : Matches(traps[i].match, out.val.v)}
      first    == CHOOSE i \in matching : \A j \in matching : i <= j
  IN  CASE ~IsNonEmptyExit(out.val) -> out
        [] IsNonEmptyExit(out.val) /\ matching = {} -> out
        [] out \in seen -> Outcome(Diverges, out.x)
        [] OTHER -> EvalRecTrap(p, traps,
                      Handle(p, traps[first].match, traps[first].post, out.val.v, v, out.x),
                      v, seen \cup {out})

Eval(p, s, v, x) ==
  CASE s.stmt = "skip"   -> Outcome(Cont, x)
    [] s.stmt = "exit"   -> IF s.expr.kind = "nil" THEN Outcome(Exit(Nil), x)
                            ELSE Outcome(Exit(EvalExpr(p, s.expr, v, x).val.v), x)
    [] s.stmt = "return" -> IF s.expr.kind = "nil" THEN Outcome(Return, x)
                            ELSE EvalExpr(p, s.expr, v, x)
    [] s.stmt = "assign" -> EvalAssign(p, s.expr, v, x)
    [] s.stmt = "call"   -> EvalExpr(p, s.expr, v, x)
    [] s.stmt = "let"    -> LET r == EvalExpr(p, s.expr, v, x)
                            IN  Eval(p, s.body, r.val.v, r.x)
    [] s.stmt = "block"  -> LET r == Eval(p, s.first, v, x)
                            IN  IF IsCont(r.val) THEN Eval(p, s.second, v, r.x) ELSE r
    [] s.stmt = "for"    -> EvalFor(p, s.body, s.lb.val, s.ub.val, x)
    [] s.stmt = "always" -> EvalAlways(p, s, v, x)
    [] s.stmt = "trap"   -> EvalTrap(p, s, v, x)
    [] s.stmt = "tixe"   -> EvalRecTrap(p, s.traps, Eval(p, s.body, v, x), v, {})
=============================================================================
