----------------------------- MODULE MCStackEval -----------------------------
(***************************************************************************)
(* Instances of StackEval for TLC: programs whose statements are nested    *)
(* three deep, with every handler in every body and every body in a few    *)
(* surroundings.                                                           *)
(***************************************************************************)
EXTENDS CompiledStatements, Functions

None == [kind |-> "nil"]
n(i) == [kind |-> "num", val |-> i]
v    == [kind |-> "name"]
f    == [kind |-> "apply", oper |-> "f"]

Skip              == [stmt |-> "skip"]
ExitStmt(e)       == [stmt |-> "exit", expr |-> e]
ReturnStmt(e)     == [stmt |-> "return", expr |-> e]
Assign(e)         == [stmt |-> "assign", expr |-> e]
CallF             == [stmt |-> "call", expr |-> f]
Let(i, s)         == [stmt |-> "let", expr |-> n(i), body |-> s]
Block(s, t)       == [stmt |-> "block", first |-> s, second |-> t]
For(s)            == [stmt |-> "for", lb |-> n(1), ub |-> n(2), body |-> s]
Always(post, s)   == [stmt |-> "always", post |-> post, body |-> s]
TrapStmt(pb, post, s) == [stmt |-> "trap", match |-> pb, post |-> post, body |-> s]
Tixe(traps, s)    == [stmt |-> "tixe", traps |-> traps, body |-> s]
On(pb, post)      == [match |-> pb, post |-> post]

Atoms == <<Skip, ExitStmt(None), ExitStmt(n(1)), ExitStmt(v), ReturnStmt(v),
           Assign(v), CallF, Assign(f), ReturnStmt(f)>>

Handlers == <<ExitStmt(None), ExitStmt(n(2)), ReturnStmt(v), Assign(v), CallF>>

\* Op of every member of s, and of every pair of members of s and t.
Each(Op(_), s) == [i \in DOMAIN s |-> Op(s[i])]
Pairs(Op(_, _), s, t) ==
  [i \in 1..Len(s) * Len(t) |-> Op(s[((i - 1) \div Len(t)) + 1], t[((i - 1) % Len(t)) + 1])]

Nested ==
  Atoms
  \o Pairs(LAMBDA h, s : TrapStmt(AnyValue, h, s), Handlers, Atoms)
  \o Pairs(LAMBDA h, s : TrapStmt(InSet({1}), h, s), Handlers, Atoms)
  \o Pairs(LAMBDA h, s : TrapStmt(Literal(1), h, s), Handlers, Atoms)
  \o Pairs(LAMBDA h, s : Tixe(<<On(Literal(1), h), On(AnyValue, ExitStmt(n(1)))>>, s), Handlers, Atoms)
  \o Pairs(LAMBDA h, s : Tixe(<<On(Literal(1), ExitStmt(n(2))), On(AnyValue, h)>>, s), Handlers, Atoms)
  \o Pairs(Always, <<Skip, ExitStmt(n(2)), Assign(v)>>, Atoms)
  \o Each(LAMBDA s : Block(Assign(v), s), Atoms)
  \o Each(LAMBDA s : Let(2, s), Atoms)
  \o Each(For, Atoms)

Around(S) ==
  Each(LAMBDA s : TrapStmt(AnyValue, Assign(v), s), S)
  \o Each(LAMBDA s : TrapStmt(InSet({2}), ReturnStmt(v), s), S)
  \o Each(LAMBDA s : TrapStmt(AnyValue, s, ExitStmt(n(1))), S)
  \o Each(LAMBDA s : Tixe(<<On(Literal(2), ExitStmt(n(1))), On(InSet({0, 1}), Assign(v))>>, s), S)
  \o Each(LAMBDA s : Always(Assign(n(2)), s), S)
  \o Each(LAMBDA s : Always(s, ExitStmt(n(1))), S)
  \o Each(LAMBDA s : Let(1, s), S)
  \o Each(For, S)

\* Whether P holds of s or of a statement in it.
RECURSIVE Has(_, _)
Has(P(_), s) ==
  \/ P(s)
  \/ "body" \in DOMAIN s /\ Has(P, s.body)
  \/ "post" \in DOMAIN s /\ Has(P, s.post)
  \/ "first" \in DOMAIN s /\ (Has(P, s.first) \/ Has(P, s.second))
  \/ "traps" \in DOMAIN s /\ \E i \in DOMAIN s.traps : Has(P, s.traps[i].post)

Calls(s) == Has(LAMBDA t : "expr" \in DOMAIN t /\ t.expr = f, s)

\* An always statement whose first statement may end with a value.
Yielding(s) ==
  Has(LAMBDA t : t.stmt = "always" /\ Has(LAMBDA u : u.stmt \in {"return", "call"}, t.post), s)

Op(void, body) == [void |-> void, body |-> body]

Operations ==
  {Op(TRUE, Assign(v)), Op(FALSE, ReturnStmt(v)), Op(TRUE, For(ExitStmt(v))),
   Op(FALSE, TrapStmt(InSet({1}), ExitStmt(n(2)), Let(1, ExitStmt(v))))}

Program(s, op) == [main |-> Op(FALSE, Block(s, ReturnStmt(v))), f |-> op]

Statements == Nested \o Around(Nested)

With(S) ==
  {Program(s, op) : s \in {t \in S : Calls(t)}, op \in Operations}
    \cup {Program(s, Op(TRUE, Skip)) : s \in {t \in S : ~Calls(t)}}

AllPrograms == With(Range(Statements))
OrdinaryPrograms == With({s \in Range(Statements) : ~Yielding(s)})
=============================================================================
