------------------------------- MODULE Cstmt -------------------------------
(***************************************************************************)
(* The compilation of statements to instructions of the stack machine      *)
(* (StackCompiler, code/eval/cstmt.cc).                                    *)
(*                                                                         *)
(* Every identifier is v (a parameter, a let, a loop variable or a name in *)
(* a pattern) or the state variable that assignments assign.  Left out:    *)
(* positions and comments (CONTEXT), which no other instruction reads      *)
(* here, VERIFYINDEXARGS, the types of let, declarations of blocks, and    *)
(* permission predicates (GUARD), which Schd models.                       *)
(***************************************************************************)
EXTENDS Cexpr

ConcIfThenElse(cond, then, else) ==
  CASE then = <<>> -> cond \o Instr("CBR", Len(else)) \o else
    [] then # <<>> /\ else = <<>> -> cond \o Instr("CNBR", Len(then)) \o then
    [] OTHER -> cond \o Instr("CBR", Len(else) + 1) \o else
                     \o Instr("BR", Len(then)) \o then

CombWhileLoopWithCond(cond, body) ==
  Instr("BR", Len(body)) \o body \o cond
    \o Instr("CBR", -Len(body) - Len(cond) - 1)

-----------------------------------------------------------------------------
(* Exception handlers.                                                       *)

\* Tests whether the value of the exit on top of the stack matches.
PatternTest(pb) ==
  LET match == IF pb.kind = "set"
               THEN Do("COPYVAL") \o Instr("PUSH", Value("PATTERN", pb)) \o Do("SWAP")
                      \o Instr("PUSH", Value("SET", pb.set)) \o Do("INSET")
               ELSE Instr("PUSH", Value("PATTERN", pb)) \o Instr("PUSH", Bool(TRUE))
  IN  ConcIfThenElse(Do("REMEXITVAL") \o match,
                     Do("TRYANYMATCH"),
                     Instr("POP", 2) \o Instr("PUSH", Bool(FALSE)))

\* Executes the handler in the environment that the match has left.
InMatch(post) ==
  Do("SELBLKENV") \o Instr("POP", 2) \o post \o Do("POPBLKENV")

TrapHandler(pb, post) ==
  ConcIfThenElse(Do("ISNEEXIT"),
                 ConcIfThenElse(PatternTest(pb), InMatch(post), Do("EXITVAL")),
                 Do("EXITVAL"))

\* The traps in their order; none matches: the exit goes on.
RECURSIVE RecTrapHandler(_)
RecTrapHandler(traps) ==
  IF traps = <<>> THEN Do("POPTH") \o Do("EXITVAL")
  ELSE ConcIfThenElse(PatternTest(Head(traps).match), InMatch(Head(traps).post),
                      RecTrapHandler(Tail(traps)))

RecTrap(body, traps, id) ==
  LET loop == ConcIfThenElse(Do("ISNEEXIT"), RecTrapHandler(traps),
                             Do("POPTH") \o Do("EXITVAL"))
  IN  Instr("PUSHTH", id) \o body \o Instr("BR", Len(loop) + 1)
        \o Instr("HANDID", id) \o loop \o Do("POPTH")

-----------------------------------------------------------------------------
(* Statements.                                                               *)

CompileExitStmt(e) ==
  (IF e.kind = "nil" THEN Instr("MKEXIT", TRUE) ELSE E2I(e) \o Instr("MKEXIT", FALSE))
    \o Do("EXITVAL")

CompileReturnStmt(e) == IF e.kind = "nil" THEN Instr("PUSH", Return) ELSE E2I(e)

CompileAssignStmt(e) ==
  E2I(e) \o ConcIfThenElse(Do("ISCONT"), Do("ERRINST"), Do("ASSIGNSD"))

CompileAlwaysStmt(body, post, id) ==
  AddTrap(body, <<>>, id) \o post
    \o ConcIfThenElse(Do("ISCONT"), Instr("POP", 1), <<>>)
    \o ConcIfThenElse(Do("ISEXIT"), Do("EXITVAL"), <<>>)

CompileLetStmt(e, in) ==
  Do("EMPTYBLKENV") \o E2I(e) \o Do("APPENDBLKENV") \o in \o Do("POPBLKENV")

\* Both statements of a block with two statements.
CompileBlockStmt(first, second) ==
  Do("EMPTYBLKENV")
    \o ConcIfThenElse(first \o Do("ISCONT"), Instr("POP", 1) \o second, <<>>)
    \o Do("POPBLKENV")

CompileIndexForLoopStmt(lb, ub, body) ==
  LET prepare == Instr("PUSH", Num(1)) \o E2I(ub) \o E2I(lb) \o Instr("PUSH", Cont)
      loop    == Instr("POP", 1) \o Do("EMPTYBLKENV") \o Do("COPYVAL") \o Do("APPENDBLKENV")
                   \o body \o Do("POPBLKENV") \o Do("INCRCOUNTER")
      cond    == ConcIfThenElse(Do("ISCONT"), Do("TESTCOUNTER"), Instr("PUSH", Bool(FALSE)))
      cleanUp == Instr("REMSTACKELEM", 2) \o Instr("REMSTACKELEM", 2) \o Instr("REMSTACKELEM", 2)
  IN  prepare \o CombWhileLoopWithCond(cond, loop) \o cleanUp

RECURSIVE S2I(_, _)
S2I(s, id) ==
  LET Sub(sub, i) == S2I(sub, Append(id, i)) IN
  CASE s.stmt = "skip"   -> Instr("PUSH", Cont)
    [] s.stmt = "exit"   -> CompileExitStmt(s.expr)
    [] s.stmt = "return" -> CompileReturnStmt(s.expr)
    [] s.stmt = "assign" -> CompileAssignStmt(s.expr)
    [] s.stmt = "call"   -> E2I(s.expr)
    [] s.stmt = "let"    -> CompileLetStmt(s.expr, Sub(s.body, 1))
    [] s.stmt = "block"  -> CompileBlockStmt(Sub(s.first, 1), Sub(s.second, 2))
    [] s.stmt = "for"    -> CompileIndexForLoopStmt(s.lb, s.ub, Sub(s.body, 1))
    [] s.stmt = "always" -> CompileAlwaysStmt(Sub(s.body, 1), Sub(s.post, 2), id)
    [] s.stmt = "trap"   -> AddTrap(Sub(s.body, 1), TrapHandler(s.match, Sub(s.post, 2)), id)
    [] s.stmt = "tixe"   ->
         RecTrap(Sub(s.body, 1),
                 [i \in DOMAIN s.traps |-> [match |-> s.traps[i].match,
                                            post  |-> Sub(s.traps[i].post, i + 1)]], id)

\* The code of an operation.
OpCode(body) == S2I(body, <<>>) \o Do("RETURN")
=============================================================================
