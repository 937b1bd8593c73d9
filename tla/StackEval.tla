------------------------------ MODULE StackEval ------------------------------
(***************************************************************************)
(* The stack machine that executes compiled statements, with its traps     *)
(* (code/eval/stackeval.cc, code/eval/instructions.cc): one thread, as the *)
(* debugger starts it to print the value of main(0).  Threads, permission  *)
(* predicates and history counters are in Schd.                            *)
(*                                                                         *)
(* A program has two operations, main and f, with one parameter v each;    *)
(* main may call f.  Every stack has its head first, as in the code.       *)
(***************************************************************************)
EXTENDS Cexpr

CONSTANTS
  Compiled(_), \* the code of a program's operations: [main |-> code, f |-> code]
  Programs,    \* records [main |-> op, f |-> op], an op being
               \* [void |-> whether it returns no value, body |-> a statement]
  MaxStack     \* bound: no instruction is executed with a longer evaluation stack

ASSUME ProgramsAssumption ==
  \A p \in Programs : {p.main.void, p.f.void} \subseteq BOOLEAN

ASSUME MaxStackAssumption == MaxStack \in Nat

VARIABLES
  program,       \* the program that is executed
  program_table, \* the code of its operations
  RTErrException, \* the setting that makes exits of run-time errors
  pc,            \* the instruction that was executed last
  eval_stack,
  call_stack,    \* the operations, each with the pc of its caller
  env_l,         \* the block environments of every operation
  trap_stack,
  state,         \* the state variable
  rterror,
  strayed        \* history: an exit was taken for a value

stacks == <<eval_stack, call_stack, env_l, trap_stack>>
programs == <<program, program_table, RTErrException>>
vars == <<programs, pc, stacks, state, rterror, strayed>>

-----------------------------------------------------------------------------
(* The program of the machine.                                               *)

DebugCmd == "debug"

\* With run-time errors as exits, every exit meets a trap.
EvalPrintDebugAux(rterrexc) ==
  LET instr == E2I([kind |-> "num", val |-> 0]) \o Instr("APPLY", "main")
  IN  IF rterrexc THEN AddTrap(instr, <<>>, DebugCmd) ELSE instr

ExtractInstr(code) ==
  IF code = DebugCmd THEN EvalPrintDebugAux(RTErrException) ELSE program_table[code]

curr_program == ExtractInstr(Head(call_stack).code)

Running == ~rterror /\ pc < Len(curr_program) /\ Len(eval_stack) <= MaxStack

Finished == ~rterror /\ Len(call_stack) = 1 /\ pc = Len(curr_program)

Frame(code, caller) == [code |-> code, pc |-> caller]

\* The environment of the prompt.
NoEnv == << <<>> >>

Init ==
  /\ program \in Programs
  /\ program_table = Compiled(program)
  /\ RTErrException \in BOOLEAN
  /\ pc = 0
  /\ eval_stack = <<>>
  /\ call_stack = <<Frame(DebugCmd, 0)>>
  /\ env_l = NoEnv
  /\ trap_stack = <<>>
  /\ state = Num(0)
  /\ rterror = FALSE
  /\ strayed = FALSE

Drop(n, s) == SubSeq(s, n + 1, Len(s))
Keep(n, s) == Drop(Len(s) - n, s)
Push(val, s) == <<val>> \o s

Item(n) == eval_stack[n]
Top == Item(1)

\* The instruction that comes next is op; arg is its argument.
Next_is(op) == Running /\ curr_program[pc + 1].op = op
arg == curr_program[pc + 1].arg

\* The instruction leaves stack and goes on n instructions behind itself.
Leaves(stack, n) ==
  /\ eval_stack' = stack
  /\ pc' = pc + 1 + n

OnlyStack == UNCHANGED <<programs, call_stack, env_l, trap_stack, state, rterror, strayed>>

\* The instruction pops n items and pushes val.
Yields(n, val) == Leaves(Push(val, Drop(n, eval_stack)), 0) /\ OnlyStack

-----------------------------------------------------------------------------
(* Jumps, values and tests.                                                  *)

ExeBranch ==
  /\ \/ Next_is("BR") /\ Leaves(eval_stack, arg)
     \/ Next_is("CBR") /\ Leaves(Drop(1, eval_stack), IF Top.v THEN arg ELSE 0)
     \/ Next_is("CNBR") /\ Leaves(Drop(1, eval_stack), IF Top.v THEN 0 ELSE arg)
  /\ OnlyStack

ExePushPop ==
  /\ \/ Next_is("PUSH") /\ Leaves(Push(arg, eval_stack), 0)
     \/ Next_is("POP") /\ Leaves(Drop(arg, eval_stack), 0)
  /\ OnlyStack

ExeCOPYVAL == Next_is("COPYVAL") /\ Yields(0, Top)

\* An item below the top is removed, or comes to the top.
ExeBelowTop ==
  /\ \/ /\ Next_is("REMSTACKELEM")
        /\ Leaves(SubSeq(eval_stack, 1, arg - 1) \o Drop(arg, eval_stack), 0)
     \/ /\ Next_is("SWAP")
        /\ Leaves(<<Item(2), Top>> \o Drop(2, eval_stack), 0)
  /\ OnlyStack

ExeINSET == Next_is("INSET") /\ Yields(2, Bool(Item(2).v \in Top.v))

\* The value of a statement is tested, made an exit, or taken out of one.
ExeStatementValue ==
  \/ Next_is("ISCONT") /\ Yields(0, Bool(IsCont(Top)))
  \/ Next_is("ISEXIT") /\ Yields(0, Bool(IsExit(Top)))
  \/ Next_is("ISNEEXIT") /\ Yields(0, Bool(IsNonEmptyExit(Top)))
  \/ Next_is("MKEXIT") /\ arg /\ Yields(0, Exit(Nil))
  \/ Next_is("MKEXIT") /\ ~arg /\ Yields(1, Exit(Top.v))
  \/ Next_is("REMEXITVAL") /\ Yields(0, Num(Top.v))

\* The counter of a loop is the second item, below the value of the statement.
ExeCounter ==
  \/ Next_is("TESTCOUNTER") /\ Yields(0, Bool(Item(2).v <= Item(3).v))
  \/ /\ Next_is("INCRCOUNTER")
     /\ Leaves([eval_stack EXCEPT ![2] = Num(@.v + Item(4).v)], 0)
     /\ OnlyStack

-----------------------------------------------------------------------------
(* Environments and the state.                                               *)

EmptyBlkEnv == [name \in {} |-> 0]
BlkEnv(val) == [name \in {"v"} |-> val]

\* The environments of the operation that is executed become blocks.
InEnv(blocks) == env_l' = Push(blocks, Tail(env_l))

OnlyEnv == UNCHANGED <<programs, call_stack, trap_stack, state, rterror>>

ExeEMPTYBLKENV ==
  /\ Next_is("EMPTYBLKENV")
  /\ InEnv(Push(EmptyBlkEnv, Head(env_l)))
  /\ Leaves(eval_stack, 0)
  /\ OnlyEnv /\ UNCHANGED strayed

ExePOPBLKENV ==
  /\ Next_is("POPBLKENV")
  /\ InEnv(Tail(Head(env_l)))
  /\ Leaves(eval_stack, 0)
  /\ OnlyEnv /\ UNCHANGED strayed

ExeAPPENDBLKENV ==
  /\ Next_is("APPENDBLKENV")
  /\ InEnv(Push(BlkEnv(Top), Tail(Head(env_l))))
  /\ Leaves(Drop(1, eval_stack), 0)
  /\ strayed' = (strayed \/ IsExit(Top))
  /\ OnlyEnv

\* The environment of a match: the item below stays, for POP to remove.
ExeSELBLKENV ==
  /\ Next_is("SELBLKENV")
  /\ InEnv(Push(Top.v, Head(env_l)))
  /\ Leaves(eval_stack, 0)
  /\ OnlyEnv /\ UNCHANGED strayed

\* A pattern on top, and the value that it is matched with.
ExeTRYANYMATCH ==
  /\ Next_is("TRYANYMATCH")
  /\ LET pb    == Top.v
         val   == Item(2)
         match == Value("ENVS", IF Binds(pb) THEN BlkEnv(val) ELSE EmptyBlkEnv)
         tried == Drop(2, eval_stack)
     IN  Leaves(IF pb.kind = "literal" /\ pb.val # val.v
                THEN Push(Bool(FALSE), tried)
                ELSE <<Bool(TRUE), match>> \o tried, 0)
  /\ OnlyStack

ExeLOOKUP ==
  /\ Next_is("LOOKUP")
  /\ LET bound == {i \in DOMAIN Head(env_l) : "v" \in DOMAIN Head(env_l)[i]}
         first == CHOOSE i \in bound : \A j \in bound : i <= j
     IN  Yields(0, Head(env_l)[first]["v"])

ExeASSIGNSD ==
  /\ Next_is("ASSIGNSD")
  /\ state' = Top
  /\ strayed' = (strayed \/ IsExit(Top))
  /\ Leaves(Push(Cont, Drop(1, eval_stack)), 0)
  /\ UNCHANGED <<programs, call_stack, env_l, trap_stack, rterror>>

-----------------------------------------------------------------------------
(* Traps: the handler and the lengths of the stacks when it was set.         *)

GetEnvLLengths ==
  IF env_l = <<>> THEN <<0, 0>> ELSE <<Len(env_l), Len(Head(env_l))>>

Trap(id) ==
  [handid |-> id, lenes |-> Len(eval_stack), lencs |-> Len(call_stack),
   lenenvl |-> GetEnvLLengths[1], lentopenvl |-> GetEnvLLengths[2]]

ExePUSHTH ==
  /\ Next_is("PUSHTH")
  /\ trap_stack' = Push(Trap(arg), trap_stack)
  /\ Leaves(eval_stack, 0)
  /\ UNCHANGED <<programs, call_stack, env_l, state, rterror, strayed>>

\* Mutant: the trap stays set.
ExePOPTH_staysSet ==
  /\ Next_is("POPTH")
  /\ Leaves(eval_stack, 0)
  /\ UNCHANGED <<programs, call_stack, env_l, trap_stack, state, rterror, strayed>>

ExePOPTH ==
  /\ Next_is("POPTH")
  /\ trap_stack' = Tail(trap_stack)
  /\ Leaves(eval_stack, 0)
  /\ UNCHANGED <<programs, call_stack, env_l, state, rterror, strayed>>

\* HANDID only marks the place of a handler: it begins behind it.
HandlerOf(code, id) == CHOOSE i \in DOMAIN code : code[i] = [op |-> "HANDID", arg |-> id]

\* Where the handler is in the code of the operation that set the trap.
FindTrapHandler(trap) ==
  HandlerOf(ExtractInstr(Keep(trap.lencs, call_stack)[1].code), trap.handid)

\* Mutant: the block environments that were made since the trap was set stay.
UpgradeENVL_allBlocks(trap) == Keep(trap.lenenvl, env_l)

\* The environments as they were when trap was set.
UpgradeENVL(trap) ==
  LET kept == Keep(trap.lenenvl, env_l)
  IN  Push(Keep(trap.lentopenvl, Head(kept)), Tail(kept))

\* Mutant: the items that were pushed since the trap was set stay.
HandleExit_allItems(item, stack) ==
  LET trap == Head(trap_stack) IN
  /\ pc' = FindTrapHandler(trap)
  /\ eval_stack' = Push(item, stack)
  /\ call_stack' = Keep(trap.lencs, call_stack)
  /\ env_l' = UpgradeENVL(trap)
  /\ UNCHANGED <<programs, trap_stack, state, rterror, strayed>>

\* The exit item goes to the trap on top.
HandleExit(item, stack) ==
  LET trap == Head(trap_stack) IN
  /\ pc' = FindTrapHandler(trap)
  /\ eval_stack' = Push(item, Keep(trap.lenes, stack))
  /\ call_stack' = Keep(trap.lencs, call_stack)
  /\ env_l' = UpgradeENVL(trap)
  /\ UNCHANGED <<programs, trap_stack, state, rterror, strayed>>

\* A run-time error ends the evaluation, or is an exit.
ThrowRuntimeErrorException(stack) ==
  IF RTErrException /\ trap_stack # <<>>
  THEN HandleExit(Exit(RuntimeError), stack)
  ELSE rterror' = TRUE /\ UNCHANGED <<programs, pc, stacks, state, strayed>>

ExeERRINST == Next_is("ERRINST") /\ ThrowRuntimeErrorException(eval_stack)

-----------------------------------------------------------------------------
(* Operations.                                                               *)

ExeAPPLY ==
  /\ Next_is("APPLY")
  /\ call_stack' = Push(Frame(arg, pc + 1), call_stack)
  /\ pc' = 0
  /\ env_l' = Push(<<BlkEnv(Top)>>, env_l)
  /\ eval_stack' = Drop(1, eval_stack)
  /\ UNCHANGED <<programs, trap_stack, state, rterror, strayed>>

\* The operation that is executed ends with the value on top of stack.
CleanExplOpApply(stack) ==
  LET res  == Head(stack)
      goOn == res.tag \in {"CONT", "RETURN"}
      void == program[Head(call_stack).code].void
  IN  IF ~IsExit(res) /\ goOn # void THEN ThrowRuntimeErrorException(stack)
      ELSE /\ eval_stack' = IF goOn THEN Push(Cont, Tail(stack)) ELSE stack
           /\ env_l' = Tail(env_l)
           /\ call_stack' = Tail(call_stack)
           /\ pc' = Head(call_stack).pc
           /\ UNCHANGED <<programs, trap_stack, state, rterror, strayed>>

ExeRETURN == Next_is("RETURN") /\ CleanExplOpApply(eval_stack)

\* An exit without a trap ends the operation.
GotoTrapHandler(item, stack) ==
  IF trap_stack # <<>> THEN HandleExit(item, stack)
  ELSE IF item = Exit(RuntimeError) THEN ThrowRuntimeErrorException(stack)
  ELSE CleanExplOpApply(Push(item, stack))

ExeEXITVAL == Next_is("EXITVAL") /\ GotoTrapHandler(Top, Drop(1, eval_stack))

-----------------------------------------------------------------------------
Next ==
  \/ ExeBranch \/ ExePushPop \/ ExeCOPYVAL \/ ExeBelowTop \/ ExeINSET
  \/ ExeStatementValue \/ ExeCounter
  \/ ExeEMPTYBLKENV \/ ExePOPBLKENV \/ ExeAPPENDBLKENV \/ ExeSELBLKENV
  \/ ExeTRYANYMATCH \/ ExeLOOKUP \/ ExeASSIGNSD
  \/ ExeAPPLY \/ ExeRETURN
  \/ ExePUSHTH \/ ExePOPTH \/ ExeEXITVAL \/ ExeERRINST

Spec == Init /\ [][Next]_vars

-----------------------------------------------------------------------------
(* Properties.                                                               *)

\* A trap can restore what it promises: its operation is still there and has its
\* handler, no stack is shorter than it was when the trap was set, and a trap
\* was set after the ones below it.
TrapsCanBeRestored ==
  \A i \in DOMAIN trap_stack :
    LET trap  == trap_stack[i]
        frame == Keep(trap.lencs, call_stack)[1]
        below == Keep(trap.lenenvl, env_l)[1]
    IN  /\ trap.lenes <= Len(eval_stack)
        /\ trap.lencs <= Len(call_stack)
        /\ trap.lenenvl = trap.lencs
        /\ trap.lentopenvl <= Len(below)
        /\ \E k \in DOMAIN ExtractInstr(frame.code) :
             ExtractInstr(frame.code)[k] = [op |-> "HANDID", arg |-> trap.handid]
        /\ \A j \in DOMAIN trap_stack : i < j =>
             /\ trap_stack[j].lencs <= trap.lencs
             /\ trap_stack[j].lenes <= trap.lenes

\* An evaluation that no exit ends leaves its value and nothing else on the
\* stacks, however many exits were trapped on the way.
NothingIsLeftBehind ==
  Finished /\ ~IsExit(Top) /\ ~strayed =>
    Len(eval_stack) = 1 /\ env_l = NoEnv /\ trap_stack = <<>>
=============================================================================
