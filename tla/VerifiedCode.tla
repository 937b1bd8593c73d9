---------------------------- MODULE VerifiedCode ----------------------------
(***************************************************************************)
(* Code of operations that keeps to the discipline of the stacks, found    *)
(* the way a verifier of byte code finds it: by an abstract execution, one *)
(* operation at a time, of the instructions of StackEval.                  *)
(*                                                                         *)
(* A configuration is what is known of one operation before an             *)
(* instruction: the kinds of the items that it has pushed, the number of   *)
(* its block environments and its traps.  A certificate is a set of them   *)
(* that every instruction, and every exit to one of the traps, stays in.   *)
(***************************************************************************)
EXTENDS StackEval

\* The code that an operation, or the prompt, has a certificate for.
CONSTANT Certificate(_)

-----------------------------------------------------------------------------
(* Configurations.  Stacks are read from their bottom here.                  *)

Kinds == {"CONT", "EXIT", "TRUE", "FALSE", "OTHER", "ANY"}

\* What an item is when its kind is known.
IsOfKind(item, kind) ==
  CASE kind = "CONT"  -> IsCont(item)
    [] kind = "EXIT"  -> IsExit(item)
    [] kind = "TRUE"  -> item.tag = "BOOL" /\ item.v
    [] kind = "FALSE" -> item.tag = "BOOL" /\ ~item.v
    [] kind = "OTHER" -> ~IsCont(item) /\ ~IsExit(item)
    [] kind = "ANY"   -> TRUE

KindOf(item) ==
  CASE IsCont(item)        -> "CONT"
    [] IsExit(item)        -> "EXIT"
    [] item.tag = "BOOL"   -> IF item.v THEN "TRUE" ELSE "FALSE"
    [] OTHER               -> "OTHER"

\* st are the kinds of the items, en is the number of block environments, and tr
\* are the traps.  In the aftermath of an exit without a trap, items of other
\* operations may be among the ones of this operation.
Config(n, st, en, tr, aftermath) ==
  [pc |-> n, st |-> st, en |-> en, tr |-> tr, aftermath |-> aftermath]

\* The trap of handler id: the items and block environments that it keeps.
Setting(id, items, blocks) == [id |-> id, items |-> items, blocks |-> blocks]

HandlerIds(code) ==
  {code[i].arg : i \in {k \in DOMAIN code : code[k] = [op |-> "HANDID", arg |-> code[k].arg]}}

Configs(code) ==
  [pc : Int, st : Seq(Kinds), en : Nat,
   tr : Seq([id : HandlerIds(code), items : Nat, blocks : Nat]), aftermath : BOOLEAN]

Anys(n) == [i \in 1..n |-> "ANY"]

\* The item on top, and the ones that are left when n items are popped.
TopKind(c) == c.st[Len(c.st)]
Without(n, c) == SubSeq(c.st, 1, Len(c.st) - n)

\* An instruction leaves st and goes on n instructions behind itself.
Leaving(c, st, n) == Config(c.pc + 1 + n, st, c.en, c.tr, c.aftermath)

\* An instruction pops n items and pushes kinds.
Pushing(c, n, kinds) == Leaving(c, Without(n, c) \o kinds, 0)

WithBlocks(c, st, en, aftermath) == Config(c.pc + 1, st, en, c.tr, aftermath)

WithTraps(c, tr) == Config(c.pc + 1, c.st, c.en, tr, c.aftermath)

\* A test whether the item on top is of kind; it may fail for some of that kind
\* if it is not sure.
Tested(c, kind, sure) ==
  {Pushing(c, 1, <<kind, "TRUE">>) : t \in {TopKind(c)} \cap {kind, "ANY"}}
    \cup {Pushing(c, 0, <<"FALSE">>) : t \in {TopKind(c)} \ (IF sure THEN {kind} ELSE {})}

\* A jump by yes instructions if the item on top is TRUE, and by no if it is not.
Branches(c, yes, no) ==
  {Leaving(c, Without(1, c), yes) : t \in {TopKind(c)} \ {"FALSE"}}
    \cup {Leaving(c, Without(1, c), no) : t \in {TopKind(c)} \ {"TRUE"}}

\* A call that was made in c comes back: with a value, or an exit that met no
\* trap and left items of the operations that it ended.
Resumptions(c) ==
  LET Back(st, kind, aftermath) == Config(c.pc, Append(st, kind), c.en, c.tr, aftermath)
      others == Anys(Len(c.st))
      kinds  == {"CONT", "EXIT", "OTHER"}
  IN  {Back(c.st, kind, FALSE) : kind \in kinds}
        \cup IF c.tr # <<>> THEN {}
             ELSE {Back(others, kind, FALSE) : kind \in kinds} \cup {Back(others, "EXIT", TRUE)}

\* A call in c takes its argument from the stack.
Calling(c) == Config(c.pc + 1, Without(1, c), c.en, c.tr, FALSE)

-----------------------------------------------------------------------------
(* What instruction i does to c.                                             *)

After(i, c) ==
  LET top    == TopKind(c)
      second == c.st[Len(c.st) - 1]
  IN
  CASE i.op = "BR"           -> {Leaving(c, c.st, i.arg)}
    [] i.op = "CBR"          -> Branches(c, i.arg, 0)
    [] i.op = "CNBR"         -> Branches(c, 0, i.arg)
    [] i.op = "PUSH"         -> {Pushing(c, 0, <<KindOf(i.arg)>>)}
    [] i.op = "POP"          -> {Pushing(c, i.arg, <<>>)}
    [] i.op = "COPYVAL"      -> {Pushing(c, 0, <<top>>)}
    [] i.op = "REMSTACKELEM" -> {Leaving(c, Without(i.arg, c)
                                   \o SubSeq(c.st, Len(c.st) - i.arg + 2, Len(c.st)), 0)}
    [] i.op = "SWAP"         -> {Pushing(c, 2, <<top, second>>)}
    [] i.op = "INSET"        -> {Pushing(c, 2, <<"OTHER">>)}
    [] i.op = "ISCONT"       -> Tested(c, "CONT", TRUE)
    [] i.op = "ISEXIT"       -> Tested(c, "EXIT", TRUE)
    [] i.op = "ISNEEXIT"     -> Tested(c, "EXIT", FALSE)
    [] i.op = "MKEXIT"       -> {Pushing(c, IF i.arg THEN 0 ELSE 1, <<"EXIT">>)}
    [] i.op = "REMEXITVAL"   -> {Pushing(c, 0, <<"OTHER">>)}
    [] i.op = "TESTCOUNTER"  -> {Pushing(c, 0, <<"OTHER">>)}
    [] i.op = "INCRCOUNTER"  -> {Pushing(c, 2, <<"OTHER", top>>)}
    [] i.op = "LOOKUP"       -> {Pushing(c, 0, <<"ANY">>)}
    [] i.op = "TRYANYMATCH"  -> {Pushing(c, 2, <<"FALSE">>), Pushing(c, 2, <<"OTHER", "TRUE">>)}
    [] i.op = "EMPTYBLKENV"  -> {WithBlocks(c, c.st, c.en + 1, c.aftermath)}
    [] i.op = "POPBLKENV"    -> {WithBlocks(c, c.st, c.en - 1, c.aftermath)}
    [] i.op = "SELBLKENV"    -> {WithBlocks(c, c.st, c.en + 1, c.aftermath)}
    [] i.op = "APPENDBLKENV" -> {WithBlocks(c, Without(1, c), c.en, FALSE)}
    [] i.op = "ASSIGNSD"     -> {WithBlocks(c, Without(1, c) \o <<"CONT">>, c.en, FALSE)}
    [] i.op = "PUSHTH"       -> {WithTraps(c, Append(c.tr, Setting(i.arg, Len(c.st), c.en)))}
    [] i.op = "POPTH"        -> {WithTraps(c, SubSeq(c.tr, 1, Len(c.tr) - 1))}
    [] i.op = "APPLY"        -> Resumptions(Calling(c))
    [] OTHER                 -> {}

\* The items that an instruction reads or removes.
Operands(i) ==
  CASE i.op \in {"BR", "PUSH", "LOOKUP", "EMPTYBLKENV", "POPBLKENV",
                 "PUSHTH", "POPTH", "ERRINST"} -> 0
    [] i.op \in {"SWAP", "INSET", "TRYANYMATCH"} -> 2
    [] i.op = "MKEXIT"                -> IF i.arg THEN 0 ELSE 1
    [] i.op = "TESTCOUNTER"           -> 3
    [] i.op = "INCRCOUNTER"           -> 4
    [] i.op \in {"POP", "REMSTACKELEM"} -> i.arg
    [] OTHER                          -> 1

Instructions ==
  {"BR", "CBR", "CNBR", "PUSH", "POP", "COPYVAL", "REMSTACKELEM", "SWAP", "INSET",
   "ISCONT", "ISEXIT", "ISNEEXIT", "MKEXIT", "REMEXITVAL", "TESTCOUNTER", "INCRCOUNTER",
   "LOOKUP", "TRYANYMATCH", "EMPTYBLKENV", "POPBLKENV", "SELBLKENV", "APPENDBLKENV",
   "ASSIGNSD", "PUSHTH", "POPTH", "APPLY", "RETURN", "EXITVAL", "ERRINST"}

Operation == {"main", "f"}

\* The prompt has no caller to end with a value or an exit.
EndsWithValue(c) == Len(c.st) = 1 /\ c.tr = <<>> /\ (c.aftermath => TopKind(c) = "EXIT")

\* c may execute instruction i.  In the aftermath of an exit, that exit is all
\* that an operation may go on with.
Legal(prompt, i, c) ==
  /\ i.op \in Instructions
  /\ i.op \in {"POP", "REMSTACKELEM"} => i.arg \in Nat
  /\ i.op = "REMSTACKELEM" => i.arg > 0
  /\ Operands(i) <= Len(c.st)
  /\ i.op \in {"POPBLKENV", "APPENDBLKENV"} => c.en > 0
  /\ i.op \in {"APPENDBLKENV", "ASSIGNSD"} /\ c.aftermath => TopKind(c) = "EXIT"
  /\ i.op \in {"PUSHTH", "APPLY"} => ~c.aftermath
  /\ i.op = "POPTH" => c.tr # <<>>
  /\ i.op = "APPLY" => i.arg \in Operation
  /\ i.op = "RETURN" => ~prompt /\ EndsWithValue(c)
  /\ i.op = "EXITVAL" => ~prompt /\ TopKind(c) = "EXIT"

\* Every trap keeps what was there when it was set, and no more than a later one.
TrapsAreKept(c) ==
  /\ c.aftermath => c.tr = <<>>
  /\ \A i \in DOMAIN c.tr :
       /\ c.tr[i].items <= Len(c.st)
       /\ c.tr[i].blocks <= c.en
       /\ \A j \in DOMAIN c.tr : i < j => c.tr[i].items <= c.tr[j].items

\* Where an exit to the last trap of c goes on.
Trapped(code, c) ==
  {Config(HandlerOf(code, t.id), Append(SubSeq(c.st, 1, t.items), "EXIT"), t.blocks, c.tr, FALSE) :
     t \in {c.tr[i] : i \in DOMAIN c.tr \cap {Len(c.tr)}}}

\* A configuration of an operation that executes code or waits for a call in it.
WellFormed(S, code, c) == c \in Configs(code) /\ TrapsAreKept(c) /\ Trapped(code, c) \subseteq S

\* i is the instruction that comes next in c.
Step(S, prompt, code, c) ==
  LET i == code[c.pc + 1] IN
  /\ Legal(prompt, i, c)
  /\ After(i, c) \subseteq S
  /\ i.op = "APPLY" => WellFormed(S, code, Calling(c))
  /\ i.op = "EXITVAL" => TrapsAreKept(Leaving(c, Without(1, c), 0))

Start(prompt) == Config(0, <<>>, IF prompt THEN 0 ELSE 1, <<>>, FALSE)

\* S is a certificate for code.
Verified(S, prompt, code) ==
  /\ Start(prompt) \in S
  /\ \A c \in S :
       /\ WellFormed(S, code, c)
       /\ c.pc < Len(code) => Step(S, prompt, code, c)
       /\ prompt /\ c.pc = Len(code) => EndsWithValue(c) /\ c.en = 0

OperationCodes == {Compiled(p)[o] : p \in Programs, o \in Operation}
DebugCodes == {EvalPrintDebugAux(rterrexc) : rterrexc \in BOOLEAN}

ASSUME CodeIsVerified ==
  /\ \A code \in OperationCodes : Verified(Certificate(code), FALSE, code)
  /\ \A code \in DebugCodes : Verified(Certificate(code), TRUE, code)
=============================================================================
