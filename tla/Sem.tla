-------------------------------- MODULE Sem --------------------------------
(***************************************************************************)
(* The semantic values that statements yield (SEM`VAL) and the patterns    *)
(* that exception handlers are selected by.  Numbers stand for all values. *)
(***************************************************************************)
EXTENDS Integers, Sequences

Value(tag, v) == [tag |-> tag, v |-> v]

Nil       == -1                       \* the value of an exit without a value
RuntimeError == -2                    \* the value of an exit of a run-time error
Num(n)    == Value("NUM", n)
Bool(b)   == Value("BOOL", b)
Exit(n)   == Value("EXIT", n)
Cont      == Value("CONT", 0)         \* a statement that goes on to the next one
Return    == Value("RETURN", 0)       \* return without a value
Err       == Value("ERR", 0)          \* a run-time error

IsExit(val) == val.tag = "EXIT"
IsCont(val) == val.tag = "CONT"
IsNonEmptyExit(val) == IsExit(val) /\ val.v # Nil

\* Pattern binds: the name v, v in set S, and a literal, which binds nothing.
AnyValue   == [kind |-> "name"]
InSet(S)   == [kind |-> "set", set |-> S]
Literal(n) == [kind |-> "literal", val |-> n]

Matches(pb, n) ==
  CASE pb.kind = "name"    -> TRUE
    [] pb.kind = "set"     -> n \in pb.set
    [] pb.kind = "literal" -> n = pb.val

Binds(pb) == pb.kind # "literal"
=============================================================================
