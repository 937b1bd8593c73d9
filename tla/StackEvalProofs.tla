--------------------------- MODULE StackEvalProofs ---------------------------
(***************************************************************************)
(* Theorems about the stack machine, for any programs whose code has a     *)
(* certificate: every operation finds on the stacks what its code counts   *)
(* on, so that traps can be restored and no evaluation leaves anything     *)
(* behind.                                                                 *)
(***************************************************************************)
EXTENDS VerifiedCode, TLAPS

-----------------------------------------------------------------------------
(* Stacks.  The items of one need no type.                                   *)

Elements(s) == {s[i] : i \in DOMAIN s}

IsStack(s) == s \in Seq(Elements(s))

\* The item at height d.
At(s, d) == s[Len(s) + 1 - d]

\* A sequence of members of any set is a stack.
LEMMA SequencesAreStacks ==
  ASSUME NEW T, NEW s \in Seq(T)
  PROVE  IsStack(s)
BY DEF IsStack, Elements

\* What comes on top leaves the items below where they are.
LEMMA PushedStack ==
  ASSUME NEW s, IsStack(s), NEW val
  PROVE  /\ IsStack(Push(val, s))
         /\ Len(Push(val, s)) = Len(s) + 1
         /\ Push(val, s)[1] = val
         /\ Head(Push(val, s)) = val
         /\ Tail(Push(val, s)) = s
         /\ At(Push(val, s), Len(s) + 1) = val
         /\ \A d \in 1..Len(s) : At(Push(val, s), d) = At(s, d)
<1> DEFINE T == Elements(s) \cup {val}
<1>1. s \in Seq(Elements(s)) /\ s \in Seq(T) /\ <<val>> \in Seq(T)
  BY DEF IsStack
<1> HIDE DEF T
<1>2. /\ Push(val, s) \in Seq(T)
      /\ Len(Push(val, s)) = Len(s) + 1
      /\ Push(val, s)[1] = val
      /\ \A i \in 1..Len(s) : Push(val, s)[i + 1] = s[i]
  BY <1>1 DEF Push
<1>3. IsStack(Push(val, s))
  BY <1>2, SequencesAreStacks
<1>4. Head(Push(val, s)) = val /\ Tail(Push(val, s)) = s
  BY <1>1 DEF Push
<1>5. /\ At(Push(val, s), Len(s) + 1) = val
      /\ \A d \in 1..Len(s) : At(Push(val, s), d) = At(s, d)
  BY <1>1, <1>2 DEF At
<1>6. QED  BY <1>2, <1>3, <1>4, <1>5

\* What is dropped or kept, from the top.
LEMMA DroppedStack ==
  ASSUME NEW s, IsStack(s), NEW n \in Nat, n <= Len(s)
  PROVE  /\ IsStack(Drop(n, s))
         /\ Len(Drop(n, s)) = Len(s) - n
         /\ \A d \in 1..Len(s) - n : At(Drop(n, s), d) = At(s, d)
<1> DEFINE T == Elements(s)
<1>1. s \in Seq(T)
  BY DEF IsStack
<1> HIDE DEF T
<1>2. /\ Drop(n, s) \in Seq(T)
      /\ Len(Drop(n, s)) = Len(s) - n
      /\ \A i \in 1..Len(s) - n : Drop(n, s)[i] = s[n + i]
  BY <1>1 DEF Drop
<1>3. \A d \in 1..Len(s) - n : At(Drop(n, s), d) = At(s, d)
  BY <1>1, <1>2 DEF At
<1>4. QED  BY <1>2, <1>3, SequencesAreStacks

LEMMA KeptStack ==
  ASSUME NEW s, IsStack(s), NEW n \in Nat, n <= Len(s)
  PROVE  /\ IsStack(Keep(n, s))
         /\ Len(Keep(n, s)) = n
         /\ \A d \in 1..n : At(Keep(n, s), d) = At(s, d)
         /\ n > 0 => /\ Keep(n, s)[1] = At(s, n)
                     /\ Head(Keep(n, s)) = At(s, n)
<1>1. Len(s) \in Nat
  BY DEF IsStack
<1>2. Len(s) - n \in Nat /\ Len(s) - n <= Len(s) /\ Len(s) - (Len(s) - n) = n
  BY <1>1
<1>3. /\ IsStack(Keep(n, s))
      /\ Len(Keep(n, s)) = n
      /\ \A d \in 1..n : At(Keep(n, s), d) = At(s, d)
  BY <1>2, DroppedStack DEF Keep
<1>4. n > 0 => Keep(n, s)[1] = At(s, n)
  BY <1>3 DEF At
<1>5. Keep(n, s) \in Seq(Elements(Keep(n, s)))
  BY <1>3 DEF IsStack
<1>6. n > 0 => Head(Keep(n, s)) = Keep(n, s)[1]
  BY <1>3, <1>5
<1>7. QED  BY <1>3, <1>4, <1>6

\* The top and what is below it.
LEMMA TopOfStack ==
  ASSUME NEW s, IsStack(s), s # <<>>
  PROVE  /\ Len(s) \in Nat \ {0}
         /\ Head(s) = At(s, Len(s)) /\ s[1] = At(s, Len(s))
         /\ Tail(s) = Drop(1, s)
<1>1. s \in Seq(Elements(s))
  BY DEF IsStack
<1>2. Len(s) \in Nat \ {0} /\ Head(s) = s[1]
  BY <1>1
<1>3. Tail(s) = Drop(1, s)
  BY <1>1, <1>2 DEF Drop
<1>4. QED  BY <1>2, <1>3 DEF At

-----------------------------------------------------------------------------
(* The items of an operation: stack s holds items of the kinds st above the  *)
(* height b, and no others.                                                  *)

HasItems(s, b, st) ==
  /\ IsStack(s)
  /\ Len(s) = b + Len(st)
  /\ \A j \in 1..Len(st) : IsOfKind(At(s, b + j), st[j])

\* s and t have the same items up to the height b.
SameUpTo(b, s, t) == \A d \in 1..b : At(s, d) = At(t, d)

LEMMA PushedItem ==
  ASSUME NEW s, NEW b \in Nat, NEW st \in Seq(Kinds), HasItems(s, b, st),
         NEW val, NEW kind \in Kinds, IsOfKind(val, kind)
  PROVE  /\ HasItems(Push(val, s), b, Append(st, kind))
         /\ Append(st, kind) \in Seq(Kinds)
         /\ SameUpTo(b, Push(val, s), s)
<1> DEFINE st2 == Append(st, kind)
<1>1. IsStack(s) /\ Len(s) = b + Len(st) /\ Len(st) \in Nat
  BY DEF HasItems
<1>2. /\ st2 \in Seq(Kinds) /\ Len(st2) = Len(st) + 1
      /\ st2[Len(st) + 1] = kind
      /\ \A j \in 1..Len(st) : st2[j] = st[j]
  OBVIOUS
<1> HIDE DEF st2
<1>3. /\ IsStack(Push(val, s))
      /\ Len(Push(val, s)) = b + Len(st) + 1
      /\ At(Push(val, s), b + Len(st) + 1) = val
      /\ \A d \in 1..b + Len(st) : At(Push(val, s), d) = At(s, d)
  BY <1>1, PushedStack
<1>4. ASSUME NEW j \in 1..Len(st2)
      PROVE  IsOfKind(At(Push(val, s), b + j), st2[j])
  <2>1. CASE j = Len(st) + 1
    BY <2>1, <1>1, <1>2, <1>3
  <2>2. CASE j \in 1..Len(st)
    <3>1. b + j \in 1..b + Len(st)
      BY <2>2, <1>1
    <3>2. IsOfKind(At(s, b + j), st[j])
      BY <2>2 DEF HasItems
    <3>3. QED  BY <3>1, <3>2, <2>2, <1>2, <1>3
  <2>3. QED  BY <2>1, <2>2, <1>1, <1>2
<1>5. HasItems(Push(val, s), b, st2)
  BY <1>1, <1>2, <1>3, <1>4 DEF HasItems
<1>6. SameUpTo(b, Push(val, s), s)
  BY <1>1, <1>3 DEF SameUpTo
<1>7. QED  BY <1>2, <1>5, <1>6 DEF st2

LEMMA DroppedItems ==
  ASSUME NEW s, NEW b \in Nat, NEW st \in Seq(Kinds), HasItems(s, b, st),
         NEW n \in Nat, n <= Len(st)
  PROVE  /\ HasItems(Drop(n, s), b, SubSeq(st, 1, Len(st) - n))
         /\ SubSeq(st, 1, Len(st) - n) \in Seq(Kinds)
         /\ SameUpTo(b, Drop(n, s), s)
<1> DEFINE st2 == SubSeq(st, 1, Len(st) - n)
<1>1. IsStack(s) /\ Len(s) = b + Len(st) /\ Len(st) \in Nat
  BY DEF HasItems
<1>2. /\ st2 \in Seq(Kinds) /\ Len(st2) = Len(st) - n
      /\ \A j \in 1..Len(st) - n : st2[j] = st[j]
  OBVIOUS
<1> HIDE DEF st2
<1>3. /\ IsStack(Drop(n, s))
      /\ Len(Drop(n, s)) = b + Len(st) - n
      /\ \A d \in 1..b + Len(st) - n : At(Drop(n, s), d) = At(s, d)
  BY <1>1, DroppedStack
<1>4. ASSUME NEW j \in 1..Len(st2)
      PROVE  IsOfKind(At(Drop(n, s), b + j), st2[j])
  <2>1. b + j \in 1..b + Len(st) - n /\ j \in 1..Len(st) /\ st2[j] = st[j]
    BY <1>1, <1>2
  <2>2. IsOfKind(At(s, b + j), st[j])
    BY <2>1 DEF HasItems
  <2>3. QED  BY <2>1, <2>2, <1>3
<1>5. HasItems(Drop(n, s), b, st2)
  BY <1>1, <1>2, <1>3, <1>4 DEF HasItems
<1>6. SameUpTo(b, Drop(n, s), s)
  BY <1>1, <1>3 DEF SameUpTo
<1>7. QED  BY <1>2, <1>5, <1>6 DEF st2

\* The item on top, and the one below it.
LEMMA TopItem ==
  ASSUME NEW s, NEW b \in Nat, NEW st \in Seq(Kinds), HasItems(s, b, st), Len(st) > 0
  PROVE  /\ s # <<>> /\ Len(s) \in Nat \ {0} /\ Head(s) = s[1]
         /\ IsOfKind(s[1], st[Len(st)]) /\ st[Len(st)] \in Kinds
         /\ Len(st) > 1 => IsOfKind(s[2], st[Len(st) - 1]) /\ st[Len(st) - 1] \in Kinds
<1>1. IsStack(s) /\ Len(s) = b + Len(st) /\ Len(st) \in Nat \ {0}
  BY DEF HasItems
<1>2. s # <<>> /\ Len(s) \in Nat \ {0}
  BY <1>1
<1>3. s[1] = At(s, b + Len(st)) /\ (Len(st) > 1 => s[2] = At(s, b + (Len(st) - 1)))
  BY <1>1 DEF At
<1>4. Head(s) = s[1]
  BY <1>1, <1>2, TopOfStack
<1>5. /\ IsOfKind(At(s, b + Len(st)), st[Len(st)])
      /\ Len(st) > 1 => IsOfKind(At(s, b + (Len(st) - 1)), st[Len(st) - 1])
  BY <1>1 DEF HasItems
<1>6. st[Len(st)] \in Kinds /\ (Len(st) > 1 => st[Len(st) - 1] \in Kinds)
  BY <1>1
<1>7. QED  BY <1>2, <1>3, <1>4, <1>5, <1>6

\* Where the members of two sequences are in both of them together.
LEMMA Concatenation ==
  ASSUME NEW T, NEW s \in Seq(T), NEW t \in Seq(T)
  PROVE  /\ s \o t \in Seq(T)
         /\ Len(s \o t) = Len(s) + Len(t)
         /\ \A i \in 1..Len(s) : (s \o t)[i] = s[i]
         /\ \A i \in 1..Len(t) : (s \o t)[Len(s) + i] = t[i]
<1>1. s \o t \in Seq(T) /\ Len(s \o t) = Len(s) + Len(t)
  OBVIOUS
<1>2. \A i \in 1..Len(s) : (s \o t)[i] = s[i]
  OBVIOUS
<1>3. \A i \in 1..Len(t) : (s \o t)[Len(s) + i] = t[i]
  OBVIOUS
<1>4. QED  BY <1>1, <1>2, <1>3

\* An item in the middle is removed.
LEMMA RemovedItem ==
  ASSUME NEW s, NEW b \in Nat, NEW st \in Seq(Kinds), HasItems(s, b, st),
         NEW n \in Nat \ {0}, n <= Len(st)
  PROVE  LET rest == SubSeq(st, 1, Len(st) - n) \o SubSeq(st, Len(st) - n + 2, Len(st))
             t    == SubSeq(s, 1, n - 1) \o Drop(n, s)
         IN  HasItems(t, b, rest) /\ rest \in Seq(Kinds) /\ SameUpTo(b, t, s)
<1> DEFINE st1 == SubSeq(st, 1, Len(st) - n)
           st2 == SubSeq(st, Len(st) - n + 2, Len(st))
           rest == st1 \o st2
           t1 == SubSeq(s, 1, n - 1)
           t2 == Drop(n, s)
           t == t1 \o t2
           T == Elements(s)
<1>1. /\ IsStack(s) /\ s \in Seq(T) /\ Len(s) = b + Len(st) /\ Len(st) \in Nat
  BY DEF HasItems, IsStack
<1> HIDE DEF T
<1>2. /\ st1 \in Seq(Kinds) /\ Len(st1) = Len(st) - n
      /\ \A j \in 1..Len(st) - n : st1[j] = st[j]
  BY <1>1
<1>3. /\ st2 \in Seq(Kinds) /\ Len(st2) = n - 1
      /\ \A j \in 1..n - 1 : st2[j] = st[Len(st) - n + 1 + j]
  BY <1>1
<1> HIDE DEF st1, st2
<1>4. /\ rest \in Seq(Kinds) /\ Len(rest) = Len(st) - 1
      /\ \A j \in 1..Len(st) - n : rest[j] = st[j]
      /\ \A j \in (Len(st) - n + 1)..(Len(st) - 1) : rest[j] = st[j + 1]
  <2>1. /\ rest \in Seq(Kinds) /\ Len(rest) = Len(st) - 1
        /\ \A j \in 1..Len(st) - n : rest[j] = st[j]
        /\ \A j \in 1..n - 1 : rest[Len(st) - n + j] = st2[j]
    <3>1. /\ rest \in Seq(Kinds) /\ Len(rest) = Len(st1) + Len(st2)
          /\ \A j \in 1..Len(st1) : rest[j] = st1[j]
          /\ \A j \in 1..Len(st2) : rest[Len(st1) + j] = st2[j]
      <4>1. st1 \in Seq(Kinds) /\ st2 \in Seq(Kinds)
        BY <1>2, <1>3
      <4>2. QED  BY <4>1, Concatenation
    <3> HIDE DEF rest
    <3>2. QED  BY <3>1, <1>1, <1>2, <1>3
  <2>2. ASSUME NEW j \in (Len(st) - n + 1)..(Len(st) - 1)
        PROVE  rest[j] = st[j + 1]
    <3>1. j - (Len(st) - n) \in 1..n - 1 /\ j \in 1..Len(st) - 1 /\ j > Len(st) - n
      BY <1>1
    <3>2. Len(st) - n + (j - (Len(st) - n)) = j
      BY <1>1
    <3>3. rest[j] = st2[j - (Len(st) - n)]
      BY <3>1, <3>2, <2>1
    <3>4. st2[j - (Len(st) - n)] = st[Len(st) - n + 1 + (j - (Len(st) - n))]
      BY <3>1, <1>3
    <3>5. Len(st) - n + 1 + (j - (Len(st) - n)) = j + 1
      BY <1>1
    <3>6. QED  BY <3>3, <3>4, <3>5
  <2>3. QED  BY <2>1, <2>2
<1>5. /\ t1 \in Seq(T) /\ Len(t1) = n - 1
      /\ \A i \in 1..n - 1 : t1[i] = s[i]
  BY <1>1
<1>6. /\ t2 \in Seq(T) /\ Len(t2) = Len(s) - n
      /\ \A i \in 1..Len(s) - n : t2[i] = s[n + i]
  BY <1>1 DEF Drop
<1> HIDE DEF t1, t2, rest
<1>7. /\ t \in Seq(T) /\ Len(t) = Len(s) - 1
      /\ \A i \in 1..n - 1 : t[i] = s[i]
      /\ \A i \in n..(Len(s) - 1) : t[i] = s[i + 1]
  <2>1. /\ t \in Seq(T) /\ Len(t) = Len(s) - 1
        /\ \A i \in 1..n - 1 : t[i] = s[i]
        /\ \A i \in 1..Len(s) - n : t[n - 1 + i] = t2[i]
    <3>1. /\ t \in Seq(T) /\ Len(t) = Len(t1) + Len(t2)
          /\ \A i \in 1..Len(t1) : t[i] = t1[i]
          /\ \A i \in 1..Len(t2) : t[Len(t1) + i] = t2[i]
      <4>1. t1 \in Seq(T) /\ t2 \in Seq(T)
        BY <1>5, <1>6
      <4>2. QED  BY <4>1, Concatenation
    <3> HIDE DEF t
    <3>2. QED  BY <3>1, <1>1, <1>5, <1>6
  <2>2. ASSUME NEW i \in n..(Len(s) - 1)
        PROVE  t[i] = s[i + 1]
    <3>1. i - (n - 1) \in 1..Len(s) - n /\ i > n - 1 /\ i \in 1..Len(s) - 1
      BY <1>1
    <3>2. t[i] = t2[i - (n - 1)]
      <4>1. n - 1 + (i - (n - 1)) = i
        BY <3>1
      <4>2. QED  BY <3>1, <4>1, <2>1
    <3>3. t2[i - (n - 1)] = s[n + (i - (n - 1))]
      BY <3>1, <1>6
    <3>4. n + (i - (n - 1)) = i + 1
      BY <3>1
    <3>5. QED  BY <3>2, <3>3, <3>4
  <2>3. QED  BY <2>1, <2>2
<1> HIDE DEF t
<1>8. IsStack(t)
  BY <1>7, SequencesAreStacks
<1>9. /\ \A d \in 1..Len(s) - n : At(t, d) = At(s, d)
      /\ \A d \in (Len(s) - n + 1)..(Len(s) - 1) : At(t, d) = At(s, d + 1)
  <2>1. ASSUME NEW d \in 1..Len(s) - n
        PROVE  At(t, d) = At(s, d)
    <3>1. At(t, d) = t[Len(s) - d] /\ Len(s) - d \in n..(Len(s) - 1)
      BY <1>1, <1>7 DEF At
    <3>2. t[Len(s) - d] = s[Len(s) - d + 1]
      BY <3>1, <1>7
    <3>3. Len(s) - d + 1 = Len(s) + 1 - d
      BY <1>1
    <3>4. QED  BY <3>1, <3>2, <3>3 DEF At
  <2>2. ASSUME NEW d \in (Len(s) - n + 1)..(Len(s) - 1)
        PROVE  At(t, d) = At(s, d + 1)
    <3>1. At(t, d) = t[Len(s) - d] /\ Len(s) - d \in 1..n - 1
      BY <1>1, <1>7 DEF At
    <3>2. t[Len(s) - d] = s[Len(s) - d] /\ Len(s) - d = Len(s) + 1 - (d + 1)
      BY <3>1, <1>1, <1>7
    <3>3. QED  BY <3>1, <3>2 DEF At
  <2>3. QED  BY <2>1, <2>2
<1>10. ASSUME NEW j \in 1..Len(rest)
       PROVE  IsOfKind(At(t, b + j), rest[j])
  <2>1. CASE j \in 1..Len(st) - n
    <3>1. At(t, b + j) = At(s, b + j) /\ rest[j] = st[j] /\ j \in 1..Len(st)
      BY <2>1, <1>1, <1>4, <1>9
    <3>2. QED  BY <3>1 DEF HasItems
  <2>2. CASE j \in (Len(st) - n + 1)..(Len(st) - 1)
    <3>1. rest[j] = st[j + 1] /\ j + 1 \in 1..Len(st)
      BY <2>2, <1>1, <1>4
    <3>2. b + j \in (Len(s) - n + 1)..(Len(s) - 1)
      BY <2>2, <1>1
    <3>3. At(t, b + j) = At(s, b + j + 1)
      BY <3>2, <1>9
    <3>4. b + (j + 1) = b + j + 1
      BY <3>1
    <3>5. QED  BY <3>1, <3>3, <3>4 DEF HasItems
  <2>3. QED  BY <2>1, <2>2, <1>4, <1>1
<1>11. Len(t) = b + Len(rest)
  BY <1>1, <1>4, <1>7
<1>12. SameUpTo(b, t, s)
  BY <1>1, <1>9 DEF SameUpTo
<1>13. QED  BY <1>4, <1>8, <1>10, <1>11, <1>12 DEF HasItems, rest, t, st1, st2, t1, t2

-----------------------------------------------------------------------------
(* The inductive invariant: configurations C of the operations, from the     *)
(* first one that was called, which have B[d] items and K[d] traps of other  *)
(* operations below their own.                                               *)

Depth == Len(call_stack)
CodeAt(d) == ExtractInstr(At(call_stack, d).code)

\* Every operation is in one of its configurations, or waits in one for a call.
OperationsFit(C) ==
  /\ IsStack(call_stack) /\ Depth > 0
  /\ \A d \in 1..Depth :
       /\ At(call_stack, d).code \in IF d = 1 THEN {DebugCmd} ELSE Operation
       /\ WellFormed(Certificate(CodeAt(d)), CodeAt(d), C[d])
  /\ \A d \in 1..Depth - 1 :
       /\ Resumptions(C[d]) \subseteq Certificate(CodeAt(d))
       /\ At(call_stack, d + 1).pc = C[d].pc
  /\ C[Depth] \in Certificate(CodeAt(Depth))
  /\ C[Depth].pc = pc

ItemsFit(C, B) ==
  /\ IsStack(eval_stack)
  /\ \A d \in 1..Depth : \A j \in 1..Len(C[d].st) :
       IsOfKind(At(eval_stack, B[d] + j), C[d].st[j])
  /\ \A d, e \in 1..Depth : d < e => B[d] + Len(C[d].st) <= B[e]
  /\ Len(eval_stack) = B[Depth] + Len(C[Depth].st)

EnvironmentsFit(C) ==
  /\ IsStack(env_l) /\ Len(env_l) = Depth
  /\ \A d \in 1..Depth : IsStack(At(env_l, d)) /\ Len(At(env_l, d)) = C[d].en

\* The trap that t is in an operation at height d.
TrapAt(t, d, items) ==
  [handid |-> t.id, lenes |-> items + t.items, lencs |-> d,
   lenenvl |-> d, lentopenvl |-> t.blocks]

TrapsFit(C, B, K) ==
  /\ IsStack(trap_stack)
  /\ Len(trap_stack) = K[Depth] + Len(C[Depth].tr)
  /\ K[1] = 0
  /\ \A d \in 1..Depth - 1 : K[d + 1] = K[d] + Len(C[d].tr)
  /\ \A d, e \in 1..Depth : d < e => K[d] + Len(C[d].tr) <= K[e]
  /\ \A d \in 1..Depth : \A j \in 1..Len(C[d].tr) :
       At(trap_stack, K[d] + j) = TrapAt(C[d].tr[j], d, B[d])
  /\ \A i \in 1..Len(trap_stack) :
       \E d \in 1..Depth : K[d] < i /\ i <= K[d] + Len(C[d].tr)

\* The operations have all items between them.
Tight(C, B) ==
  B[1] = 0 /\ \A d \in 1..Depth - 1 : B[d + 1] = B[d] + Len(C[d].st)

\* Items that an exit without a trap has left behind lie below operations that no
\* trap is below.
LeftBehind(C, B, K) ==
  /\ \A d \in 1..Depth - 1 : B[d + 1] = B[d] + Len(C[d].st) \/ K[d + 1] = 0
  /\ C[Depth].aftermath => K[Depth] = 0
  /\ strayed \/ C[Depth].aftermath \/ Tight(C, B)

ProgramFits ==
  /\ program \in Programs /\ program_table = Compiled(program)
  /\ RTErrException \in BOOLEAN

Fits(C, B, K) ==
  /\ B \in [Nat -> Nat] /\ K \in [Nat -> Nat] /\ DOMAIN C = Nat
  /\ OperationsFit(C) /\ ItemsFit(C, B) /\ EnvironmentsFit(C)
  /\ TrapsFit(C, B, K) /\ LeftBehind(C, B, K)

StacksFit == ProgramFits /\ \E C, B, K : Fits(C, B, K)

LEMMA FitTypes ==
  ASSUME NEW C, NEW B, NEW K, Fits(C, B, K)
  PROVE  /\ Depth \in Nat \ {0}
         /\ B \in [Nat -> Nat] /\ K \in [Nat -> Nat] /\ DOMAIN C = Nat
         /\ \A d \in 1..Depth :
              /\ d \in Nat /\ B[d] \in Nat /\ K[d] \in Nat
              /\ C[d].st \in Seq(Kinds) /\ Len(C[d].st) \in Nat
              /\ Len(C[d].tr) \in Nat /\ C[d].en \in Nat
         /\ Len(eval_stack) \in Nat /\ Len(trap_stack) \in Nat
<1>1. Depth \in Nat \ {0}
  <2>1. call_stack \in Seq(Elements(call_stack)) /\ Depth > 0
    BY DEF Fits, OperationsFit, IsStack
  <2>2. Len(call_stack) \in Nat
    BY <2>1
  <2>3. QED  BY <2>1, <2>2 DEF Depth
<1>2. B \in [Nat -> Nat] /\ K \in [Nat -> Nat] /\ DOMAIN C = Nat
  BY DEF Fits
<1>3. ASSUME NEW d \in 1..Depth
      PROVE  /\ d \in Nat /\ B[d] \in Nat /\ K[d] \in Nat
             /\ C[d].st \in Seq(Kinds) /\ Len(C[d].st) \in Nat
             /\ Len(C[d].tr) \in Nat /\ C[d].en \in Nat
  <2>1. C[d] \in Configs(CodeAt(d))
    BY DEF Fits, OperationsFit, WellFormed
  <2>2. /\ C[d].st \in Seq(Kinds) /\ C[d].en \in Nat
        /\ C[d].tr \in Seq([id : HandlerIds(CodeAt(d)), items : Nat, blocks : Nat])
    BY <2>1 DEF Configs
  <2>3. d \in Nat
    BY <1>1
  <2>4. B[d] \in Nat /\ K[d] \in Nat
    BY <1>2, <2>3
  <2>5. QED  BY <2>2, <2>3, <2>4
<1>4. Len(eval_stack) \in Nat /\ Len(trap_stack) \in Nat
  <2>1. /\ eval_stack \in Seq(Elements(eval_stack))
        /\ trap_stack \in Seq(Elements(trap_stack))
    BY DEF Fits, ItemsFit, TrapsFit, IsStack
  <2>2. QED  BY <2>1
<1>5. QED  BY <1>1, <1>2, <1>3, <1>4

\* After a step the operations below m, and what they have on the stacks, are as
\* they were, and the one at height m has configuration c and its first item
\* above the height b.
OperationsAfter(m, c) ==
  /\ UNCHANGED programs
  /\ IsStack(call_stack') /\ Len(call_stack') = m /\ SameUpTo(m, call_stack', call_stack)
  /\ c \in Certificate(CodeAt(m)) /\ WellFormed(Certificate(CodeAt(m)), CodeAt(m), c)
  /\ pc' = c.pc

EnvironmentsAfter(m, c) ==
  /\ IsStack(env_l') /\ Len(env_l') = m /\ SameUpTo(m - 1, env_l', env_l)
  /\ IsStack(At(env_l', m)) /\ Len(At(env_l', m)) = c.en

ItemsAfter(B, m, c, b) ==
  /\ b \in Nat /\ B[m] <= b
  /\ HasItems(eval_stack', b, c.st) /\ SameUpTo(B[m], eval_stack', eval_stack)

TrapsAfter(K, m, c, b) ==
  /\ IsStack(trap_stack') /\ Len(trap_stack') = K[m] + Len(c.tr)
  /\ SameUpTo(K[m], trap_stack', trap_stack)
  /\ \A j \in 1..Len(c.tr) : At(trap_stack', K[m] + j) = TrapAt(c.tr[j], m, b)

LeftBehindAfter(C, B, K, m, c, b) ==
  /\ b = B[m] \/ K[m] = 0
  /\ c.aftermath => K[m] = 0
  /\ \/ strayed' \/ c.aftermath
     \/ b = B[m] /\ B[1] = 0 /\ \A d \in 1..m - 1 : B[d + 1] = B[d] + Len(C[d].st)

LEMMA FitsAgain ==
  ASSUME NEW C, NEW B, NEW K, Fits(C, B, K),
         NEW m \in 1..Depth, NEW c, NEW b,
         OperationsAfter(m, c), EnvironmentsAfter(m, c), ItemsAfter(B, m, c, b),
         TrapsAfter(K, m, c, b), LeftBehindAfter(C, B, K, m, c, b)
  PROVE  (\E C2, B2, K2 : Fits(C2, B2, K2))'
<1> DEFINE C2 == [C EXCEPT ![m] = c]
           B2 == [B EXCEPT ![m] = b]
<1>1. /\ Depth \in Nat \ {0}
      /\ \A d \in 1..Depth :
           /\ d \in Nat /\ B[d] \in Nat /\ K[d] \in Nat
           /\ Len(C[d].st) \in Nat /\ Len(C[d].tr) \in Nat
      /\ Len(trap_stack) \in Nat
  BY FitTypes
<1>2. Depth \in Nat /\ m \in Nat /\ m > 0 /\ m <= Depth
  BY <1>1
<1>3. /\ DOMAIN C2 = Nat /\ C2[m] = c
      /\ \A d \in Nat : d # m => C2[d] = C[d]
  BY <1>2 DEF Fits
<1>4. b \in Nat /\ B[m] <= b
  BY DEF ItemsAfter
<1>5. /\ B2 \in [Nat -> Nat] /\ B2[m] = b
      /\ \A d \in Nat : d # m => B2[d] = B[d]
  BY <1>2, <1>4 DEF Fits
<1>6. B \in [Nat -> Nat] /\ K \in [Nat -> Nat]
  BY DEF Fits
<1> HIDE DEF C2, B2
<1>7. ASSUME NEW d \in 1..m, d # m
       PROVE  d \in 1..Depth /\ d < m /\ m \in 1..Depth /\ d \in Nat /\ C2[d] = C[d] /\ B2[d] = B[d]
  <2>1. d \in Nat /\ d < m /\ d \in 1..Depth
    BY <1>2, <1>7
  <2>2. QED  BY <2>1, <1>3, <1>5, <1>7
<1>8. Depth' = m
  BY DEF Depth, OperationsAfter
<1>9. \A d \in 1..m : At(call_stack, d)' = At(call_stack, d) /\ CodeAt(d)' = CodeAt(d)
  <2>1. \A d \in 1..m : At(call_stack, d)' = At(call_stack, d)
    BY DEF SameUpTo, OperationsAfter
  <2>2. program_table' = program_table /\ RTErrException' = RTErrException
    BY DEF programs, OperationsAfter
  <2>3. QED  BY <2>1, <2>2 DEF CodeAt, ExtractInstr
<1>10. OperationsFit(C2)'
  <2>1. \A d \in 1..m :
          /\ At(call_stack, d).code \in IF d = 1 THEN {DebugCmd} ELSE Operation
          /\ WellFormed(Certificate(CodeAt(d)), CodeAt(d), C[d])
    <3>1. \A d \in 1..m : d \in 1..Depth
      BY <1>2
    <3>2. QED  BY <3>1 DEF Fits, OperationsFit
  <2>2. \A d \in 1..m - 1 :
          /\ Resumptions(C[d]) \subseteq Certificate(CodeAt(d))
          /\ At(call_stack, d + 1).pc = C[d].pc
    <3>1. \A d \in 1..m - 1 : d \in 1..Depth - 1
      BY <1>2
    <3>2. QED  BY <3>1 DEF Fits, OperationsFit
  <2>3. \A d \in 1..m :
          /\ At(call_stack, d)'.code \in IF d = 1 THEN {DebugCmd} ELSE Operation
          /\ WellFormed(Certificate(CodeAt(d)'), CodeAt(d)', C2[d])
    <3>1. ASSUME NEW d \in 1..m
          PROVE  /\ At(call_stack, d)'.code \in IF d = 1 THEN {DebugCmd} ELSE Operation
                 /\ WellFormed(Certificate(CodeAt(d)'), CodeAt(d)', C2[d])
      <4>1. At(call_stack, d)' = At(call_stack, d) /\ CodeAt(d)' = CodeAt(d)
        BY <1>9
      <4>2. WellFormed(Certificate(CodeAt(d)), CodeAt(d), C2[d])
        <5>1. CASE d = m
          BY <5>1, <1>3 DEF OperationsAfter
        <5>2. CASE d # m
          BY <5>2, <1>2, <1>3, <2>1
        <5>3. QED  BY <5>1, <5>2
      <4>3. At(call_stack, d).code \in IF d = 1 THEN {DebugCmd} ELSE Operation
        BY <2>1
      <4>4. QED  BY <4>1, <4>2, <4>3
    <3>2. QED  BY <3>1
  <2>4. \A d \in 1..m - 1 :
          /\ Resumptions(C2[d]) \subseteq Certificate(CodeAt(d)')
          /\ At(call_stack, d + 1)'.pc = C2[d].pc
    <3>1. ASSUME NEW d \in 1..m - 1
          PROVE  /\ Resumptions(C2[d]) \subseteq Certificate(CodeAt(d)')
                 /\ At(call_stack, d + 1)'.pc = C2[d].pc
      <4>1. d \in 1..m /\ d + 1 \in 1..m /\ d # m /\ d \in Nat
        BY <1>2
      <4>2. At(call_stack, d + 1)' = At(call_stack, d + 1) /\ CodeAt(d)' = CodeAt(d)
        BY <1>9, <4>1
      <4>3. C2[d] = C[d]
        BY <1>3, <4>1
      <4>4. QED  BY <4>2, <4>3, <2>2
    <3>2. QED  BY <3>1
  <2>5. C2[m] \in Certificate(CodeAt(m)') /\ C2[m].pc = pc'
    <3>1. m \in 1..m
      BY <1>2
    <3>2. c \in Certificate(CodeAt(m)) /\ pc' = c.pc
      BY DEF OperationsAfter
    <3>3. QED  BY <3>1, <3>2, <1>3, <1>9
  <2>6. IsStack(call_stack')
    BY DEF OperationsAfter
  <2>7. QED  BY <1>2, <1>8, <2>3, <2>4, <2>5, <2>6 DEF OperationsFit
<1>11. ItemsFit(C2, B2)'
  <2>1. IsStack(eval_stack') /\ Len(eval_stack') = b + Len(c.st)
    BY DEF HasItems, ItemsAfter
  <2>2. ASSUME NEW d \in 1..m, NEW j \in 1..Len(C2[d].st)
        PROVE  IsOfKind(At(eval_stack', B2[d] + j), C2[d].st[j])
    <3>1. CASE d = m
      BY <3>1, <1>3, <1>5 DEF HasItems, ItemsAfter
    <3>2. CASE d # m
      <4>1. d \in 1..Depth /\ d < m /\ m \in 1..Depth /\ d \in Nat /\ C2[d] = C[d] /\ B2[d] = B[d]
        BY <3>2, <1>7
      <4>2. IsOfKind(At(eval_stack, B[d] + j), C[d].st[j])
        BY <4>1 DEF Fits, ItemsFit
      <4>3. B[d] + Len(C[d].st) <= B[m]
        BY <4>1 DEF Fits, ItemsFit
      <4>4. Len(C[d].st) \in Nat
        <5>1. C[d] \in Configs(CodeAt(d))
          BY <4>1 DEF Fits, OperationsFit, WellFormed
        <5>2. QED  BY <5>1 DEF Configs
      <4>5. B[d] + j \in 1..B[m]
        BY <4>1, <4>3, <4>4, <1>1
      <4>6. At(eval_stack', B[d] + j) = At(eval_stack, B[d] + j)
        BY <4>5 DEF SameUpTo, ItemsAfter
      <4>7. QED  BY <4>1, <4>2, <4>6
    <3>3. QED  BY <3>1, <3>2
  <2>3. ASSUME NEW d \in 1..m, NEW e \in 1..m, d < e
        PROVE  B2[d] + Len(C2[d].st) <= B2[e]
    <3>1. /\ d \in 1..Depth /\ e \in 1..Depth /\ d # m /\ d \in Nat /\ e \in Nat
          /\ C2[d] = C[d] /\ B2[d] = B[d]
      BY <2>3, <1>2, <1>3, <1>5
    <3>2. B[d] + Len(C[d].st) <= B[e]
      BY <2>3, <3>1 DEF Fits, ItemsFit
    <3>3. Len(C[d].st) \in Nat
      <5>1. C[d] \in Configs(CodeAt(d))
        BY <3>1 DEF Fits, OperationsFit, WellFormed
      <5>2. QED  BY <5>1 DEF Configs
    <3>4. B[e] <= B2[e]
      <4>1. CASE e = m
        BY <4>1, <1>5, <1>4
      <4>2. CASE e # m
        BY <4>2, <3>1, <1>5, <1>6
      <4>3. QED  BY <4>1, <4>2
    <3>5. B[d] \in Nat /\ B[e] \in Nat /\ B2[e] \in Nat
      BY <3>1, <1>5, <1>6
    <3>6. QED  BY <3>1, <3>2, <3>3, <3>4, <3>5
  <2>4. QED  BY <1>3, <1>5, <1>8, <2>1, <2>2, <2>3 DEF ItemsFit
<1>12. EnvironmentsFit(C2)'
  <2>1. ASSUME NEW d \in 1..m
        PROVE  IsStack(At(env_l', d)) /\ Len(At(env_l', d)) = C2[d].en
    <3>1. CASE d = m
      BY <3>1, <1>3 DEF EnvironmentsAfter
    <3>2. CASE d # m
      <4>1. d \in 1..Depth /\ d \in 1..m - 1 /\ d \in Nat /\ C2[d] = C[d]
        BY <3>2, <1>2, <1>3
      <4>2. At(env_l', d) = At(env_l, d)
        BY <4>1 DEF SameUpTo, EnvironmentsAfter
      <4>3. IsStack(At(env_l, d)) /\ Len(At(env_l, d)) = C[d].en
        BY <4>1 DEF Fits, EnvironmentsFit
      <4>4. QED  BY <4>1, <4>2, <4>3
    <3>3. QED  BY <3>1, <3>2
  <2>2. IsStack(env_l') /\ Len(env_l') = m
    BY DEF EnvironmentsAfter
  <2>3. QED  BY <1>8, <2>1, <2>2 DEF EnvironmentsFit
<1>13. TrapsFit(C2, B2, K)'
  <2>1. \A d \in 1..Depth : Len(C[d].tr) \in Nat
    <3>1. ASSUME NEW d \in 1..Depth
          PROVE  Len(C[d].tr) \in Nat
      <4>1. C[d] \in Configs(CodeAt(d))
        BY DEF Fits, OperationsFit, WellFormed
      <4>2. QED  BY <4>1 DEF Configs
    <3>2. QED  BY <3>1
  <2>2. /\ K[1] = 0
        /\ \A d \in 1..m - 1 : K[d + 1] = K[d] + Len(C2[d].tr)
    <3>1. K[1] = 0 /\ \A d \in 1..Depth - 1 : K[d + 1] = K[d] + Len(C[d].tr)
      BY DEF Fits, TrapsFit
    <3>2. \A d \in 1..m - 1 : d \in 1..Depth - 1 /\ C2[d] = C[d]
      BY <1>2, <1>3
    <3>3. QED  BY <3>1, <3>2
  <2>3. \A d, e \in 1..m : d < e => K[d] + Len(C2[d].tr) <= K[e]
    <3>1. \A d, e \in 1..Depth : d < e => K[d] + Len(C[d].tr) <= K[e]
      BY DEF Fits, TrapsFit
    <3>2. ASSUME NEW d \in 1..m, NEW e \in 1..m, d < e
          PROVE  d \in 1..Depth /\ e \in 1..Depth /\ C2[d] = C[d]
      BY <3>2, <1>2, <1>3
    <3>3. QED  BY <3>1, <3>2
  <2>4. ASSUME NEW d \in 1..m, NEW j \in 1..Len(C2[d].tr)
        PROVE  At(trap_stack', K[d] + j) = TrapAt(C2[d].tr[j], d, B2[d])
    <3>1. CASE d = m
      BY <3>1, <1>3, <1>5 DEF TrapsAfter
    <3>2. CASE d # m
      <4>1. d \in 1..Depth /\ d < m /\ m \in 1..Depth /\ d \in Nat /\ C2[d] = C[d] /\ B2[d] = B[d]
        BY <3>2, <1>7
      <4>2. At(trap_stack, K[d] + j) = TrapAt(C[d].tr[j], d, B[d])
        BY <4>1 DEF Fits, TrapsFit
      <4>3. K[d] + Len(C[d].tr) <= K[m]
        BY <4>1 DEF Fits, TrapsFit
      <4>4. K[d] + j \in 1..K[m]
        <5>1. K[d] \in Nat /\ K[m] \in Nat /\ Len(C[d].tr) \in Nat /\ j \in 1..Len(C[d].tr)
          BY <4>1, <1>1
        <5>2. QED  BY <5>1, <4>3
      <4>5. At(trap_stack', K[d] + j) = At(trap_stack, K[d] + j)
        BY <4>4 DEF SameUpTo, TrapsAfter
      <4>6. QED  BY <4>1, <4>2, <4>5
    <3>3. QED  BY <3>1, <3>2
  <2>5. Len(trap_stack') = K[m] + Len(C2[m].tr) /\ IsStack(trap_stack')
    BY <1>3 DEF TrapsAfter
  <2>6. ASSUME NEW i \in 1..Len(trap_stack')
        PROVE  \E d \in 1..m : K[d] < i /\ i <= K[d] + Len(C2[d].tr)
    <3>1. m \in 1..m /\ m \in 1..Depth /\ m \in Nat
      BY <1>2
    <3>2. CASE i > K[m]
      <4>1. K[m] < i /\ i <= K[m] + Len(C2[m].tr)
        BY <3>2, <2>5, <3>1, <1>6
      <4>2. QED  BY <3>1, <4>1
    <3>3. CASE ~(i > K[m])
      <4>1. i <= K[m] /\ i \in Nat /\ K[m] \in Nat /\ i >= 1
        BY <3>1, <3>3, <1>6
      <4>2. Len(C[Depth].tr) \in Nat /\ Len(C[m].tr) \in Nat /\ K[Depth] \in Nat
        <5>1. Depth \in 1..Depth
          BY <1>1
        <5>2. QED  BY <5>1, <1>1, <3>1
      <4>3. K[m] <= Len(trap_stack)
        <5>1. CASE m = Depth
          <6>1. Len(trap_stack) = K[Depth] + Len(C[Depth].tr)
            BY DEF Fits, TrapsFit
          <6>2. QED  BY <5>1, <6>1, <4>2
        <5>2. CASE m # Depth
          <6>1. m < Depth /\ Depth \in 1..Depth
            BY <5>2, <1>2
          <6>2. K[m] + Len(C[m].tr) <= K[Depth]
            BY <6>1, <3>1 DEF Fits, TrapsFit
          <6>3. Len(trap_stack) = K[Depth] + Len(C[Depth].tr)
            BY DEF Fits, TrapsFit
          <6>4. QED  BY <6>2, <6>3, <4>1, <4>2
        <5>3. QED  BY <5>1, <5>2
      <4>4. i \in 1..Len(trap_stack)
        <5>1. Len(trap_stack) \in Nat
          BY <1>1
        <5>2. QED  BY <5>1, <4>1, <4>3
      <4>5. PICK d \in 1..Depth : K[d] < i /\ i <= K[d] + Len(C[d].tr)
        BY <4>4 DEF Fits, TrapsFit
      <4>6. d < m
        <5>1. d \in Nat /\ K[d] \in Nat
          BY <1>1
        <5>2. CASE d = m
          BY <5>2, <4>1, <4>5
        <5>3. CASE d > m
          <6>1. K[m] + Len(C[m].tr) <= K[d]
            BY <5>3, <3>1 DEF Fits, TrapsFit
          <6>2. QED  BY <6>1, <4>1, <4>2, <4>5, <5>1
        <5>4. QED  BY <5>1, <5>2, <5>3, <3>1
      <4>7. d \in 1..m /\ C2[d] = C[d]
        BY <4>6, <1>2, <1>3
      <4>8. QED  BY <4>5, <4>7
    <3>4. QED  BY <3>2, <3>3
  <2>7. QED  BY <1>8, <2>2, <2>3, <2>4, <2>6, <2>5 DEF TrapsFit
<1>14. LeftBehind(C2, B2, K)'
  <2>1. \A d \in 1..m - 1 : B2[d + 1] = B2[d] + Len(C2[d].st) \/ K[d + 1] = 0
    <3>1. ASSUME NEW d \in 1..m - 1
          PROVE  B2[d + 1] = B2[d] + Len(C2[d].st) \/ K[d + 1] = 0
      <4>1. /\ d \in 1..Depth - 1 /\ d \in Nat /\ d + 1 \in Nat
            /\ C2[d] = C[d] /\ B2[d] = B[d]
        BY <1>2, <1>3, <1>5
      <4>2. B[d + 1] = B[d] + Len(C[d].st) \/ K[d + 1] = 0
        BY <4>1 DEF Fits, LeftBehind
      <4>3. B2[d + 1] = B[d + 1] \/ K[d + 1] = 0
        <5>1. CASE d + 1 = m
          BY <5>1, <1>5 DEF LeftBehindAfter
        <5>2. CASE d + 1 # m
          BY <5>2, <4>1, <1>5
        <5>3. QED  BY <5>1, <5>2
      <4>4. QED  BY <4>1, <4>2, <4>3
    <3>2. QED  BY <3>1
  <2>2. C2[m].aftermath => K[m] = 0
    BY <1>3 DEF LeftBehindAfter
  <2>3. strayed' \/ C2[m].aftermath \/ Tight(C2, B2)'
    <3>1. CASE b = B[m] /\ B[1] = 0 /\ \A d \in 1..m - 1 : B[d + 1] = B[d] + Len(C[d].st)
      <4>1. \A d \in Nat : B2[d] = B[d]
        BY <3>1, <1>5
      <4>2. \A d \in 1..m - 1 : d \in Nat /\ d + 1 \in Nat /\ C2[d] = C[d]
        BY <1>2, <1>3
      <4>3. B2[1] = 0 /\ \A d \in 1..m - 1 : B2[d + 1] = B2[d] + Len(C2[d].st)
        BY <3>1, <4>1, <4>2
      <4>4. QED  BY <4>3, <1>8 DEF Tight
    <3>2. QED  BY <3>1, <1>3 DEF LeftBehindAfter
  <2>4. QED  BY <1>8, <2>1, <2>2, <2>3 DEF LeftBehind
<1>15. Fits(C2, B2, K)'
  BY <1>3, <1>5, <1>6, <1>10, <1>11, <1>12, <1>13, <1>14 DEF Fits
<1>16. QED  BY <1>15

-----------------------------------------------------------------------------
(* What the certificate says of the instruction that comes next.             *)

Current(C) == C[Depth]
CurrentCode == CodeAt(Depth)
Certified == Certificate(CurrentCode)
Instruction(C) == CurrentCode[Current(C).pc + 1]

LEMMA CodeIsCertified ==
  ASSUME ProgramFits, NEW C, NEW B, NEW K, Fits(C, B, K), NEW d \in 1..Depth
  PROVE  Verified(Certificate(CodeAt(d)), d = 1, CodeAt(d))
<1>1. At(call_stack, d).code \in IF d = 1 THEN {DebugCmd} ELSE Operation
  BY DEF Fits, OperationsFit
<1>2. CASE d = 1
  <2>1. CodeAt(d) = EvalPrintDebugAux(RTErrException)
    BY <1>1, <1>2 DEF CodeAt, ExtractInstr
  <2>2. CodeAt(d) \in DebugCodes
    BY <2>1 DEF DebugCodes, ProgramFits
  <2>3. Verified(Certificate(CodeAt(d)), TRUE, CodeAt(d))
    BY <2>2, CodeIsVerified
  <2>4. (d = 1) = TRUE
    BY <1>2
  <2>5. QED  BY <2>3, <2>4
<1>3. CASE d # 1
  <2>1. At(call_stack, d).code \in Operation /\ At(call_stack, d).code # DebugCmd
    BY <1>1, <1>3 DEF Operation, DebugCmd
  <2>2. CodeAt(d) = Compiled(program)[At(call_stack, d).code]
    BY <2>1 DEF CodeAt, ExtractInstr, ProgramFits
  <2>3. CodeAt(d) \in OperationCodes
    BY <2>1, <2>2 DEF OperationCodes, ProgramFits
  <2>4. Verified(Certificate(CodeAt(d)), FALSE, CodeAt(d))
    BY <2>3, CodeIsVerified
  <2>5. (d = 1) = FALSE
    BY <1>3
  <2>6. QED  BY <2>4, <2>5
<1>4. QED  BY <1>2, <1>3

\* A configuration of a certificate is well formed.
LEMMA CertifiedIsWellFormed ==
  ASSUME ProgramFits, NEW C, NEW B, NEW K, Fits(C, B, K), NEW d \in 1..Depth,
         NEW c \in Certificate(CodeAt(d))
  PROVE  /\ WellFormed(Certificate(CodeAt(d)), CodeAt(d), c)
         /\ c.st \in Seq(Kinds) /\ c.en \in Nat
         /\ c.tr \in Seq([id : HandlerIds(CodeAt(d)), items : Nat, blocks : Nat])
         /\ Len(c.st) \in Nat /\ Len(c.tr) \in Nat /\ c.aftermath \in BOOLEAN
<1>1. Verified(Certificate(CodeAt(d)), d = 1, CodeAt(d))
  BY CodeIsCertified
<1>2. WellFormed(Certificate(CodeAt(d)), CodeAt(d), c)
  BY <1>1 DEF Verified
<1>3. c \in Configs(CodeAt(d))
  BY <1>2 DEF WellFormed
<1>4. /\ c.st \in Seq(Kinds) /\ c.en \in Nat /\ c.aftermath \in BOOLEAN
      /\ c.tr \in Seq([id : HandlerIds(CodeAt(d)), items : Nat, blocks : Nat])
  BY <1>3 DEF Configs
<1>5. QED  BY <1>2, <1>4

\* The instruction of the code is the one that the certificate is about.
LEMMA InstructionIsCertified ==
  ASSUME ProgramFits, NEW C, NEW B, NEW K, Fits(C, B, K), NEW op, Next_is(op)
  PROVE  /\ Instruction(C).op = op /\ arg = Instruction(C).arg
         /\ Legal(Depth = 1, Instruction(C), Current(C))
         /\ After(Instruction(C), Current(C)) \subseteq Certified
         /\ op = "APPLY" => WellFormed(Certified, CurrentCode, Calling(Current(C)))
         /\ op = "EXITVAL" => TrapsAreKept(Leaving(Current(C), Without(1, Current(C)), 0))
<1>1. Depth \in 1..Depth
  <2>1. Depth \in Nat \ {0}
    BY FitTypes
  <2>2. QED  BY <2>1
<1>2. Head(call_stack) = At(call_stack, Depth)
  <2>1. IsStack(call_stack) /\ Depth > 0
    BY DEF Fits, OperationsFit
  <2>2. Head(call_stack) = call_stack[1] /\ Len(call_stack) \in Nat
    BY <2>1 DEF IsStack, Depth
  <2>3. QED  BY <2>2 DEF At, Depth
<1>3. curr_program = CurrentCode
  BY <1>2 DEF curr_program, CurrentCode, CodeAt
<1>4. Current(C) \in Certified /\ Current(C).pc = pc
  BY DEF Fits, OperationsFit, Current, Certified, CurrentCode
<1>5. Verified(Certified, Depth = 1, CurrentCode)
  BY <1>1, CodeIsCertified DEF Certified, CurrentCode
<1>6. pc < Len(CurrentCode) /\ CurrentCode[pc + 1].op = op /\ arg = CurrentCode[pc + 1].arg
  BY <1>3 DEF Next_is, Running, arg
<1>7. Step(Certified, Depth = 1, CurrentCode, Current(C))
  BY <1>4, <1>5, <1>6 DEF Verified
<1>8. Instruction(C).op = op /\ arg = Instruction(C).arg
  BY <1>4, <1>6 DEF Instruction
<1>9. /\ Legal(Depth = 1, Instruction(C), Current(C))
      /\ After(Instruction(C), Current(C)) \subseteq Certified
      /\ Instruction(C).op = "APPLY" => WellFormed(Certified, CurrentCode, Calling(Current(C)))
      /\ Instruction(C).op = "EXITVAL" =>
           TrapsAreKept(Leaving(Current(C), Without(1, Current(C)), 0))
  BY <1>7 DEF Step, Instruction
<1>10. QED  BY <1>8, <1>9

-----------------------------------------------------------------------------
(* Steps within an operation.                                                *)

\* The exit that an operation is in the aftermath of is still there, or was taken
\* for a value.
AftermathAfter(c, c2) ==
  \/ c2.aftermath = c.aftermath /\ (strayed => strayed')
  \/ ~c2.aftermath /\ strayed'

LEMMA StaysInOperation ==
  ASSUME ProgramFits, NEW C, NEW B, NEW K, Fits(C, B, K),
         NEW c2 \in Certified, pc' = c2.pc, UNCHANGED <<programs, call_stack>>,
         EnvironmentsAfter(Depth, c2), ItemsAfter(B, Depth, c2, B[Depth]),
         TrapsAfter(K, Depth, c2, B[Depth]), AftermathAfter(Current(C), c2)
  PROVE  (\E C2, B2, K2 : Fits(C2, B2, K2))'
<1>1. Depth \in Nat \ {0} /\ Depth \in 1..Depth
  <2>1. Depth \in Nat \ {0}
    BY FitTypes
  <2>2. QED  BY <2>1
<1>2. OperationsAfter(Depth, c2)
  <2>1. IsStack(call_stack') /\ Len(call_stack') = Depth /\ SameUpTo(Depth, call_stack', call_stack)
    BY DEF Fits, OperationsFit, SameUpTo, Depth
  <2>2. WellFormed(Certificate(CodeAt(Depth)), CodeAt(Depth), c2)
    BY <1>1, CertifiedIsWellFormed DEF Certified, CurrentCode
  <2>3. QED  BY <2>1, <2>2 DEF OperationsAfter, Certified, CurrentCode
<1>3. LeftBehindAfter(C, B, K, Depth, c2, B[Depth])
  <2>1. C[Depth].aftermath => K[Depth] = 0
    BY DEF Fits, LeftBehind
  <2>2. strayed \/ C[Depth].aftermath \/ Tight(C, B)
    BY DEF Fits, LeftBehind
  <2>3. c2.aftermath => K[Depth] = 0
    BY <2>1 DEF AftermathAfter, Current
  <2>4. strayed' \/ c2.aftermath \/ Tight(C, B)
    BY <2>2 DEF AftermathAfter, Current
  <2>5. QED  BY <2>3, <2>4 DEF LeftBehindAfter, Tight
<1>4. QED  BY <1>1, <1>2, <1>3, FitsAgain

LEMMA EnvironmentsStay ==
  ASSUME ProgramFits, NEW C, NEW B, NEW K, Fits(C, B, K),
         NEW c2, c2.en = Current(C).en, UNCHANGED env_l
  PROVE  EnvironmentsAfter(Depth, c2)
<1>1. Depth \in 1..Depth
  <2>1. Depth \in Nat \ {0}
    BY FitTypes
  <2>2. QED  BY <2>1
<1>2. /\ IsStack(env_l) /\ Len(env_l) = Depth
      /\ IsStack(At(env_l, Depth)) /\ Len(At(env_l, Depth)) = Current(C).en
  BY <1>1 DEF Fits, EnvironmentsFit, Current
<1>3. QED  BY <1>2 DEF EnvironmentsAfter, SameUpTo

LEMMA TrapsStay ==
  ASSUME ProgramFits, NEW C, NEW B, NEW K, Fits(C, B, K),
         NEW c2, c2.tr = Current(C).tr, UNCHANGED trap_stack
  PROVE  TrapsAfter(K, Depth, c2, B[Depth])
<1>1. Depth \in 1..Depth
  <2>1. Depth \in Nat \ {0}
    BY FitTypes
  <2>2. QED  BY <2>1
<1>2. /\ IsStack(trap_stack) /\ Len(trap_stack) = K[Depth] + Len(Current(C).tr)
      /\ \A j \in 1..Len(Current(C).tr) :
           At(trap_stack, K[Depth] + j) = TrapAt(Current(C).tr[j], Depth, B[Depth])
  BY <1>1 DEF Fits, TrapsFit, Current
<1>3. QED  BY <1>2 DEF TrapsAfter, SameUpTo

\* The items of the operation that is executed.
LEMMA CurrentItems ==
  ASSUME NEW C, NEW B, NEW K, Fits(C, B, K)
  PROVE  /\ HasItems(eval_stack, B[Depth], Current(C).st)
         /\ B[Depth] \in Nat /\ Current(C).st \in Seq(Kinds) /\ Len(Current(C).st) \in Nat
         /\ Current(C) \in Certified
<1>1. Depth \in 1..Depth
  <2>1. Depth \in Nat \ {0}
    BY FitTypes
  <2>2. QED  BY <2>1
<1>2. B[Depth] \in Nat /\ Current(C).st \in Seq(Kinds) /\ Len(Current(C).st) \in Nat
  BY <1>1, FitTypes DEF Current
<1>3. HasItems(eval_stack, B[Depth], Current(C).st)
  BY <1>1 DEF Fits, ItemsFit, HasItems, Current
<1>4. Current(C) \in Certified
  BY DEF Fits, OperationsFit, Current, Certified, CurrentCode
<1>5. QED  BY <1>2, <1>3, <1>4

\* An instruction that only changes items.
LEMMA OnlyItemsChange ==
  ASSUME ProgramFits, NEW C, NEW B, NEW K, Fits(C, B, K),
         NEW st, NEW n, Leaving(Current(C), st, n) \in Certified,
         NEW stack, HasItems(stack, B[Depth], st), SameUpTo(B[Depth], stack, eval_stack),
         Leaves(stack, n), OnlyStack
  PROVE  (\E C2, B2, K2 : Fits(C2, B2, K2))'
<1> DEFINE c2 == Leaving(Current(C), st, n)
<1>1. /\ c2.pc = Current(C).pc + 1 + n /\ c2.st = st /\ c2.en = Current(C).en
      /\ c2.tr = Current(C).tr /\ c2.aftermath = Current(C).aftermath
  BY DEF Leaving, Config
<1> HIDE DEF c2
<1>2. Current(C).pc = pc
  BY DEF Fits, OperationsFit, Current
<1>3. pc' = c2.pc /\ eval_stack' = stack
  BY <1>1, <1>2 DEF Leaves
<1>4. /\ UNCHANGED <<programs, call_stack>> /\ UNCHANGED env_l /\ UNCHANGED trap_stack
      /\ strayed' = strayed
  BY DEF OnlyStack
<1>5. EnvironmentsAfter(Depth, c2)
  BY <1>1, <1>4, EnvironmentsStay
<1>6. TrapsAfter(K, Depth, c2, B[Depth])
  BY <1>1, <1>4, TrapsStay
<1>7. ItemsAfter(B, Depth, c2, B[Depth])
  <2>1. B[Depth] \in Nat
    BY CurrentItems
  <2>2. QED  BY <2>1, <1>1, <1>3 DEF ItemsAfter
<1>8. AftermathAfter(Current(C), c2)
  BY <1>1, <1>4 DEF AftermathAfter
<1>9. c2 \in Certified
  BY DEF c2
<1>10. QED  BY <1>3, <1>4, <1>5, <1>6, <1>7, <1>8, <1>9, StaysInOperation

\* What is known of an item of a kind, and of the kind of an item.
LEMMA KindsOfItems ==
  ASSUME NEW item, NEW kind \in Kinds, IsOfKind(item, kind)
  PROVE  /\ IsCont(item) => kind \in {"CONT", "ANY"}
         /\ IsExit(item) => kind \in {"EXIT", "ANY"}
         /\ kind = "CONT" => IsCont(item)
         /\ kind = "EXIT" => IsExit(item)
         /\ item.v => kind # "FALSE"
         /\ ~item.v => kind # "TRUE"
BY DEF Kinds, IsOfKind, IsCont, IsExit

LEMMA KindOfItem ==
  ASSUME NEW item
  PROVE  KindOf(item) \in Kinds /\ IsOfKind(item, KindOf(item))
<1>1. CASE IsCont(item)
  <2>1. KindOf(item) = "CONT"
    BY <1>1 DEF KindOf, IsCont, IsExit
  <2>2. QED  BY <1>1, <2>1 DEF Kinds, IsOfKind
<1>2. CASE IsExit(item)
  <2>1. KindOf(item) = "EXIT"
    BY <1>2 DEF KindOf, IsCont, IsExit
  <2>2. QED  BY <1>2, <2>1 DEF Kinds, IsOfKind
<1>3. CASE ~IsCont(item) /\ ~IsExit(item) /\ item.tag = "BOOL"
  <2>1. CASE item.v
    <3>1. KindOf(item) = "TRUE"
      BY <1>3, <2>1 DEF KindOf
    <3>2. QED  BY <1>3, <2>1, <3>1 DEF Kinds, IsOfKind
  <2>2. CASE ~item.v
    <3>1. KindOf(item) = "FALSE"
      BY <1>3, <2>2 DEF KindOf
    <3>2. QED  BY <1>3, <2>2, <3>1 DEF Kinds, IsOfKind
  <2>3. QED  BY <2>1, <2>2
<1>4. CASE ~IsCont(item) /\ ~IsExit(item) /\ item.tag # "BOOL"
  <2>1. KindOf(item) = "OTHER"
    BY <1>4 DEF KindOf
  <2>2. QED  BY <1>4, <2>1 DEF Kinds, IsOfKind
<1>5. QED  BY <1>1, <1>2, <1>3, <1>4

\* The kinds of the values that instructions push.
LEMMA KindsOfValues ==
  /\ IsOfKind(Bool(TRUE), "TRUE") /\ IsOfKind(Bool(FALSE), "FALSE")
  /\ \A b : IsOfKind(Bool(b), "OTHER")
  /\ \A n : IsOfKind(Num(n), "OTHER") /\ IsOfKind(Exit(n), "EXIT")
  /\ \A e : IsOfKind(Value("ENVS", e), "OTHER")
  /\ IsOfKind(Cont, "CONT")
  /\ \A item : IsOfKind(item, "ANY")
BY DEF IsOfKind, IsCont, IsExit, Bool, Num, Exit, Cont, Value

LEMMA AppendedKind ==
  ASSUME NEW st \in Seq(Kinds), NEW kind \in Kinds
  PROVE  st \o <<kind>> = Append(st, kind)
OBVIOUS

\* The kind of the top item is known better.
LEMMA RefinedTop ==
  ASSUME NEW s, NEW b \in Nat, NEW st \in Seq(Kinds), HasItems(s, b, st), Len(st) > 0,
         NEW kind \in Kinds, IsOfKind(s[1], kind)
  PROVE  /\ HasItems(s, b, Append(SubSeq(st, 1, Len(st) - 1), kind))
         /\ Append(SubSeq(st, 1, Len(st) - 1), kind) \in Seq(Kinds)
<1> DEFINE st1 == SubSeq(st, 1, Len(st) - 1)
<1>1. /\ HasItems(Drop(1, s), b, st1) /\ st1 \in Seq(Kinds)
  <2>1. 1 \in Nat /\ 1 <= Len(st)
    OBVIOUS
  <2>2. QED  BY <2>1, DroppedItems
<1> HIDE DEF st1
<1>2. Push(s[1], Drop(1, s)) = s
  <2>1. s \in Seq(Elements(s)) /\ Len(s) > 0
    BY TopItem DEF HasItems, IsStack
  <2> HIDE DEF Elements
  <2>2. QED  BY <2>1 DEF Push, Drop
<1>3. /\ HasItems(Push(s[1], Drop(1, s)), b, Append(st1, kind))
      /\ Append(st1, kind) \in Seq(Kinds)
  BY <1>1, PushedItem
<1>4. QED  BY <1>2, <1>3 DEF st1

\* An instruction that pops n items and pushes one of kind.
LEMMA YieldsItem ==
  ASSUME ProgramFits, NEW C, NEW B, NEW K, Fits(C, B, K),
         NEW n \in Nat, n <= Len(Current(C).st), NEW val, NEW kind \in Kinds, IsOfKind(val, kind),
         Pushing(Current(C), n, <<kind>>) \in Certified, Yields(n, val)
  PROVE  (\E C2, B2, K2 : Fits(C2, B2, K2))'
<1> DEFINE st1 == Without(n, Current(C))
           st2 == Append(st1, kind)
           stack == Push(val, Drop(n, eval_stack))
<1>1. /\ HasItems(eval_stack, B[Depth], Current(C).st)
      /\ B[Depth] \in Nat /\ Current(C).st \in Seq(Kinds)
  BY CurrentItems
<1>2. /\ HasItems(Drop(n, eval_stack), B[Depth], st1) /\ st1 \in Seq(Kinds)
      /\ SameUpTo(B[Depth], Drop(n, eval_stack), eval_stack)
  BY <1>1, DroppedItems DEF Without
<1> HIDE DEF st1
<1>3. /\ HasItems(stack, B[Depth], st2) /\ SameUpTo(B[Depth], stack, Drop(n, eval_stack))
  BY <1>1, <1>2, PushedItem
<1>4. SameUpTo(B[Depth], stack, eval_stack)
  BY <1>2, <1>3 DEF SameUpTo
<1>5. Pushing(Current(C), n, <<kind>>) = Leaving(Current(C), st2, 0)
  BY <1>2, AppendedKind DEF Pushing, st1
<1>6. Leaves(stack, 0) /\ OnlyStack
  BY DEF Yields
<1> HIDE DEF st2, stack
<1>7. QED  BY <1>3, <1>4, <1>5, <1>6, OnlyItemsChange

\* Pushing without popping, and popping without pushing.
LEMMA WithoutNone ==
  ASSUME NEW C, NEW B, NEW K, Fits(C, B, K)
  PROVE  Without(0, Current(C)) = Current(C).st
<1>1. Current(C).st \in Seq(Kinds)
  BY CurrentItems
<1>2. QED  BY <1>1 DEF Without

LEMMA PopFits ==
  ASSUME ProgramFits, NEW C, NEW B, NEW K, Fits(C, B, K),
         NEW n \in Nat, n <= Len(Current(C).st), NEW k,
         Leaving(Current(C), Without(n, Current(C)), k) \in Certified,
         Leaves(Drop(n, eval_stack), k), OnlyStack
  PROVE  (\E C2, B2, K2 : Fits(C2, B2, K2))'
<1>1. /\ HasItems(eval_stack, B[Depth], Current(C).st)
      /\ B[Depth] \in Nat /\ Current(C).st \in Seq(Kinds)
  BY CurrentItems
<1>2. /\ HasItems(Drop(n, eval_stack), B[Depth], Without(n, Current(C)))
      /\ SameUpTo(B[Depth], Drop(n, eval_stack), eval_stack)
  BY <1>1, DroppedItems DEF Without
<1>3. QED  BY <1>2, OnlyItemsChange

LEMMA JumpFits ==
  ASSUME ProgramFits, NEW C, NEW B, NEW K, Fits(C, B, K), ExeBranch
  PROVE  (\E C2, B2, K2 : Fits(C2, B2, K2))'
<1> DEFINE c == Current(C)
           i == Instruction(C)
<1>1. /\ HasItems(eval_stack, B[Depth], c.st)
      /\ B[Depth] \in Nat /\ c.st \in Seq(Kinds) /\ Len(c.st) \in Nat
  BY CurrentItems
<1>2. OnlyStack
  BY DEF ExeBranch
<1>3. CASE Next_is("BR") /\ Leaves(eval_stack, arg)
  <2>1. i.op = "BR" /\ arg = i.arg /\ After(i, c) \subseteq Certified
    BY <1>3, InstructionIsCertified
  <2>2. Leaving(c, c.st, i.arg) \in Certified
    <3>1. After(i, c) = {Leaving(c, c.st, i.arg)}
      BY <2>1 DEF After
    <3>2. QED  BY <2>1, <3>1
  <2>3. SameUpTo(B[Depth], eval_stack, eval_stack) /\ Leaves(eval_stack, i.arg)
    BY <1>3, <2>1 DEF SameUpTo
  <2>4. QED  BY <1>1, <1>2, <2>2, <2>3, OnlyItemsChange
<1>4. ASSUME NEW yes, NEW no, Branches(c, yes, no) \subseteq Certified, Len(c.st) >= 1,
             Leaves(Drop(1, eval_stack), IF Top.v THEN yes ELSE no)
      PROVE  (\E C2, B2, K2 : Fits(C2, B2, K2))'
  <2>1. IsOfKind(Top, TopKind(c)) /\ TopKind(c) \in Kinds
    BY <1>1, <1>4, TopItem DEF Top, Item, TopKind
  <2>2. (Top.v => TopKind(c) # "FALSE") /\ (~Top.v => TopKind(c) # "TRUE")
    BY <2>1, KindsOfItems
  <2>3. 1 \in Nat /\ 1 <= Len(c.st)
    BY <1>4
  <2>4. CASE Top.v
    <3>1. Leaving(c, Without(1, c), yes) \in Branches(c, yes, no)
      BY <2>2, <2>4 DEF Branches
    <3>2. Leaves(Drop(1, eval_stack), yes)
      BY <1>4, <2>4
    <3>3. QED  BY <1>2, <1>4, <2>3, <3>1, <3>2, PopFits
  <2>5. CASE ~Top.v
    <3>1. Leaving(c, Without(1, c), no) \in Branches(c, yes, no)
      BY <2>2, <2>5 DEF Branches
    <3>2. Leaves(Drop(1, eval_stack), no)
      BY <1>4, <2>5
    <3>3. QED  BY <1>2, <1>4, <2>3, <3>1, <3>2, PopFits
  <2>6. QED  BY <2>4, <2>5
<1>5. CASE Next_is("CBR") /\ Leaves(Drop(1, eval_stack), IF Top.v THEN arg ELSE 0)
  <2>1. /\ i.op = "CBR" /\ arg = i.arg /\ After(i, c) \subseteq Certified
        /\ Legal(Depth = 1, i, c)
    BY <1>5, InstructionIsCertified
  <2>2. After(i, c) = Branches(c, i.arg, 0)
    BY <2>1 DEF After
  <2>3. Len(c.st) >= 1
    BY <2>1, <1>1 DEF Legal, Operands
  <2>4. Leaves(Drop(1, eval_stack), IF Top.v THEN i.arg ELSE 0)
    BY <1>5, <2>1
  <2>5. QED  BY <1>4, <2>1, <2>2, <2>3, <2>4
<1>6. CASE Next_is("CNBR") /\ Leaves(Drop(1, eval_stack), IF Top.v THEN 0 ELSE arg)
  <2>1. /\ i.op = "CNBR" /\ arg = i.arg /\ After(i, c) \subseteq Certified
        /\ Legal(Depth = 1, i, c)
    BY <1>6, InstructionIsCertified
  <2>2. After(i, c) = Branches(c, 0, i.arg)
    BY <2>1 DEF After
  <2>3. Len(c.st) >= 1
    BY <2>1, <1>1 DEF Legal, Operands
  <2>4. Leaves(Drop(1, eval_stack), IF Top.v THEN 0 ELSE i.arg)
    BY <1>6, <2>1
  <2>5. QED  BY <1>4, <2>1, <2>2, <2>3, <2>4
<1>7. QED  BY <1>3, <1>5, <1>6 DEF ExeBranch

LEMMA PushPopFits ==
  ASSUME ProgramFits, NEW C, NEW B, NEW K, Fits(C, B, K), ExePushPop
  PROVE  (\E C2, B2, K2 : Fits(C2, B2, K2))'
<1> DEFINE c == Current(C)
           i == Instruction(C)
<1>1. /\ HasItems(eval_stack, B[Depth], c.st)
      /\ B[Depth] \in Nat /\ c.st \in Seq(Kinds) /\ Len(c.st) \in Nat
  BY CurrentItems
<1>2. OnlyStack
  BY DEF ExePushPop
<1>3. CASE Next_is("PUSH") /\ Leaves(Push(arg, eval_stack), 0)
  <2>1. i.op = "PUSH" /\ arg = i.arg /\ After(i, c) \subseteq Certified
    BY <1>3, InstructionIsCertified
  <2>2. After(i, c) = {Pushing(c, 0, <<KindOf(i.arg)>>)}
    BY <2>1 DEF After
  <2>3. KindOf(i.arg) \in Kinds /\ IsOfKind(i.arg, KindOf(i.arg))
    BY KindOfItem
  <2>4. Pushing(c, 0, <<KindOf(i.arg)>>) = Leaving(c, Append(c.st, KindOf(i.arg)), 0)
    BY <1>1, <2>3, AppendedKind, WithoutNone DEF Pushing
  <2>5. /\ HasItems(Push(i.arg, eval_stack), B[Depth], Append(c.st, KindOf(i.arg)))
        /\ SameUpTo(B[Depth], Push(i.arg, eval_stack), eval_stack)
    BY <1>1, <2>3, PushedItem
  <2>6. Leaves(Push(i.arg, eval_stack), 0)
    BY <1>3, <2>1
  <2>7. Leaving(c, Append(c.st, KindOf(i.arg)), 0) \in Certified
    BY <2>1, <2>2, <2>4
  <2>8. QED  BY <1>2, <2>5, <2>6, <2>7, OnlyItemsChange
<1>4. CASE Next_is("POP") /\ Leaves(Drop(arg, eval_stack), 0)
  <2>1. /\ i.op = "POP" /\ arg = i.arg /\ After(i, c) \subseteq Certified
        /\ Legal(Depth = 1, i, c)
    BY <1>4, InstructionIsCertified
  <2>2. After(i, c) = {Pushing(c, i.arg, <<>>)}
    BY <2>1 DEF After
  <2>3. i.arg \in Nat /\ i.arg <= Len(c.st)
    BY <2>1 DEF Legal, Operands
  <2>4. Pushing(c, i.arg, <<>>) = Leaving(c, Without(i.arg, c), 0)
    <3>1. Without(i.arg, c) \in Seq(Kinds)
      BY <1>1, <2>3 DEF Without
    <3>2. Without(i.arg, c) \o <<>> = Without(i.arg, c)
      BY <3>1
    <3>3. QED  BY <3>2 DEF Pushing
  <2>5. Leaves(Drop(i.arg, eval_stack), 0)
    BY <1>4, <2>1
  <2>6. Leaving(c, Without(i.arg, c), 0) \in Certified
    BY <2>1, <2>2, <2>4
  <2>7. QED  BY <1>2, <2>3, <2>5, <2>6, PopFits
<1>5. QED  BY <1>3, <1>4 DEF ExePushPop

LEMMA AppendedTwo ==
  ASSUME NEW st \in Seq(Kinds), NEW k \in Kinds, NEW l \in Kinds
  PROVE  st \o <<k, l>> = Append(Append(st, k), l)
OBVIOUS

LEMMA PushedTwo ==
  ASSUME NEW T, NEW s \in Seq(T), NEW a, NEW b
  PROVE  <<a, b>> \o s = Push(a, Push(b, s))
<1> DEFINE U == T \cup {a, b}
           l == <<a, b>> \o s
           r == <<a>> \o (<<b>> \o s)
<1>1. s \in Seq(U) /\ <<a>> \in Seq(U) /\ <<b>> \in Seq(U) /\ <<a, b>> \in Seq(U)
  OBVIOUS
<1> HIDE DEF U
<1>2. /\ l \in Seq(U) /\ Len(l) = Len(s) + 2 /\ l[1] = a /\ l[2] = b
      /\ \A j \in 1..Len(s) : l[2 + j] = s[j]
  <2>1. /\ l \in Seq(U) /\ Len(l) = Len(<<a, b>>) + Len(s)
        /\ \A j \in 1..Len(<<a, b>>) : l[j] = <<a, b>>[j]
        /\ \A j \in 1..Len(s) : l[Len(<<a, b>>) + j] = s[j]
    BY <1>1, Concatenation
  <2>2. QED  BY <2>1, <1>1
<1>3. /\ <<b>> \o s \in Seq(U) /\ Len(<<b>> \o s) = Len(s) + 1
      /\ (<<b>> \o s)[1] = b
      /\ \A j \in 1..Len(s) : (<<b>> \o s)[1 + j] = s[j]
  BY <1>1
<1>4. /\ r \in Seq(U) /\ Len(r) = Len(s) + 2 /\ r[1] = a
      /\ \A j \in 1..Len(s) + 1 : r[1 + j] = (<<b>> \o s)[j]
  BY <1>1, <1>3
<1> HIDE DEF l, r
<1>5. ASSUME NEW j \in 1..Len(s) + 2
      PROVE  l[j] = r[j]
  <2>1. CASE j = 1
    BY <2>1, <1>2, <1>4
  <2>2. CASE j = 2
    <3>1. 1 \in 1..Len(s) + 1 /\ 1 + 1 = 2
      BY <1>1
    <3>2. r[2] = (<<b>> \o s)[1]
      BY <3>1, <1>4
    <3>3. QED  BY <2>2, <3>2, <1>2, <1>3
  <2>3. CASE j > 2
    <3>1. j - 2 \in 1..Len(s) /\ j - 1 \in 1..Len(s) + 1
          /\ 2 + (j - 2) = j /\ 1 + (j - 1) = j /\ 1 + (j - 2) = j - 1
      BY <2>3, <1>1
    <3>2. l[j] = s[j - 2]
      BY <3>1, <1>2
    <3>3. r[j] = (<<b>> \o s)[j - 1]
      BY <3>1, <1>4
    <3>4. (<<b>> \o s)[j - 1] = s[j - 2]
      BY <3>1, <1>3
    <3>5. QED  BY <3>2, <3>3, <3>4
  <2>4. QED  BY <2>1, <2>2, <2>3, <1>1
<1>6. l = r
  BY <1>2, <1>4, <1>5
<1>7. QED  BY <1>6 DEF l, r, Push

LEMMA CopyFits ==
  ASSUME ProgramFits, NEW C, NEW B, NEW K, Fits(C, B, K), ExeCOPYVAL
  PROVE  (\E C2, B2, K2 : Fits(C2, B2, K2))'
<1> DEFINE c == Current(C)
           i == Instruction(C)
<1>1. /\ HasItems(eval_stack, B[Depth], c.st)
      /\ B[Depth] \in Nat /\ c.st \in Seq(Kinds) /\ Len(c.st) \in Nat
  BY CurrentItems
<1>2. /\ i.op = "COPYVAL" /\ After(i, c) \subseteq Certified
      /\ Legal(Depth = 1, i, c)
  BY InstructionIsCertified DEF ExeCOPYVAL
<1>3. After(i, c) = {Pushing(c, 0, <<TopKind(c)>>)}
  BY <1>2 DEF After
<1>4. Len(c.st) > 0
  BY <1>2, <1>1 DEF Legal, Operands
<1>5. IsOfKind(Top, TopKind(c)) /\ TopKind(c) \in Kinds
  BY <1>1, <1>4, TopItem DEF Top, Item, TopKind
<1>6. Pushing(c, 0, <<TopKind(c)>>) \in Certified /\ Yields(0, Top)
  BY <1>2, <1>3 DEF ExeCOPYVAL
<1>7. 0 \in Nat /\ 0 <= Len(c.st)
  BY <1>1
<1> HIDE DEF c
<1>8. QED  BY <1>5, <1>6, <1>7, YieldsItem DEF c

LEMMA InsetFits ==
  ASSUME ProgramFits, NEW C, NEW B, NEW K, Fits(C, B, K), ExeINSET
  PROVE  (\E C2, B2, K2 : Fits(C2, B2, K2))'
<1> DEFINE c == Current(C)
           i == Instruction(C)
<1>1. /\ HasItems(eval_stack, B[Depth], c.st)
      /\ B[Depth] \in Nat /\ c.st \in Seq(Kinds) /\ Len(c.st) \in Nat
  BY CurrentItems
<1>2. /\ i.op = "INSET" /\ After(i, c) \subseteq Certified
      /\ Legal(Depth = 1, i, c)
  BY InstructionIsCertified DEF ExeINSET
<1>3. After(i, c) = {Pushing(c, 2, <<"OTHER">>)}
  BY <1>2 DEF After
<1>4. Len(c.st) >= 2
  BY <1>2, <1>1 DEF Legal, Operands
<1>5. /\ Pushing(c, 2, <<"OTHER">>) \in Certified
      /\ Yields(2, Bool(Item(2).v \in Top.v))
  BY <1>2, <1>3 DEF ExeINSET
<1>6. 2 \in Nat /\ 2 <= Len(c.st) /\ "OTHER" \in Kinds
  BY <1>4 DEF Kinds
<1>7. IsOfKind(Bool(Item(2).v \in Top.v), "OTHER")
  BY KindsOfValues
<1> HIDE DEF c
<1>8. QED  BY <1>5, <1>6, <1>7, YieldsItem DEF c

LEMMA LookupFits ==
  ASSUME ProgramFits, NEW C, NEW B, NEW K, Fits(C, B, K), ExeLOOKUP
  PROVE  (\E C2, B2, K2 : Fits(C2, B2, K2))'
<1> DEFINE c == Current(C)
           i == Instruction(C)
<1>1. /\ HasItems(eval_stack, B[Depth], c.st)
      /\ B[Depth] \in Nat /\ c.st \in Seq(Kinds) /\ Len(c.st) \in Nat
  BY CurrentItems
<1>2. i.op = "LOOKUP" /\ After(i, c) \subseteq Certified
  BY InstructionIsCertified DEF ExeLOOKUP
<1>3. After(i, c) = {Pushing(c, 0, <<"ANY">>)}
  BY <1>2 DEF After
<1>4. PICK val : Yields(0, val)
  BY DEF ExeLOOKUP
<1>5. Pushing(c, 0, <<"ANY">>) \in Certified
  BY <1>2, <1>3
<1>6. 0 \in Nat /\ 0 <= Len(c.st) /\ "ANY" \in Kinds
  BY <1>1 DEF Kinds
<1>7. IsOfKind(val, "ANY")
  BY KindsOfValues
<1> HIDE DEF c
<1>8. QED  BY <1>4, <1>5, <1>6, <1>7, YieldsItem DEF c

LEMMA BelowTopFits ==
  ASSUME ProgramFits, NEW C, NEW B, NEW K, Fits(C, B, K), ExeBelowTop
  PROVE  (\E C2, B2, K2 : Fits(C2, B2, K2))'
<1> DEFINE c == Current(C)
           i == Instruction(C)
<1>1. /\ HasItems(eval_stack, B[Depth], c.st)
      /\ B[Depth] \in Nat /\ c.st \in Seq(Kinds) /\ Len(c.st) \in Nat
  BY CurrentItems
<1>2. OnlyStack
  BY DEF ExeBelowTop
<1>3. CASE /\ Next_is("REMSTACKELEM")
           /\ Leaves(SubSeq(eval_stack, 1, arg - 1) \o Drop(arg, eval_stack), 0)
  <2> DEFINE rest == Without(i.arg, c) \o SubSeq(c.st, Len(c.st) - i.arg + 2, Len(c.st))
             stack == SubSeq(eval_stack, 1, i.arg - 1) \o Drop(i.arg, eval_stack)
  <2>1. /\ i.op = "REMSTACKELEM" /\ arg = i.arg /\ After(i, c) \subseteq Certified
        /\ Legal(Depth = 1, i, c)
    BY <1>3, InstructionIsCertified
  <2>2. After(i, c) = {Leaving(c, rest, 0)}
    BY <2>1 DEF After
  <2>3. i.arg \in Nat /\ i.arg > 0 /\ i.arg <= Len(c.st)
    BY <2>1 DEF Legal, Operands
  <2>4. HasItems(stack, B[Depth], rest) /\ SameUpTo(B[Depth], stack, eval_stack)
    <3>1. i.arg \in Nat \ {0}
      BY <2>3
    <3>2. QED  BY <1>1, <2>3, <3>1, RemovedItem DEF Without
  <2>5. Leaving(c, rest, 0) \in Certified
    BY <2>1, <2>2
  <2>6. Leaves(stack, 0)
    BY <1>3, <2>1
  <2> HIDE DEF rest, stack, c
  <2>7. QED  BY <1>2, <2>4, <2>5, <2>6, OnlyItemsChange DEF c
<1>4. CASE /\ Next_is("SWAP")
           /\ Leaves(<<Item(2), Top>> \o Drop(2, eval_stack), 0)
  <2> DEFINE second == c.st[Len(c.st) - 1]
             below == Drop(2, eval_stack)
             stack == Push(Item(2), Push(Top, below))
             st == Append(Append(Without(2, c), TopKind(c)), second)
  <2>1. /\ i.op = "SWAP" /\ After(i, c) \subseteq Certified
        /\ Legal(Depth = 1, i, c)
    BY <1>4, InstructionIsCertified
  <2>2. After(i, c) = {Pushing(c, 2, <<TopKind(c), second>>)}
    BY <2>1 DEF After
  <2>3. Len(c.st) >= 2
    BY <2>1, <1>1 DEF Legal, Operands
  <2>4. /\ IsOfKind(Top, TopKind(c)) /\ TopKind(c) \in Kinds
        /\ IsOfKind(Item(2), second) /\ second \in Kinds
    BY <1>1, <2>3, TopItem DEF Top, Item, TopKind
  <2>5. /\ HasItems(below, B[Depth], Without(2, c)) /\ Without(2, c) \in Seq(Kinds)
        /\ SameUpTo(B[Depth], below, eval_stack)
    BY <1>1, <2>3, DroppedItems DEF Without
  <2> HIDE DEF second, below
  <2>6. /\ HasItems(Push(Top, below), B[Depth], Append(Without(2, c), TopKind(c)))
        /\ Append(Without(2, c), TopKind(c)) \in Seq(Kinds)
        /\ SameUpTo(B[Depth], Push(Top, below), below)
    BY <1>1, <2>4, <2>5, PushedItem
  <2>7. /\ HasItems(stack, B[Depth], st)
        /\ SameUpTo(B[Depth], stack, Push(Top, below))
    BY <1>1, <2>4, <2>6, PushedItem
  <2>8. SameUpTo(B[Depth], stack, eval_stack)
    BY <2>5, <2>6, <2>7 DEF SameUpTo
  <2>9. Pushing(c, 2, <<TopKind(c), second>>) = Leaving(c, st, 0)
    BY <2>4, <2>5, AppendedTwo DEF Pushing
  <2>10. <<Item(2), Top>> \o below = stack
    <3>1. below \in Seq(Elements(below))
      BY <2>5 DEF HasItems, IsStack
    <3>2. QED  BY <3>1, PushedTwo
  <2>11. Leaves(stack, 0) /\ Leaving(c, st, 0) \in Certified
    BY <1>4, <2>1, <2>2, <2>9, <2>10 DEF below
  <2> HIDE DEF st, stack, c
  <2>12. QED  BY <1>2, <2>7, <2>8, <2>11, OnlyItemsChange DEF c
<1>5. QED  BY <1>3, <1>4 DEF ExeBelowTop

\* A test of the item on top, which is better known when it holds.
LEMMA TestFits ==
  ASSUME ProgramFits, NEW C, NEW B, NEW K, Fits(C, B, K),
         NEW kind \in Kinds, NEW sure, NEW answer \in BOOLEAN,
         Tested(Current(C), kind, sure) \subseteq Certified, Len(Current(C).st) > 0,
         answer => IsOfKind(Top, kind) /\ TopKind(Current(C)) \in {kind, "ANY"},
         ~answer => TopKind(Current(C)) # kind \/ ~sure,
         Yields(0, Bool(answer))
  PROVE  (\E C2, B2, K2 : Fits(C2, B2, K2))'
<1> DEFINE c == Current(C)
<1>1. /\ HasItems(eval_stack, B[Depth], c.st)
      /\ B[Depth] \in Nat /\ c.st \in Seq(Kinds) /\ Len(c.st) \in Nat
  BY CurrentItems
<1>2. CASE answer
  <2> DEFINE st == Append(Without(1, c), kind)
             st2 == Append(st, "TRUE")
             stack == Push(Bool(TRUE), eval_stack)
  <2>1. Without(1, c) \in Seq(Kinds)
    BY <1>1 DEF Without
  <2>2. HasItems(eval_stack, B[Depth], st) /\ st \in Seq(Kinds)
    BY <1>1, <1>2, RefinedTop DEF Without, Top, Item
  <2> HIDE DEF st
  <2>3. "TRUE" \in Kinds /\ IsOfKind(Bool(TRUE), "TRUE")
    BY KindsOfValues DEF Kinds
  <2>4. HasItems(stack, B[Depth], st2) /\ SameUpTo(B[Depth], stack, eval_stack)
    BY <1>1, <2>2, <2>3, PushedItem
  <2>5. Pushing(c, 1, <<kind, "TRUE">>) = Leaving(c, st2, 0)
    BY <2>1, <2>3, AppendedTwo DEF Pushing, st
  <2>6. Pushing(c, 1, <<kind, "TRUE">>) \in Certified
    BY <1>2 DEF Tested
  <2>7. Leaves(stack, 0) /\ OnlyStack
    <3>1. Bool(answer) = Bool(TRUE)
      BY <1>2 DEF Bool
    <3>2. eval_stack \in Seq(Elements(eval_stack))
      BY <1>1 DEF HasItems, IsStack
    <3>3. Drop(0, eval_stack) = eval_stack
      BY <3>2 DEF Drop
    <3>4. QED  BY <3>1, <3>3 DEF Yields
  <2> HIDE DEF st2, stack, c
  <2>8. QED  BY <2>4, <2>5, <2>6, <2>7, OnlyItemsChange DEF c
<1>3. CASE ~answer
  <2>1. Bool(answer) = Bool(FALSE)
    BY <1>3 DEF Bool
  <2>2. Yields(0, Bool(FALSE)) /\ IsOfKind(Bool(FALSE), "FALSE") /\ "FALSE" \in Kinds
    BY <2>1, KindsOfValues DEF Kinds
  <2>3. Pushing(c, 0, <<"FALSE">>) \in Certified
    BY <1>3 DEF Tested
  <2>4. 0 \in Nat /\ 0 <= Len(c.st)
    BY <1>1
  <2> HIDE DEF c
  <2>5. QED  BY <2>2, <2>3, <2>4, YieldsItem DEF c
<1>4. QED  BY <1>2, <1>3

LEMMA Dropped ==
  ASSUME NEW T, NEW s \in Seq(T), NEW n \in Nat, n <= Len(s)
  PROVE  /\ Drop(n, s) \in Seq(T)
         /\ Len(Drop(n, s)) = Len(s) - n
         /\ \A j \in 1..Len(s) - n : Drop(n, s)[j] = s[n + j]
BY DEF Drop

LEMMA SecondReplaced ==
  ASSUME NEW T, NEW s \in Seq(T), Len(s) >= 2, NEW val \in T
  PROVE  [s EXCEPT ![2] = val] = <<s[1], val>> \o Drop(2, s)
<1> DEFINE l == [s EXCEPT ![2] = val]
           t == Drop(2, s)
           r == <<s[1], val>> \o t
<1>1. l \in Seq(T) /\ Len(l) = Len(s) /\ \A j \in 1..Len(s) : l[j] = IF j = 2 THEN val ELSE s[j]
  OBVIOUS
<1>2. /\ t \in Seq(T) /\ Len(t) = Len(s) - 2
      /\ \A j \in 1..Len(s) - 2 : t[j] = s[2 + j]
  <2>1. 2 \in Nat /\ 2 <= Len(s)
    OBVIOUS
  <2>2. QED  BY <2>1, Dropped
<1> HIDE DEF l, t
<1>3. s[1] \in T /\ <<s[1], val>> \in Seq(T)
  OBVIOUS
<1>4. /\ r \in Seq(T) /\ Len(r) = Len(s) /\ r[1] = s[1] /\ r[2] = val
      /\ \A j \in 1..Len(s) - 2 : r[2 + j] = t[j]
  <2>1. /\ r \in Seq(T) /\ Len(r) = Len(<<s[1], val>>) + Len(t)
        /\ \A j \in 1..Len(<<s[1], val>>) : r[j] = <<s[1], val>>[j]
        /\ \A j \in 1..Len(t) : r[Len(<<s[1], val>>) + j] = t[j]
    BY <1>2, <1>3, Concatenation
  <2> HIDE DEF r
  <2>2. Len(<<s[1], val>>) = 2 /\ <<s[1], val>>[1] = s[1] /\ <<s[1], val>>[2] = val
    OBVIOUS
  <2>3. Len(s) \in Nat /\ Len(t) = Len(s) - 2 /\ 2 + Len(t) = Len(s)
    BY <1>2
  <2>4. r \in Seq(T) /\ Len(r) = Len(s) /\ \A j \in 1..Len(s) - 2 : r[2 + j] = t[j]
    BY <2>1, <2>2, <2>3
  <2>5. r[1] = <<s[1], val>>[1] /\ r[2] = <<s[1], val>>[2]
    BY <2>1, <2>2
  <2>6. QED  BY <2>2, <2>4, <2>5
<1> HIDE DEF r
<1>5. ASSUME NEW j \in 1..Len(s)
      PROVE  l[j] = r[j]
  <2>1. CASE j \in {1, 2}
    BY <2>1, <1>1, <1>4
  <2>2. CASE j > 2
    <3>1. j - 2 \in 1..Len(s) - 2 /\ 2 + (j - 2) = j /\ j # 2
      BY <2>2
    <3>2. r[j] = t[j - 2] /\ t[j - 2] = s[j]
      BY <3>1, <1>2, <1>4
    <3>3. QED  BY <3>1, <3>2, <1>1
  <2>3. QED  BY <2>1, <2>2
<1>6. l = r
  BY <1>1, <1>4, <1>5
<1>7. QED  BY <1>6 DEF l, r, t

LEMMA StatementValueFits ==
  ASSUME ProgramFits, NEW C, NEW B, NEW K, Fits(C, B, K), ExeStatementValue
  PROVE  (\E C2, B2, K2 : Fits(C2, B2, K2))'
<1> DEFINE c == Current(C)
           i == Instruction(C)
<1>1. /\ HasItems(eval_stack, B[Depth], c.st)
      /\ B[Depth] \in Nat /\ c.st \in Seq(Kinds) /\ Len(c.st) \in Nat
  BY CurrentItems
<1>2. CASE Next_is("ISCONT") /\ Yields(0, Bool(IsCont(Top)))
  <2>1. /\ i.op = "ISCONT" /\ After(i, c) \subseteq Certified
        /\ Legal(Depth = 1, i, c)
    BY <1>2, InstructionIsCertified
  <2>2. After(i, c) = Tested(c, "CONT", TRUE)
    BY <2>1 DEF After
  <2>3. Len(c.st) > 0
    BY <2>1, <1>1 DEF Legal, Operands
  <2>4. IsOfKind(Top, TopKind(c)) /\ TopKind(c) \in Kinds
    BY <1>1, <2>3, TopItem DEF Top, Item, TopKind
  <2>5. /\ IsCont(Top) => IsOfKind(Top, "CONT") /\ TopKind(c) \in {"CONT", "ANY"}
        /\ ~IsCont(Top) => TopKind(c) # "CONT" \/ ~TRUE
    BY <2>4, KindsOfItems DEF IsOfKind, IsNonEmptyExit
  <2>6. "CONT" \in Kinds /\ IsCont(Top) \in BOOLEAN
    BY DEF Kinds, IsCont, IsExit, IsNonEmptyExit
  <2>7. Tested(c, "CONT", TRUE) \subseteq Certified
    BY <2>1, <2>2
  <2> HIDE DEF c
  <2>8. QED  BY <1>2, <2>3, <2>5, <2>6, <2>7, TestFits DEF c
<1>3. CASE Next_is("ISEXIT") /\ Yields(0, Bool(IsExit(Top)))
  <2>1. /\ i.op = "ISEXIT" /\ After(i, c) \subseteq Certified
        /\ Legal(Depth = 1, i, c)
    BY <1>3, InstructionIsCertified
  <2>2. After(i, c) = Tested(c, "EXIT", TRUE)
    BY <2>1 DEF After
  <2>3. Len(c.st) > 0
    BY <2>1, <1>1 DEF Legal, Operands
  <2>4. IsOfKind(Top, TopKind(c)) /\ TopKind(c) \in Kinds
    BY <1>1, <2>3, TopItem DEF Top, Item, TopKind
  <2>5. /\ IsExit(Top) => IsOfKind(Top, "EXIT") /\ TopKind(c) \in {"EXIT", "ANY"}
        /\ ~IsExit(Top) => TopKind(c) # "EXIT" \/ ~TRUE
    BY <2>4, KindsOfItems DEF IsOfKind, IsNonEmptyExit
  <2>6. "EXIT" \in Kinds /\ IsExit(Top) \in BOOLEAN
    BY DEF Kinds, IsCont, IsExit, IsNonEmptyExit
  <2>7. Tested(c, "EXIT", TRUE) \subseteq Certified
    BY <2>1, <2>2
  <2> HIDE DEF c
  <2>8. QED  BY <1>3, <2>3, <2>5, <2>6, <2>7, TestFits DEF c
<1>4. CASE Next_is("ISNEEXIT") /\ Yields(0, Bool(IsNonEmptyExit(Top)))
  <2>1. /\ i.op = "ISNEEXIT" /\ After(i, c) \subseteq Certified
        /\ Legal(Depth = 1, i, c)
    BY <1>4, InstructionIsCertified
  <2>2. After(i, c) = Tested(c, "EXIT", FALSE)
    BY <2>1 DEF After
  <2>3. Len(c.st) > 0
    BY <2>1, <1>1 DEF Legal, Operands
  <2>4. IsOfKind(Top, TopKind(c)) /\ TopKind(c) \in Kinds
    BY <1>1, <2>3, TopItem DEF Top, Item, TopKind
  <2>5. /\ IsNonEmptyExit(Top) => IsOfKind(Top, "EXIT") /\ TopKind(c) \in {"EXIT", "ANY"}
        /\ ~IsNonEmptyExit(Top) => TopKind(c) # "EXIT" \/ ~FALSE
    BY <2>4, KindsOfItems DEF IsOfKind, IsNonEmptyExit
  <2>6. "EXIT" \in Kinds /\ IsNonEmptyExit(Top) \in BOOLEAN
    BY DEF Kinds, IsCont, IsExit, IsNonEmptyExit
  <2>7. Tested(c, "EXIT", FALSE) \subseteq Certified
    BY <2>1, <2>2
  <2> HIDE DEF c
  <2>8. QED  BY <1>4, <2>3, <2>5, <2>6, <2>7, TestFits DEF c
<1>5. CASE Next_is("MKEXIT") /\ arg /\ Yields(0, Exit(Nil))
  <2>1. /\ i.op = "MKEXIT" /\ arg = i.arg /\ After(i, c) \subseteq Certified
        /\ Legal(Depth = 1, i, c)
    BY <1>5, InstructionIsCertified
  <2>2. Pushing(c, 0, <<"EXIT">>) \in Certified
    <3>1. After(i, c) = {Pushing(c, 0, <<"EXIT">>)}
      BY <1>5, <2>1 DEF After
    <3>2. QED  BY <2>1, <3>1
  <2>3. 0 \in Nat /\ 0 <= Len(c.st)
    BY <1>5, <2>1, <1>1 DEF Legal, Operands
  <2>4. "EXIT" \in Kinds /\ IsOfKind(Exit(Nil), "EXIT")
    BY KindsOfValues DEF Kinds
  <2> HIDE DEF c
  <2>5. QED  BY <1>5, <2>2, <2>3, <2>4, YieldsItem DEF c
<1>6. CASE Next_is("MKEXIT") /\ ~arg /\ Yields(1, Exit(Top.v))
  <2>1. /\ i.op = "MKEXIT" /\ arg = i.arg /\ After(i, c) \subseteq Certified
        /\ Legal(Depth = 1, i, c)
    BY <1>6, InstructionIsCertified
  <2>2. Pushing(c, 1, <<"EXIT">>) \in Certified
    <3>1. After(i, c) = {Pushing(c, 1, <<"EXIT">>)}
      BY <1>6, <2>1 DEF After
    <3>2. QED  BY <2>1, <3>1
  <2>3. 1 \in Nat /\ 1 <= Len(c.st)
    BY <1>6, <2>1, <1>1 DEF Legal, Operands
  <2>4. "EXIT" \in Kinds /\ IsOfKind(Exit(Top.v), "EXIT")
    BY KindsOfValues DEF Kinds
  <2> HIDE DEF c
  <2>5. QED  BY <1>6, <2>2, <2>3, <2>4, YieldsItem DEF c
<1>7. CASE Next_is("REMEXITVAL") /\ Yields(0, Num(Top.v))
  <2>1. /\ i.op = "REMEXITVAL" /\ arg = i.arg /\ After(i, c) \subseteq Certified
        /\ Legal(Depth = 1, i, c)
    BY <1>7, InstructionIsCertified
  <2>2. Pushing(c, 0, <<"OTHER">>) \in Certified
    <3>1. After(i, c) = {Pushing(c, 0, <<"OTHER">>)}
      BY <1>7, <2>1 DEF After
    <3>2. QED  BY <2>1, <3>1
  <2>3. 0 \in Nat /\ 0 <= Len(c.st)
    BY <1>7, <2>1, <1>1 DEF Legal, Operands
  <2>4. "OTHER" \in Kinds /\ IsOfKind(Num(Top.v), "OTHER")
    BY KindsOfValues DEF Kinds
  <2> HIDE DEF c
  <2>5. QED  BY <1>7, <2>2, <2>3, <2>4, YieldsItem DEF c
<1>8. QED  BY <1>2, <1>3, <1>4, <1>5, <1>6, <1>7 DEF ExeStatementValue

LEMMA CounterFits ==
  ASSUME ProgramFits, NEW C, NEW B, NEW K, Fits(C, B, K), ExeCounter
  PROVE  (\E C2, B2, K2 : Fits(C2, B2, K2))'
<1> DEFINE c == Current(C)
           i == Instruction(C)
<1>1. /\ HasItems(eval_stack, B[Depth], c.st)
      /\ B[Depth] \in Nat /\ c.st \in Seq(Kinds) /\ Len(c.st) \in Nat
  BY CurrentItems
<1>2. CASE Next_is("TESTCOUNTER") /\ Yields(0, Bool(Item(2).v <= Item(3).v))
  <2>1. /\ i.op = "TESTCOUNTER" /\ arg = i.arg /\ After(i, c) \subseteq Certified
        /\ Legal(Depth = 1, i, c)
    BY <1>2, InstructionIsCertified
  <2>2. Pushing(c, 0, <<"OTHER">>) \in Certified
    <3>1. After(i, c) = {Pushing(c, 0, <<"OTHER">>)}
      BY <1>2, <2>1 DEF After
    <3>2. QED  BY <2>1, <3>1
  <2>3. 0 \in Nat /\ 0 <= Len(c.st)
    BY <1>2, <2>1, <1>1 DEF Legal, Operands
  <2>4. "OTHER" \in Kinds /\ IsOfKind(Bool(Item(2).v <= Item(3).v), "OTHER")
    BY KindsOfValues DEF Kinds
  <2> HIDE DEF c
  <2>5. QED  BY <1>2, <2>2, <2>3, <2>4, YieldsItem DEF c
<1>3. CASE /\ Next_is("INCRCOUNTER")
           /\ Leaves([eval_stack EXCEPT ![2] = Num(@.v + Item(4).v)], 0)
           /\ OnlyStack
  <2> DEFINE counter == Num(eval_stack[2].v + Item(4).v)
             below == Drop(2, eval_stack)
             stack == Push(Top, Push(counter, below))
             st == Append(Append(Without(2, c), "OTHER"), TopKind(c))
  <2>1. /\ i.op = "INCRCOUNTER" /\ After(i, c) \subseteq Certified
        /\ Legal(Depth = 1, i, c)
    BY <1>3, InstructionIsCertified
  <2>2. After(i, c) = {Pushing(c, 2, <<"OTHER", TopKind(c)>>)}
    BY <2>1 DEF After
  <2>3. Len(c.st) >= 4
    BY <2>1, <1>1 DEF Legal, Operands
  <2>4. IsOfKind(Top, TopKind(c)) /\ TopKind(c) \in Kinds
    BY <1>1, <2>3, TopItem DEF Top, Item, TopKind
  <2>5. /\ HasItems(below, B[Depth], Without(2, c)) /\ Without(2, c) \in Seq(Kinds)
        /\ SameUpTo(B[Depth], below, eval_stack)
    <3>1. 2 \in Nat /\ 2 <= Len(c.st)
      BY <1>1, <2>3
    <3>2. QED  BY <1>1, <3>1, DroppedItems DEF Without
  <2>6. IsOfKind(counter, "OTHER") /\ "OTHER" \in Kinds
    BY KindsOfValues DEF Kinds
  <2>7. [eval_stack EXCEPT ![2] = Num(@.v + Item(4).v)] = stack
    <3> DEFINE T == Elements(eval_stack) \cup {counter}
    <3>1. eval_stack \in Seq(Elements(eval_stack)) /\ Len(eval_stack) >= 2
      BY <1>1, <2>3 DEF HasItems, IsStack
    <3>2. eval_stack \in Seq(T) /\ counter \in T /\ Top \in T
      BY <3>1 DEF Top, Item
    <3>3. below \in Seq(T)
      BY <3>1, <3>2 DEF Drop
    <3>4. [eval_stack EXCEPT ![2] = Num(@.v + Item(4).v)] = [eval_stack EXCEPT ![2] = counter]
      OBVIOUS
    <3> HIDE DEF counter, T
    <3>5. <<Top, counter>> \o below = stack
      BY <3>3, PushedTwo
    <3>6. [eval_stack EXCEPT ![2] = counter] = <<Top, counter>> \o below
      BY <3>1, <3>2, SecondReplaced DEF Top, Item
    <3>7. QED  BY <3>4, <3>5, <3>6
  <2> HIDE DEF counter, below
  <2>8. /\ HasItems(Push(counter, below), B[Depth], Append(Without(2, c), "OTHER"))
        /\ Append(Without(2, c), "OTHER") \in Seq(Kinds)
        /\ SameUpTo(B[Depth], Push(counter, below), below)
    BY <1>1, <2>5, <2>6, PushedItem
  <2>9. /\ HasItems(stack, B[Depth], st)
        /\ SameUpTo(B[Depth], stack, Push(counter, below))
    BY <1>1, <2>4, <2>8, PushedItem
  <2>10. SameUpTo(B[Depth], stack, eval_stack)
    BY <2>5, <2>8, <2>9 DEF SameUpTo
  <2>11. Pushing(c, 2, <<"OTHER", TopKind(c)>>) = Leaving(c, st, 0)
    BY <2>4, <2>5, <2>6, AppendedTwo DEF Pushing
  <2>12. Leaves(stack, 0) /\ OnlyStack /\ Leaving(c, st, 0) \in Certified
    BY <1>3, <2>1, <2>2, <2>7, <2>11
  <2> HIDE DEF st, stack, c
  <2>13. QED  BY <2>9, <2>10, <2>12, OnlyItemsChange DEF c
<1>4. QED  BY <1>2, <1>3 DEF ExeCounter

LEMMA MatchFits ==
  ASSUME ProgramFits, NEW C, NEW B, NEW K, Fits(C, B, K), ExeTRYANYMATCH
  PROVE  (\E C2, B2, K2 : Fits(C2, B2, K2))'
<1> DEFINE c == Current(C)
           i == Instruction(C)
<1>1. /\ HasItems(eval_stack, B[Depth], c.st)
      /\ B[Depth] \in Nat /\ c.st \in Seq(Kinds) /\ Len(c.st) \in Nat
  BY CurrentItems
<1> DEFINE tried == Drop(2, eval_stack)
<1>2. /\ i.op = "TRYANYMATCH" /\ After(i, c) \subseteq Certified
      /\ Legal(Depth = 1, i, c)
  BY InstructionIsCertified DEF ExeTRYANYMATCH
<1>3. After(i, c) = {Pushing(c, 2, <<"FALSE">>), Pushing(c, 2, <<"OTHER", "TRUE">>)}
  BY <1>2 DEF After
<1>4. Len(c.st) >= 2
  BY <1>2, <1>1 DEF Legal, Operands
<1>5. /\ HasItems(tried, B[Depth], Without(2, c)) /\ Without(2, c) \in Seq(Kinds)
      /\ SameUpTo(B[Depth], tried, eval_stack)
  BY <1>1, <1>4, DroppedItems DEF Without
<1>6. PICK envs : \/ Leaves(Push(Bool(FALSE), tried), 0)
                  \/ Leaves(<<Bool(TRUE), Value("ENVS", envs)>> \o tried, 0)
  BY DEF ExeTRYANYMATCH
<1>7. OnlyStack
  BY DEF ExeTRYANYMATCH
<1>8. CASE Leaves(Push(Bool(FALSE), tried), 0)
  <2>1. Yields(2, Bool(FALSE))
    BY <1>7, <1>8 DEF Yields
  <2>2. Pushing(c, 2, <<"FALSE">>) \in Certified
    BY <1>2, <1>3
  <2>3. 2 \in Nat /\ 2 <= Len(c.st) /\ "FALSE" \in Kinds /\ IsOfKind(Bool(FALSE), "FALSE")
    BY <1>4, KindsOfValues DEF Kinds
  <2> HIDE DEF c
  <2>4. QED  BY <2>1, <2>2, <2>3, YieldsItem DEF c
<1>9. CASE Leaves(<<Bool(TRUE), Value("ENVS", envs)>> \o tried, 0)
  <2> DEFINE match == Value("ENVS", envs)
             stack == Push(Bool(TRUE), Push(match, tried))
             st == Append(Append(Without(2, c), "OTHER"), "TRUE")
  <2>1. /\ IsOfKind(match, "OTHER") /\ "OTHER" \in Kinds
        /\ IsOfKind(Bool(TRUE), "TRUE") /\ "TRUE" \in Kinds
    BY KindsOfValues DEF Kinds
  <2> HIDE DEF match
  <2> HIDE DEF tried
  <2>2. /\ HasItems(Push(match, tried), B[Depth], Append(Without(2, c), "OTHER"))
        /\ Append(Without(2, c), "OTHER") \in Seq(Kinds)
        /\ SameUpTo(B[Depth], Push(match, tried), tried)
    BY <1>1, <1>5, <2>1, PushedItem
  <2>3. /\ HasItems(stack, B[Depth], st)
        /\ SameUpTo(B[Depth], stack, Push(match, tried))
    BY <1>1, <2>1, <2>2, PushedItem
  <2>4. SameUpTo(B[Depth], stack, eval_stack)
    BY <1>5, <2>2, <2>3 DEF SameUpTo
  <2>5. Pushing(c, 2, <<"OTHER", "TRUE">>) = Leaving(c, st, 0)
    BY <1>5, <2>1, AppendedTwo DEF Pushing
  <2>6. <<Bool(TRUE), match>> \o tried = stack
    <3>1. tried \in Seq(Elements(tried))
      BY <1>5 DEF HasItems, IsStack
    <3>2. QED  BY <3>1, PushedTwo
  <2>7. Leaves(stack, 0) /\ Leaving(c, st, 0) \in Certified
    BY <1>9, <1>2, <1>3, <2>5, <2>6 DEF match
  <2> HIDE DEF st, stack, c
  <2>8. QED  BY <1>7, <2>3, <2>4, <2>7, OnlyItemsChange DEF c
<1>10. QED  BY <1>6, <1>8, <1>9

-----------------------------------------------------------------------------
(* Steps that change the environments or the traps of an operation.          *)

LEMMA DepthTyped ==
  ASSUME NEW C, NEW B, NEW K, Fits(C, B, K)
  PROVE  Depth \in Nat \ {0} /\ Depth \in 1..Depth
<1>1. Depth \in Nat \ {0}
  BY FitTypes
<1>2. QED  BY <1>1

\* The block environments of the operation that is executed.
LEMMA CurrentBlocks ==
  ASSUME NEW C, NEW B, NEW K, Fits(C, B, K)
  PROVE  /\ IsStack(Head(env_l)) /\ Len(Head(env_l)) = Current(C).en
         /\ Current(C).en \in Nat
         /\ IsStack(Tail(env_l)) /\ Len(Tail(env_l)) = Depth - 1
         /\ \A d \in 1..Depth - 1 : At(Tail(env_l), d) = At(env_l, d)
<1>1. Depth \in Nat \ {0} /\ Depth \in 1..Depth
  BY DepthTyped
<1>2. /\ IsStack(env_l) /\ Len(env_l) = Depth
      /\ IsStack(At(env_l, Depth)) /\ Len(At(env_l, Depth)) = Current(C).en
  BY <1>1 DEF Fits, EnvironmentsFit, Current
<1>3. env_l # <<>>
  BY <1>1, <1>2
<1>4. Head(env_l) = At(env_l, Depth) /\ Tail(env_l) = Drop(1, env_l)
  BY <1>2, <1>3, TopOfStack
<1>5. 1 \in Nat /\ 1 <= Len(env_l)
  BY <1>1, <1>2
<1>6. /\ IsStack(Drop(1, env_l)) /\ Len(Drop(1, env_l)) = Len(env_l) - 1
      /\ \A d \in 1..Len(env_l) - 1 : At(Drop(1, env_l), d) = At(env_l, d)
  BY <1>2, <1>5, DroppedStack
<1>7. Current(C).en \in Nat
  BY <1>1, FitTypes DEF Current
<1>8. QED  BY <1>2, <1>4, <1>6, <1>7

\* An instruction that gives its operation other block environments.
LEMMA BlocksChange ==
  ASSUME ProgramFits, NEW C, NEW B, NEW K, Fits(C, B, K),
         NEW st, NEW en, NEW aftermath,
         WithBlocks(Current(C), st, en, aftermath) \in Certified,
         NEW stack, HasItems(stack, B[Depth], st), SameUpTo(B[Depth], stack, eval_stack),
         NEW blocks, IsStack(blocks), Len(blocks) = en,
         Leaves(stack, 0), InEnv(blocks), OnlyEnv,
         AftermathAfter(Current(C), WithBlocks(Current(C), st, en, aftermath))
  PROVE  (\E C2, B2, K2 : Fits(C2, B2, K2))'
<1> DEFINE c2 == WithBlocks(Current(C), st, en, aftermath)
<1>1. Depth \in Nat \ {0} /\ Depth \in 1..Depth
  BY DepthTyped
<1>2. /\ c2.pc = Current(C).pc + 1 /\ c2.st = st /\ c2.en = en /\ c2.tr = Current(C).tr
  BY DEF WithBlocks, Config
<1>3. c2 \in Certified /\ AftermathAfter(Current(C), c2)
  OBVIOUS
<1> HIDE DEF c2
<1>4. Current(C).pc = pc /\ Current(C).pc \in Int
  <2>1. Current(C).pc = pc
    BY DEF Fits, OperationsFit, Current
  <2>2. Current(C) \in Configs(CodeAt(Depth))
    BY <1>1 DEF Fits, OperationsFit, WellFormed, Current
  <2>3. QED  BY <2>1, <2>2 DEF Configs
<1>5. pc' = c2.pc /\ eval_stack' = stack
  BY <1>2, <1>4 DEF Leaves
<1>6. UNCHANGED <<programs, call_stack>> /\ UNCHANGED trap_stack
  BY DEF OnlyEnv
<1>7. EnvironmentsAfter(Depth, c2)
  <2>1. /\ IsStack(Tail(env_l)) /\ Len(Tail(env_l)) = Depth - 1
        /\ \A d \in 1..Depth - 1 : At(Tail(env_l), d) = At(env_l, d)
    BY CurrentBlocks
  <2>2. env_l' = Push(blocks, Tail(env_l))
    BY DEF InEnv
  <2>3. /\ IsStack(Push(blocks, Tail(env_l)))
        /\ Len(Push(blocks, Tail(env_l))) = Len(Tail(env_l)) + 1
        /\ At(Push(blocks, Tail(env_l)), Len(Tail(env_l)) + 1) = blocks
        /\ \A d \in 1..Len(Tail(env_l)) : At(Push(blocks, Tail(env_l)), d) = At(Tail(env_l), d)
    <3> DEFINE below == Tail(env_l)
    <3>1. IsStack(below)
      BY <2>1
    <3> HIDE DEF below
    <3>2. /\ IsStack(Push(blocks, below)) /\ Len(Push(blocks, below)) = Len(below) + 1
          /\ At(Push(blocks, below), Len(below) + 1) = blocks
      BY <3>1, PushedStack
    <3>3. \A d \in 1..Len(below) : At(Push(blocks, below), d) = At(below, d)
      BY <3>1, PushedStack
    <3>4. QED  BY <3>2, <3>3 DEF below
  <2>4. Depth - 1 + 1 = Depth
    BY <1>1
  <2>5. IsStack(env_l') /\ Len(env_l') = Depth /\ At(env_l', Depth) = blocks
    BY <2>1, <2>2, <2>3, <2>4
  <2>6. SameUpTo(Depth - 1, env_l', env_l)
    BY <2>1, <2>2, <2>3 DEF SameUpTo
  <2>7. QED  BY <2>5, <2>6, <1>2 DEF EnvironmentsAfter
<1>8. TrapsAfter(K, Depth, c2, B[Depth])
  BY <1>2, <1>6, TrapsStay
<1>9. ItemsAfter(B, Depth, c2, B[Depth])
  <2>1. B[Depth] \in Nat
    BY CurrentItems
  <2>2. QED  BY <2>1, <1>2, <1>5 DEF ItemsAfter
<1>10. QED  BY <1>3, <1>5, <1>6, <1>7, <1>8, <1>9, StaysInOperation

LEMMA BlocksFit ==
  ASSUME ProgramFits, NEW C, NEW B, NEW K, Fits(C, B, K),
         ExeEMPTYBLKENV \/ ExePOPBLKENV \/ ExeSELBLKENV
  PROVE  (\E C2, B2, K2 : Fits(C2, B2, K2))'
<1> DEFINE c == Current(C)
           i == Instruction(C)
<1>1. /\ HasItems(eval_stack, B[Depth], c.st)
      /\ SameUpTo(B[Depth], eval_stack, eval_stack)
  BY CurrentItems DEF SameUpTo
<1>2. IsStack(Head(env_l)) /\ Len(Head(env_l)) = c.en /\ c.en \in Nat
  BY CurrentBlocks
<1>3. ASSUME NEW en, NEW blocks, IsStack(blocks), Len(blocks) = en,
             WithBlocks(c, c.st, en, c.aftermath) \in Certified,
             Leaves(eval_stack, 0), InEnv(blocks), OnlyEnv, UNCHANGED strayed
      PROVE  (\E C2, B2, K2 : Fits(C2, B2, K2))'
  <2>1. AftermathAfter(c, WithBlocks(c, c.st, en, c.aftermath))
    BY <1>3 DEF AftermathAfter, WithBlocks, Config
  <2>2. QED  BY <1>1, <1>3, <2>1, BlocksChange
<1>4. CASE ExeEMPTYBLKENV
  <2>1. i.op = "EMPTYBLKENV" /\ After(i, c) \subseteq Certified
    BY <1>4, InstructionIsCertified DEF ExeEMPTYBLKENV
  <2>2. After(i, c) = {WithBlocks(c, c.st, c.en + 1, c.aftermath)}
    BY <2>1 DEF After
  <2>3. /\ IsStack(Push(EmptyBlkEnv, Head(env_l)))
        /\ Len(Push(EmptyBlkEnv, Head(env_l))) = c.en + 1
    BY <1>2, PushedStack
  <2>4. QED  BY <1>3, <1>4, <2>1, <2>2, <2>3 DEF ExeEMPTYBLKENV
<1>5. CASE ExeSELBLKENV
  <2>1. i.op = "SELBLKENV" /\ After(i, c) \subseteq Certified
    BY <1>5, InstructionIsCertified DEF ExeSELBLKENV
  <2>2. After(i, c) = {WithBlocks(c, c.st, c.en + 1, c.aftermath)}
    BY <2>1 DEF After
  <2>3. /\ IsStack(Push(Top.v, Head(env_l)))
        /\ Len(Push(Top.v, Head(env_l))) = c.en + 1
    BY <1>2, PushedStack
  <2>4. QED  BY <1>3, <1>5, <2>1, <2>2, <2>3 DEF ExeSELBLKENV
<1>6. CASE ExePOPBLKENV
  <2>1. /\ i.op = "POPBLKENV" /\ After(i, c) \subseteq Certified
        /\ Legal(Depth = 1, i, c)
    BY <1>6, InstructionIsCertified DEF ExePOPBLKENV
  <2>2. After(i, c) = {WithBlocks(c, c.st, c.en - 1, c.aftermath)}
    BY <2>1 DEF After
  <2>3. c.en > 0
    BY <2>1 DEF Legal
  <2>4. Head(env_l) # <<>>
    BY <1>2, <2>3
  <2>5. 1 \in Nat /\ 1 <= Len(Head(env_l)) /\ Tail(Head(env_l)) = Drop(1, Head(env_l))
    <3>1. Tail(Head(env_l)) = Drop(1, Head(env_l))
      BY <1>2, <2>4, TopOfStack
    <3>2. QED  BY <3>1, <1>2, <2>3
  <2>6. /\ IsStack(Tail(Head(env_l)))
        /\ Len(Tail(Head(env_l))) = c.en - 1
    BY <1>2, <2>5, DroppedStack
  <2>7. QED  BY <1>3, <1>6, <2>1, <2>2, <2>6 DEF ExePOPBLKENV
<1>7. QED  BY <1>4, <1>5, <1>6

\* An exit that is taken for a value is no aftermath any more.
LEMMA Strays ==
  ASSUME ProgramFits, NEW C, NEW B, NEW K, Fits(C, B, K),
         Len(Current(C).st) > 0,
         Current(C).aftermath => TopKind(Current(C)) = "EXIT",
         strayed' = (strayed \/ IsExit(Top)), NEW c2, c2.aftermath = FALSE
  PROVE  AftermathAfter(Current(C), c2)
<1>1. /\ HasItems(eval_stack, B[Depth], Current(C).st)
      /\ B[Depth] \in Nat /\ Current(C).st \in Seq(Kinds)
  BY CurrentItems
<1>2. IsOfKind(Top, TopKind(Current(C))) /\ TopKind(Current(C)) \in Kinds
  BY <1>1, TopItem DEF Top, Item, TopKind
<1>3. Current(C).aftermath => IsExit(Top)
  BY <1>2, KindsOfItems
<1>4. Current(C).aftermath \in BOOLEAN
  BY CurrentItems, DepthTyped, CertifiedIsWellFormed DEF Certified, CurrentCode
<1>5. QED  BY <1>3, <1>4 DEF AftermathAfter

LEMMA AppendFits ==
  ASSUME ProgramFits, NEW C, NEW B, NEW K, Fits(C, B, K), ExeAPPENDBLKENV
  PROVE  (\E C2, B2, K2 : Fits(C2, B2, K2))'
<1> DEFINE c == Current(C)
           i == Instruction(C)
           c2 == WithBlocks(c, Without(1, c), c.en, FALSE)
           blocks == Push(BlkEnv(Top), Tail(Head(env_l)))
<1>1. /\ HasItems(eval_stack, B[Depth], c.st)
      /\ B[Depth] \in Nat /\ c.st \in Seq(Kinds) /\ Len(c.st) \in Nat
  BY CurrentItems
<1>2. /\ i.op = "APPENDBLKENV" /\ After(i, c) \subseteq Certified
      /\ Legal(Depth = 1, i, c)
  BY InstructionIsCertified DEF ExeAPPENDBLKENV
<1>3. After(i, c) = {c2}
  BY <1>2 DEF After
<1>4. Len(c.st) > 0 /\ c.en > 0 /\ (c.aftermath => TopKind(c) = "EXIT")
  BY <1>1, <1>2 DEF Legal, Operands
<1>5. /\ HasItems(Drop(1, eval_stack), B[Depth], Without(1, c))
      /\ SameUpTo(B[Depth], Drop(1, eval_stack), eval_stack)
  <2>1. 1 \in Nat /\ 1 <= Len(c.st)
    BY <1>1, <1>4
  <2>2. QED  BY <1>1, <2>1, DroppedItems DEF Without
<1>6. IsStack(blocks) /\ Len(blocks) = c.en
  <2>1. IsStack(Head(env_l)) /\ Len(Head(env_l)) = c.en /\ c.en \in Nat
    BY CurrentBlocks
  <2>2. Head(env_l) # <<>>
    BY <1>4, <2>1
  <2>3. 1 \in Nat /\ 1 <= Len(Head(env_l)) /\ Tail(Head(env_l)) = Drop(1, Head(env_l))
    <3>1. Tail(Head(env_l)) = Drop(1, Head(env_l))
      BY <2>1, <2>2, TopOfStack
    <3>2. QED  BY <3>1, <1>4, <2>1
  <2>4. /\ IsStack(Tail(Head(env_l)))
        /\ Len(Tail(Head(env_l))) = c.en - 1
    BY <2>1, <2>3, DroppedStack
  <2>5. IsStack(blocks) /\ Len(blocks) = c.en - 1 + 1
    BY <2>4, PushedStack
  <2>6. QED  BY <2>1, <2>5
<1>7. AftermathAfter(c, c2)
  <2>1. c2.aftermath = FALSE
    BY DEF WithBlocks, Config
  <2>2. strayed' = (strayed \/ IsExit(Top))
    BY DEF ExeAPPENDBLKENV
  <2> HIDE DEF c, c2
  <2>3. QED  BY <1>4, <2>1, <2>2, Strays DEF c
<1>8. Leaves(Drop(1, eval_stack), 0) /\ InEnv(blocks) /\ OnlyEnv
  BY DEF ExeAPPENDBLKENV
<1>9. c2 \in Certified
  BY <1>2, <1>3
<1> HIDE DEF blocks
<1>10. QED  BY <1>5, <1>6, <1>7, <1>8, <1>9, BlocksChange

LEMMA AssignFits ==
  ASSUME ProgramFits, NEW C, NEW B, NEW K, Fits(C, B, K), ExeASSIGNSD
  PROVE  (\E C2, B2, K2 : Fits(C2, B2, K2))'
<1> DEFINE c == Current(C)
           i == Instruction(C)
           st == Append(Without(1, c), "CONT")
           c2 == WithBlocks(c, st, c.en, FALSE)
           stack == Push(Cont, Drop(1, eval_stack))
<1>1. /\ HasItems(eval_stack, B[Depth], c.st)
      /\ B[Depth] \in Nat /\ c.st \in Seq(Kinds) /\ Len(c.st) \in Nat
  BY CurrentItems
<1>2. /\ i.op = "ASSIGNSD" /\ After(i, c) \subseteq Certified
      /\ Legal(Depth = 1, i, c)
  BY InstructionIsCertified DEF ExeASSIGNSD
<1>3. Len(c.st) > 0 /\ (c.aftermath => TopKind(c) = "EXIT")
  BY <1>1, <1>2 DEF Legal, Operands
<1>4. /\ HasItems(Drop(1, eval_stack), B[Depth], Without(1, c))
      /\ Without(1, c) \in Seq(Kinds)
      /\ SameUpTo(B[Depth], Drop(1, eval_stack), eval_stack)
  <2>1. 1 \in Nat /\ 1 <= Len(c.st)
    BY <1>1, <1>3
  <2>2. QED  BY <1>1, <2>1, DroppedItems DEF Without
<1>5. IsOfKind(Cont, "CONT") /\ "CONT" \in Kinds
  BY KindsOfValues DEF Kinds
<1>6. After(i, c) = {c2}
  BY <1>2, <1>4, <1>5, AppendedKind DEF After
<1>7. HasItems(stack, B[Depth], st) /\ SameUpTo(B[Depth], stack, Drop(1, eval_stack))
  BY <1>1, <1>4, <1>5, PushedItem
<1>8. SameUpTo(B[Depth], stack, eval_stack)
  BY <1>4, <1>7 DEF SameUpTo
<1>9. c2 \in Certified
  BY <1>2, <1>6
<1>10. /\ c2.pc = c.pc + 1 /\ c2.st = st /\ c2.en = c.en /\ c2.tr = c.tr /\ c2.aftermath = FALSE
  BY DEF WithBlocks, Config
<1>11. /\ pc' = pc + 1 + 0 /\ eval_stack' = stack /\ strayed' = (strayed \/ IsExit(Top))
       /\ UNCHANGED <<programs, call_stack>> /\ UNCHANGED env_l /\ UNCHANGED trap_stack
  BY DEF ExeASSIGNSD, Leaves
<1> HIDE DEF st, stack, c2
<1>12. AftermathAfter(c, c2)
  BY <1>3, <1>10, <1>11, Strays
<1>13. pc' = c2.pc
  <2>1. c.pc = pc
    BY DEF Fits, OperationsFit, Current
  <2>2. c \in Configs(CodeAt(Depth))
    BY DepthTyped DEF Fits, OperationsFit, WellFormed, Current
  <2>3. c.pc \in Int
    BY <2>2 DEF Configs
  <2>4. QED  BY <2>1, <2>3, <1>10, <1>11
<1>14. EnvironmentsAfter(Depth, c2)
  BY <1>10, <1>11, EnvironmentsStay
<1>15. TrapsAfter(K, Depth, c2, B[Depth])
  BY <1>10, <1>11, TrapsStay
<1>16. ItemsAfter(B, Depth, c2, B[Depth])
  BY <1>1, <1>7, <1>8, <1>10, <1>11 DEF ItemsAfter
<1>17. QED  BY <1>9, <1>11, <1>12, <1>13, <1>14, <1>15, <1>16, StaysInOperation

\* What the traps of an operation keep.
LEMMA TrapsTyped ==
  ASSUME NEW C, NEW B, NEW K, Fits(C, B, K), NEW d \in 1..Depth,
         NEW j \in 1..Len(C[d].tr)
  PROVE  /\ C[d].tr[j].items \in Nat /\ C[d].tr[j].items <= Len(C[d].st)
         /\ C[d].tr[j].blocks \in Nat /\ C[d].tr[j].blocks <= C[d].en
         /\ C[d].tr[j].id \in HandlerIds(CodeAt(d))
         /\ C[d].aftermath = FALSE
<1>1. WellFormed(Certificate(CodeAt(d)), CodeAt(d), C[d])
  BY DEF Fits, OperationsFit
<1>2. C[d] \in Configs(CodeAt(d)) /\ TrapsAreKept(C[d])
  BY <1>1 DEF WellFormed
<1>3. /\ C[d].tr \in Seq([id : HandlerIds(CodeAt(d)), items : Nat, blocks : Nat])
      /\ C[d].aftermath \in BOOLEAN
  BY <1>2 DEF Configs
<1>4. j \in DOMAIN C[d].tr
  BY <1>3
<1> DEFINE T == [id : HandlerIds(CodeAt(d)), items : Nat, blocks : Nat]
<1>5. C[d].tr \in Seq(T)
  BY <1>3
<1> HIDE DEF T
<1>6. C[d].tr[j] \in T
  BY <1>5
<1>7. C[d].tr[j] \in [id : HandlerIds(CodeAt(d)), items : Nat, blocks : Nat]
  BY <1>6 DEF T
<1>8. C[d].tr[j].items <= Len(C[d].st) /\ C[d].tr[j].blocks <= C[d].en
  BY <1>2, <1>4 DEF TrapsAreKept
<1>9. C[d].tr # <<>>
  BY <1>3, <1>4
<1>10. C[d].aftermath = FALSE
  BY <1>2, <1>3, <1>9 DEF TrapsAreKept
<1>11. QED  BY <1>7, <1>8, <1>10

\* An instruction that sets or removes a trap.
LEMMA TrapsChange ==
  ASSUME ProgramFits, NEW C, NEW B, NEW K, Fits(C, B, K),
         NEW tr, WithTraps(Current(C), tr) \in Certified,
         UNCHANGED <<programs, call_stack>>, UNCHANGED env_l, Leaves(eval_stack, 0),
         UNCHANGED strayed,
         IsStack(trap_stack'), Len(trap_stack') = K[Depth] + Len(tr),
         SameUpTo(K[Depth], trap_stack', trap_stack),
         \A j \in 1..Len(tr) : At(trap_stack', K[Depth] + j) = TrapAt(tr[j], Depth, B[Depth])
  PROVE  (\E C2, B2, K2 : Fits(C2, B2, K2))'
<1> DEFINE c == Current(C)
           c2 == WithTraps(c, tr)
<1>1. /\ c2.pc = c.pc + 1 /\ c2.st = c.st /\ c2.en = c.en /\ c2.tr = tr
      /\ c2.aftermath = c.aftermath
  BY DEF WithTraps, Config
<1>2. pc' = pc + 1 + 0 /\ eval_stack' = eval_stack /\ strayed' = strayed
  BY DEF Leaves
<1>3. c2 \in Certified
  OBVIOUS
<1> HIDE DEF c2
<1>4. AftermathAfter(c, c2)
  BY <1>1, <1>2 DEF AftermathAfter
<1>5. pc' = c2.pc
  <2>1. c.pc = pc
    BY DEF Fits, OperationsFit, Current
  <2>2. c \in Configs(CodeAt(Depth))
    BY DepthTyped DEF Fits, OperationsFit, WellFormed, Current
  <2>3. c.pc \in Int
    BY <2>2 DEF Configs
  <2>4. QED  BY <2>1, <2>3, <1>1, <1>2
<1>6. EnvironmentsAfter(Depth, c2)
  BY <1>1, EnvironmentsStay
<1>7. TrapsAfter(K, Depth, c2, B[Depth])
  BY <1>1 DEF TrapsAfter
<1>8. ItemsAfter(B, Depth, c2, B[Depth])
  <2>1. HasItems(eval_stack, B[Depth], c.st) /\ B[Depth] \in Nat
    BY CurrentItems
  <2>2. QED  BY <2>1, <1>1, <1>2 DEF ItemsAfter, SameUpTo
<1>9. QED  BY <1>3, <1>4, <1>5, <1>6, <1>7, <1>8, StaysInOperation

\* The traps of the operation that is executed.
LEMMA CurrentTraps ==
  ASSUME NEW C, NEW B, NEW K, Fits(C, B, K)
  PROVE  /\ IsStack(trap_stack) /\ Len(trap_stack) = K[Depth] + Len(Current(C).tr)
         /\ \A j \in 1..Len(Current(C).tr) :
              At(trap_stack, K[Depth] + j) = TrapAt(Current(C).tr[j], Depth, B[Depth])
         /\ K[Depth] \in Nat
         /\ \E T : Current(C).tr \in Seq(T)
<1>1. Depth \in 1..Depth
  BY DepthTyped
<1>2. K[Depth] \in Nat
  BY <1>1, FitTypes
<1>3. C[Depth] \in Configs(CodeAt(Depth))
  BY <1>1 DEF Fits, OperationsFit, WellFormed
<1>4. C[Depth].tr \in Seq([id : HandlerIds(CodeAt(Depth)), items : Nat, blocks : Nat])
  BY <1>3 DEF Configs
<1>5. \A j \in 1..Len(Current(C).tr) :
        At(trap_stack, K[Depth] + j) = TrapAt(Current(C).tr[j], Depth, B[Depth])
  BY <1>1 DEF Fits, TrapsFit, Current
<1>6. IsStack(trap_stack) /\ Len(trap_stack) = K[Depth] + Len(Current(C).tr)
  BY DEF Fits, TrapsFit, Current
<1>7. \E T : Current(C).tr \in Seq(T)
  BY <1>4 DEF Current
<1>8. QED  BY <1>2, <1>5, <1>6, <1>7

LEMMA AppendedAny ==
  ASSUME NEW T, NEW s \in Seq(T), NEW x
  PROVE  /\ Len(s) \in Nat /\ Len(Append(s, x)) = Len(s) + 1
         /\ Append(s, x)[Len(s) + 1] = x
         /\ \A j \in 1..Len(s) : Append(s, x)[j] = s[j]
<1> DEFINE U == T \cup {x}
<1>1. s \in Seq(U) /\ x \in U
  OBVIOUS
<1> HIDE DEF U
<1>2. QED  BY <1>1

LEMMA PushTrapFits ==
  ASSUME ProgramFits, NEW C, NEW B, NEW K, Fits(C, B, K), ExePUSHTH
  PROVE  (\E C2, B2, K2 : Fits(C2, B2, K2))'
<1> DEFINE c == Current(C)
           i == Instruction(C)
           x == Setting(i.arg, Len(c.st), c.en)
           tr == Append(c.tr, x)
<1>1. /\ i.op = "PUSHTH" /\ After(i, c) \subseteq Certified /\ arg = i.arg
  BY InstructionIsCertified DEF ExePUSHTH
<1>2. WithTraps(c, tr) \in Certified
  <2>1. After(i, c) = {WithTraps(c, tr)}
    BY <1>1 DEF After
  <2>2. QED  BY <1>1, <2>1
<1>3. /\ IsStack(trap_stack) /\ Len(trap_stack) = K[Depth] + Len(c.tr)
      /\ \A j \in 1..Len(c.tr) : At(trap_stack, K[Depth] + j) = TrapAt(c.tr[j], Depth, B[Depth])
      /\ K[Depth] \in Nat
      /\ \E T : c.tr \in Seq(T)
  BY CurrentTraps
<1>4. /\ Len(c.tr) \in Nat /\ Len(tr) = Len(c.tr) + 1
      /\ tr[Len(c.tr) + 1] = x
      /\ \A j \in 1..Len(c.tr) : tr[j] = c.tr[j]
  BY <1>3, AppendedAny
<1>5. Trap(i.arg) = TrapAt(x, Depth, B[Depth])
  <2>1. Len(eval_stack) = B[Depth] + Len(c.st)
    BY DEF Fits, ItemsFit, Current
  <2>2. Len(env_l) = Depth /\ env_l # <<>>
    <3>1. Len(env_l) = Depth
      BY DEF Fits, EnvironmentsFit
    <3>2. Depth \in Nat \ {0}
      BY DepthTyped
    <3>3. QED  BY <3>1, <3>2
  <2>3. Len(Head(env_l)) = c.en
    BY CurrentBlocks
  <2>4. QED  BY <2>1, <2>2, <2>3 DEF Trap, TrapAt, Setting, GetEnvLLengths, Depth
<1>6. /\ trap_stack' = Push(Trap(i.arg), trap_stack) /\ Leaves(eval_stack, 0)
      /\ UNCHANGED <<programs, call_stack>> /\ UNCHANGED env_l /\ UNCHANGED strayed
  BY <1>1 DEF ExePUSHTH
<1> HIDE DEF tr, x, c
<1>7. /\ IsStack(trap_stack') /\ Len(trap_stack') = Len(trap_stack) + 1
      /\ At(trap_stack', Len(trap_stack) + 1) = Trap(i.arg)
      /\ \A d \in 1..Len(trap_stack) : At(trap_stack', d) = At(trap_stack, d)
  <2>1. IsStack(trap_stack) /\ trap_stack' = Push(Trap(i.arg), trap_stack)
    BY <1>3, <1>6
  <2>2. /\ IsStack(Push(Trap(i.arg), trap_stack))
        /\ Len(Push(Trap(i.arg), trap_stack)) = Len(trap_stack) + 1
        /\ At(Push(Trap(i.arg), trap_stack), Len(trap_stack) + 1) = Trap(i.arg)
        /\ \A d \in 1..Len(trap_stack) :
             At(Push(Trap(i.arg), trap_stack), d) = At(trap_stack, d)
    BY <2>1, PushedStack
  <2>3. QED  BY <2>1, <2>2
<1>8. Len(trap_stack') = K[Depth] + Len(tr)
  BY <1>3, <1>4, <1>7
<1>9. SameUpTo(K[Depth], trap_stack', trap_stack)
  BY <1>3, <1>4, <1>7 DEF SameUpTo
<1>10. ASSUME NEW j \in 1..Len(tr)
       PROVE  At(trap_stack', K[Depth] + j) = TrapAt(tr[j], Depth, B[Depth])
  <2>1. CASE j = Len(c.tr) + 1
    <3>1. K[Depth] + j = Len(trap_stack) + 1
      BY <2>1, <1>3, <1>4
    <3>2. QED  BY <3>1, <2>1, <1>4, <1>5, <1>7
  <2>2. CASE j # Len(c.tr) + 1
    <3>1. j \in 1..Len(c.tr) /\ K[Depth] + j \in 1..Len(trap_stack)
      BY <2>2, <1>3, <1>4
    <3>2. QED  BY <3>1, <1>3, <1>4, <1>7
  <2>3. QED  BY <2>1, <2>2
<1>11. \A j \in 1..Len(tr) : At(trap_stack', K[Depth] + j) = TrapAt(tr[j], Depth, B[Depth])
  BY <1>10
<1>12. QED  BY <1>2, <1>6, <1>7, <1>8, <1>9, <1>11, TrapsChange DEF c

LEMMA PopTrapFits ==
  ASSUME ProgramFits, NEW C, NEW B, NEW K, Fits(C, B, K), ExePOPTH
  PROVE  (\E C2, B2, K2 : Fits(C2, B2, K2))'
<1> DEFINE c == Current(C)
           i == Instruction(C)
           tr == SubSeq(c.tr, 1, Len(c.tr) - 1)
<1>1. /\ i.op = "POPTH" /\ After(i, c) \subseteq Certified /\ Legal(Depth = 1, i, c)
  BY InstructionIsCertified DEF ExePOPTH
<1>2. WithTraps(c, tr) \in Certified /\ c.tr # <<>>
  <2>1. After(i, c) = {WithTraps(c, tr)}
    BY <1>1 DEF After
  <2>2. QED  BY <1>1, <2>1 DEF Legal
<1>3. /\ IsStack(trap_stack) /\ Len(trap_stack) = K[Depth] + Len(c.tr)
      /\ \A j \in 1..Len(c.tr) : At(trap_stack, K[Depth] + j) = TrapAt(c.tr[j], Depth, B[Depth])
      /\ K[Depth] \in Nat
      /\ \E T : c.tr \in Seq(T)
  BY CurrentTraps
<1>4. /\ Len(c.tr) \in Nat \ {0} /\ Len(tr) = Len(c.tr) - 1
      /\ \A j \in 1..Len(c.tr) - 1 : tr[j] = c.tr[j]
  <2>1. PICK T : c.tr \in Seq(T)
    BY <1>3
  <2>2. QED  BY <1>2, <2>1
<1>5. /\ trap_stack' = Tail(trap_stack) /\ Leaves(eval_stack, 0)
      /\ UNCHANGED <<programs, call_stack>> /\ UNCHANGED env_l /\ UNCHANGED strayed
  BY DEF ExePOPTH
<1> HIDE DEF tr, c
<1>6. Len(trap_stack) \in Nat \ {0} /\ 1 \in Nat /\ 1 <= Len(trap_stack) /\ trap_stack # <<>>
  BY <1>3, <1>4
<1>7. trap_stack' = Drop(1, trap_stack)
  BY <1>3, <1>5, <1>6, TopOfStack
<1>8. /\ IsStack(trap_stack') /\ Len(trap_stack') = Len(trap_stack) - 1
      /\ \A d \in 1..Len(trap_stack) - 1 : At(trap_stack', d) = At(trap_stack, d)
  BY <1>3, <1>6, <1>7, DroppedStack
<1>9. Len(trap_stack') = K[Depth] + Len(tr)
  BY <1>3, <1>4, <1>8
<1>10. SameUpTo(K[Depth], trap_stack', trap_stack)
  BY <1>3, <1>4, <1>8 DEF SameUpTo
<1>11. ASSUME NEW j \in 1..Len(tr)
       PROVE  At(trap_stack', K[Depth] + j) = TrapAt(tr[j], Depth, B[Depth])
  <2>1. j \in 1..Len(c.tr) - 1 /\ j \in 1..Len(c.tr)
    BY <1>4
  <2>2. K[Depth] + j \in 1..Len(trap_stack) - 1
    BY <2>1, <1>3, <1>4
  <2>3. QED  BY <2>1, <2>2, <1>3, <1>4, <1>8
<1>12. \A j \in 1..Len(tr) : At(trap_stack', K[Depth] + j) = TrapAt(tr[j], Depth, B[Depth])
  BY <1>11
<1>13. QED  BY <1>2, <1>5, <1>8, <1>9, <1>10, <1>12, TrapsChange DEF c

-----------------------------------------------------------------------------
(* Exits that meet a trap.                                                   *)

\* stack is the evaluation stack, or it without items that no trap keeps.
CanUnwind(C, B, stack) ==
  /\ IsStack(stack) /\ SameUpTo(Len(stack), stack, eval_stack)
  /\ B[Depth] <= Len(stack)
  /\ \A j \in 1..Len(Current(C).tr) : B[Depth] + Current(C).tr[j].items <= Len(stack)

\* The last trap of the operation at height d is the one on top.
OnTop(C, B, d) ==
  /\ Len(C[d].tr) > 0
  /\ Head(trap_stack) = TrapAt(C[d].tr[Len(C[d].tr)], d, B[d])

LEMMA TopTrap ==
  ASSUME NEW C, NEW B, NEW K, Fits(C, B, K), trap_stack # <<>>
  PROVE  \E d \in 1..Depth :
           OnTop(C, B, d) /\ Len(trap_stack) = K[d] + Len(C[d].tr)
<1> DEFINE n == Len(trap_stack)
<1>1. /\ Depth \in Nat \ {0} /\ Depth \in 1..Depth
      /\ \A d \in 1..Depth : d \in Nat /\ K[d] \in Nat /\ Len(C[d].tr) \in Nat
  BY DepthTyped, FitTypes
<1>2. IsStack(trap_stack) /\ n = K[Depth] + Len(C[Depth].tr)
  BY DEF Fits, TrapsFit
<1>3. n \in Nat \ {0} /\ Head(trap_stack) = At(trap_stack, n)
  BY <1>2, TopOfStack
<1>4. n \in 1..n
  BY <1>3
<1>5. PICK d \in 1..Depth : K[d] < n /\ n <= K[d] + Len(C[d].tr)
  BY <1>4 DEF Fits, TrapsFit
<1>6. n = K[d] + Len(C[d].tr)
  <2>1. CASE d = Depth
    BY <2>1, <1>2
  <2>2. CASE d # Depth
    <3>1. d < Depth
      BY <2>2, <1>1
    <3>2. K[d] + Len(C[d].tr) <= K[Depth]
      BY <3>1, <1>1 DEF Fits, TrapsFit
    <3>3. /\ K[d] \in Nat /\ K[Depth] \in Nat
          /\ Len(C[d].tr) \in Nat /\ Len(C[Depth].tr) \in Nat
      BY <1>1
    <3>4. n \in Nat /\ n >= K[Depth]
      BY <3>3, <1>2
    <3>5. n >= K[d] + Len(C[d].tr) /\ n <= K[d] + Len(C[d].tr)
      BY <3>2, <3>3, <3>4, <1>5
    <3>6. QED  BY <3>3, <3>4, <3>5
  <2>3. QED  BY <2>1, <2>2
<1>7. Len(C[d].tr) \in 1..Len(C[d].tr)
  <2>1. K[d] \in Nat /\ Len(C[d].tr) \in Nat
    BY <1>1
  <2>2. QED  BY <2>1, <1>3, <1>5, <1>6
<1>8. At(trap_stack, K[d] + Len(C[d].tr)) = TrapAt(C[d].tr[Len(C[d].tr)], d, B[d])
  BY <1>7 DEF Fits, TrapsFit
<1>9. Len(C[d].tr) > 0
  BY <1>1, <1>7
<1>10. OnTop(C, B, d) /\ n = K[d] + Len(C[d].tr)
  BY <1>3, <1>6, <1>8, <1>9 DEF OnTop
<1>11. QED  BY <1>10

LEMMA SumBelow ==
  ASSUME NEW base \in Nat, NEW some \in Nat, NEW all \in Nat, NEW next \in Nat, NEW top \in Nat,
         some <= all, base + all <= next, next <= top
  PROVE  base + some \in Nat /\ base + some <= top
OBVIOUS

\* What an exit keeps of the stacks is still there.
LEMMA Unwinds ==
  ASSUME NEW C, NEW B, NEW K, Fits(C, B, K), NEW stack, CanUnwind(C, B, stack),
         NEW d \in 1..Depth, NEW j \in 1..Len(C[d].tr)
  PROVE  B[d] + C[d].tr[j].items <= Len(stack)
<1>1. /\ Depth \in Nat \ {0} /\ Depth \in 1..Depth /\ d \in Nat
      /\ B[d] \in Nat /\ B[Depth] \in Nat /\ Len(C[d].st) \in Nat
  BY DepthTyped, FitTypes
<1>2. C[d].tr[j].items \in Nat /\ C[d].tr[j].items <= Len(C[d].st)
  BY TrapsTyped
<1>3. CASE d = Depth
  BY <1>3 DEF CanUnwind, Current
<1>4. CASE d # Depth
  <2>1. d < Depth
    BY <1>1, <1>4
  <2>2. B[d] + Len(C[d].st) <= B[Depth]
    BY <1>1, <2>1 DEF Fits, ItemsFit
  <2>3. B[Depth] <= Len(stack) /\ Len(stack) \in Nat
    BY DEF CanUnwind, IsStack
  <2>4. QED  BY <2>2, <2>3, <1>1, <1>2, SumBelow
<1>5. QED  BY <1>3, <1>4

LEMMA ExitFits ==
  ASSUME ProgramFits, NEW C, NEW B, NEW K, Fits(C, B, K), trap_stack # <<>>,
         NEW stack, CanUnwind(C, B, stack), NEW item, IsExit(item), HandleExit(item, stack)
  PROVE  (\E C2, B2, K2 : Fits(C2, B2, K2))'
<1>1. PICK d \in 1..Depth : OnTop(C, B, d) /\ Len(trap_stack) = K[d] + Len(C[d].tr)
  BY TopTrap
<1> DEFINE t == C[d].tr[Len(C[d].tr)]
           st == SubSeq(C[d].st, 1, t.items)
           c2 == Config(HandlerOf(CodeAt(d), t.id), Append(st, "EXIT"), t.blocks, C[d].tr, FALSE)
           keep == B[d] + t.items
<1>2. /\ Depth \in Nat \ {0} /\ d \in Nat /\ d > 0 /\ d <= Depth
      /\ B[d] \in Nat /\ K[d] \in Nat /\ C[d].st \in Seq(Kinds)
      /\ Len(C[d].st) \in Nat /\ Len(C[d].tr) \in Nat
  BY DepthTyped, FitTypes
<1>3. Len(C[d].tr) \in 1..Len(C[d].tr)
  BY <1>2, <1>1 DEF OnTop
<1>4. /\ t.items \in Nat /\ t.items <= Len(C[d].st)
      /\ t.blocks \in Nat /\ t.blocks <= C[d].en
  BY <1>3, TrapsTyped
<1>5. keep \in Nat /\ keep <= Len(stack)
  <2>1. keep <= Len(stack)
    BY <1>3, Unwinds
  <2>2. QED  BY <2>1, <1>2, <1>4
<1>6. /\ Head(trap_stack).handid = t.id /\ Head(trap_stack).lenes = keep
      /\ Head(trap_stack).lencs = d /\ Head(trap_stack).lenenvl = d
      /\ Head(trap_stack).lentopenvl = t.blocks
  BY <1>1 DEF OnTop, TrapAt
<1>7. /\ c2.pc = HandlerOf(CodeAt(d), t.id) /\ c2.st = Append(st, "EXIT") /\ c2.en = t.blocks
      /\ c2.tr = C[d].tr /\ c2.aftermath = FALSE
  BY DEF Config
<1>8. c2 \in Certificate(CodeAt(d))
  <2>1. c2 \in Trapped(CodeAt(d), C[d])
    <3>1. Len(C[d].tr) \in DOMAIN C[d].tr \cap {Len(C[d].tr)}
      <4>1. C[d] \in Configs(CodeAt(d))
        BY DEF Fits, OperationsFit, WellFormed
      <4>2. C[d].tr \in Seq([id : HandlerIds(CodeAt(d)), items : Nat, blocks : Nat])
        BY <4>1 DEF Configs
      <4>3. DOMAIN C[d].tr = 1..Len(C[d].tr)
        BY <4>2
      <4>4. QED  BY <4>3, <1>3
    <3>2. t \in {C[d].tr[k] : k \in DOMAIN C[d].tr \cap {Len(C[d].tr)}}
      BY <3>1
    <3>3. QED  BY <3>2 DEF Trapped
  <2>2. Trapped(CodeAt(d), C[d]) \subseteq Certificate(CodeAt(d))
    BY DEF Fits, OperationsFit, WellFormed
  <2>3. QED  BY <2>1, <2>2
<1>9. /\ pc' = FindTrapHandler(Head(trap_stack))
      /\ eval_stack' = Push(item, Keep(keep, stack))
      /\ call_stack' = Keep(d, call_stack)
      /\ env_l' = UpgradeENVL(Head(trap_stack))
      /\ UNCHANGED programs /\ UNCHANGED trap_stack /\ UNCHANGED strayed
  BY <1>6 DEF HandleExit
<1> HIDE DEF c2, keep, t
<1>10. OperationsAfter(d, c2)
  <2>1. IsStack(call_stack) /\ d <= Len(call_stack)
    BY <1>2 DEF Fits, OperationsFit, Depth
  <2>2. /\ IsStack(Keep(d, call_stack)) /\ Len(Keep(d, call_stack)) = d
        /\ \A e \in 1..d : At(Keep(d, call_stack), e) = At(call_stack, e)
        /\ Keep(d, call_stack)[1] = At(call_stack, d)
    BY <1>2, <2>1, KeptStack
  <2>3. pc' = HandlerOf(CodeAt(d), t.id)
    BY <1>6, <1>9, <2>2 DEF FindTrapHandler, CodeAt
  <2>4. WellFormed(Certificate(CodeAt(d)), CodeAt(d), c2)
    BY <1>8, CertifiedIsWellFormed
  <2>5. QED  BY <1>7, <1>8, <1>9, <2>2, <2>3, <2>4 DEF OperationsAfter, SameUpTo
<1>11. EnvironmentsAfter(d, c2)
  <2> DEFINE kept == Keep(d, env_l)
             blocks == Keep(t.blocks, Head(kept))
  <2>1. /\ IsStack(env_l) /\ d <= Len(env_l)
        /\ IsStack(At(env_l, d)) /\ Len(At(env_l, d)) = C[d].en
    BY <1>2 DEF Fits, EnvironmentsFit
  <2>2. /\ IsStack(kept) /\ Len(kept) = d
        /\ \A e \in 1..d : At(kept, e) = At(env_l, e)
        /\ Head(kept) = At(env_l, d)
    BY <1>2, <2>1, KeptStack
  <2>3. IsStack(blocks) /\ Len(blocks) = t.blocks
    BY <1>4, <2>1, <2>2, KeptStack
  <2> HIDE DEF kept
  <2>4. kept # <<>> /\ 1 \in Nat /\ 1 <= Len(kept)
    BY <1>2, <2>2
  <2>5. Tail(kept) = Drop(1, kept)
    BY <2>2, <2>4, TopOfStack
  <2>6. /\ IsStack(Tail(kept)) /\ Len(Tail(kept)) = d - 1
        /\ \A e \in 1..d - 1 : At(Tail(kept), e) = At(kept, e)
    BY <2>2, <2>4, <2>5, DroppedStack
  <2> HIDE DEF blocks
  <2>7. env_l' = Push(blocks, Tail(kept))
    BY <1>6, <1>9 DEF UpgradeENVL, kept, blocks
  <2>8. /\ IsStack(Push(blocks, Tail(kept))) /\ Len(Push(blocks, Tail(kept))) = Len(Tail(kept)) + 1
        /\ At(Push(blocks, Tail(kept)), Len(Tail(kept)) + 1) = blocks
        /\ \A e \in 1..Len(Tail(kept)) : At(Push(blocks, Tail(kept)), e) = At(Tail(kept), e)
    <3> DEFINE below == Tail(kept)
    <3>1. IsStack(below)
      BY <2>6
    <3> HIDE DEF below
    <3>2. /\ IsStack(Push(blocks, below)) /\ Len(Push(blocks, below)) = Len(below) + 1
          /\ At(Push(blocks, below), Len(below) + 1) = blocks
      BY <3>1, PushedStack
    <3>3. \A e \in 1..Len(below) : At(Push(blocks, below), e) = At(below, e)
      BY <3>1, PushedStack
    <3>4. QED  BY <3>2, <3>3 DEF below
  <2>9. d - 1 + 1 = d /\ \A e \in 1..d - 1 : e \in 1..d
    BY <1>2
  <2>10. IsStack(env_l') /\ Len(env_l') = d /\ At(env_l', d) = blocks
    BY <2>6, <2>7, <2>8, <2>9
  <2>11. SameUpTo(d - 1, env_l', env_l)
    BY <2>2, <2>6, <2>7, <2>8, <2>9 DEF SameUpTo
  <2>12. QED  BY <1>7, <2>3, <2>10, <2>11 DEF EnvironmentsAfter
<1>12. ItemsAfter(B, d, c2, B[d])
  <2> DEFINE kept == Keep(keep, stack)
  <2>1. IsStack(stack) /\ SameUpTo(Len(stack), stack, eval_stack) /\ Len(stack) \in Nat
    BY DEF CanUnwind, IsStack
  <2>2. /\ IsStack(kept) /\ Len(kept) = keep
        /\ \A e \in 1..keep : At(kept, e) = At(stack, e)
    BY <1>5, <2>1, KeptStack
  <2> HIDE DEF kept
  <2>3. \A e \in 1..keep : At(kept, e) = At(eval_stack, e)
    <3>1. \A e \in 1..keep : e \in 1..Len(stack)
      BY <1>5, <2>1
    <3>2. QED  BY <3>1, <2>1, <2>2 DEF SameUpTo
  <2>4. st \in Seq(Kinds) /\ Len(st) = t.items /\ \A j \in 1..t.items : st[j] = C[d].st[j]
    BY <1>2, <1>4
  <2> HIDE DEF st
  <2>5. ASSUME NEW j \in 1..Len(st)
        PROVE  IsOfKind(At(kept, B[d] + j), st[j])
    <3>1. B[d] + j \in 1..keep /\ j \in 1..Len(C[d].st) /\ st[j] = C[d].st[j]
      BY <1>2, <1>4, <2>4 DEF keep
    <3>2. IsOfKind(At(eval_stack, B[d] + j), C[d].st[j])
      BY <3>1 DEF Fits, ItemsFit
    <3>3. QED  BY <3>1, <3>2, <2>3
  <2>6. HasItems(kept, B[d], st)
    BY <2>2, <2>4, <2>5 DEF HasItems, keep
  <2>7. IsOfKind(item, "EXIT") /\ "EXIT" \in Kinds
    BY DEF IsOfKind, Kinds
  <2>8. /\ HasItems(Push(item, kept), B[d], Append(st, "EXIT"))
        /\ SameUpTo(B[d], Push(item, kept), kept)
    BY <1>2, <2>4, <2>6, <2>7, PushedItem
  <2>9. SameUpTo(B[d], kept, eval_stack)
    <3>1. \A e \in 1..B[d] : e \in 1..keep
      BY <1>2, <1>4 DEF keep
    <3>2. QED  BY <3>1, <2>3 DEF SameUpTo
  <2>10. eval_stack' = Push(item, kept)
    BY <1>9 DEF kept
  <2>11. c2.st = Append(st, "EXIT")
    BY <1>7 DEF st
  <2>12. SameUpTo(B[d], eval_stack', eval_stack)
    BY <2>8, <2>9, <2>10 DEF SameUpTo
  <2>13. QED  BY <1>2, <2>8, <2>10, <2>11, <2>12 DEF ItemsAfter
<1>13. TrapsAfter(K, d, c2, B[d])
  <2>1. IsStack(trap_stack) /\ \A j \in 1..Len(C[d].tr) :
          At(trap_stack, K[d] + j) = TrapAt(C[d].tr[j], d, B[d])
    BY DEF Fits, TrapsFit
  <2>2. QED  BY <2>1, <1>1, <1>7, <1>9 DEF TrapsAfter, SameUpTo
<1>14. LeftBehindAfter(C, B, K, d, c2, B[d])
  <2>1. strayed \/ C[Depth].aftermath \/ Tight(C, B)
    BY DEF Fits, LeftBehind
  <2>2. ~C[Depth].aftermath
    <3>1. Depth \in 1..Depth
      BY DepthTyped
    <3>2. WellFormed(Certificate(CodeAt(Depth)), CodeAt(Depth), C[Depth])
      BY <3>1 DEF Fits, OperationsFit
    <3>3. C[Depth].aftermath => C[Depth].tr = <<>> /\ K[Depth] = 0
      BY <3>2 DEF WellFormed, TrapsAreKept, Fits, LeftBehind
    <3>4. Len(trap_stack) = K[Depth] + Len(C[Depth].tr) /\ IsStack(trap_stack)
      BY DEF Fits, TrapsFit
    <3>5. C[Depth].aftermath => Len(trap_stack) = 0
      BY <3>3, <3>4
    <3>6. Len(trap_stack) \in Nat \ {0}
      BY <3>4, TopOfStack
    <3>7. QED  BY <3>5, <3>6
  <2>3. Tight(C, B) => B[1] = 0 /\ \A e \in 1..d - 1 : B[e + 1] = B[e] + Len(C[e].st)
    <3>1. \A e \in 1..d - 1 : e \in 1..Depth - 1
      BY <1>2
    <3>2. QED  BY <3>1 DEF Tight
  <2>4. strayed' = strayed /\ c2.aftermath = FALSE
    BY <1>7, <1>9
  <2>5. QED  BY <2>1, <2>2, <2>3, <2>4 DEF LeftBehindAfter
<1>15. QED  BY <1>10, <1>11, <1>12, <1>13, <1>14, FitsAgain

LEMMA NothingChanges ==
  ASSUME ProgramFits, NEW C, NEW B, NEW K, Fits(C, B, K),
         UNCHANGED <<programs, pc, stacks, strayed>>
  PROVE  (\E C2, B2, K2 : Fits(C2, B2, K2))'
<1>1. /\ UNCHANGED <<programs, call_stack>> /\ UNCHANGED env_l /\ UNCHANGED trap_stack
      /\ pc' = pc /\ eval_stack' = eval_stack /\ strayed' = strayed
  BY DEF stacks
<1>2. Current(C) \in Certified /\ pc' = Current(C).pc
  BY <1>1 DEF Fits, OperationsFit, Current, Certified, CurrentCode
<1>3. EnvironmentsAfter(Depth, Current(C))
  BY <1>1, EnvironmentsStay
<1>4. TrapsAfter(K, Depth, Current(C), B[Depth])
  BY <1>1, TrapsStay
<1>5. ItemsAfter(B, Depth, Current(C), B[Depth])
  <2>1. HasItems(eval_stack, B[Depth], Current(C).st) /\ B[Depth] \in Nat
    BY CurrentItems
  <2>2. QED  BY <2>1, <1>1 DEF ItemsAfter, SameUpTo
<1>6. AftermathAfter(Current(C), Current(C))
  BY <1>1 DEF AftermathAfter
<1>7. QED  BY <1>1, <1>2, <1>3, <1>4, <1>5, <1>6, StaysInOperation

LEMMA RuntimeErrorFits ==
  ASSUME ProgramFits, NEW C, NEW B, NEW K, Fits(C, B, K),
         NEW stack, trap_stack # <<>> => CanUnwind(C, B, stack), ThrowRuntimeErrorException(stack)
  PROVE  (\E C2, B2, K2 : Fits(C2, B2, K2))'
<1>1. CASE RTErrException /\ trap_stack # <<>>
  <2>1. HandleExit(Exit(RuntimeError), stack)
    BY <1>1 DEF ThrowRuntimeErrorException
  <2>2. IsExit(Exit(RuntimeError))
    BY DEF IsExit, Exit, Value
  <2>3. QED  BY <1>1, <2>1, <2>2, ExitFits
<1>2. CASE ~(RTErrException /\ trap_stack # <<>>)
  <2>1. UNCHANGED <<programs, pc, stacks, strayed>>
    BY <1>2 DEF ThrowRuntimeErrorException
  <2>2. QED  BY <2>1, NothingChanges
<1>3. QED  BY <1>1, <1>2

\* The whole evaluation stack has what the traps keep.
LEMMA StackCanUnwind ==
  ASSUME NEW C, NEW B, NEW K, Fits(C, B, K)
  PROVE  CanUnwind(C, B, eval_stack)
<1>1. Depth \in 1..Depth /\ Current(C) = C[Depth]
  BY DepthTyped DEF Current
<1>2. /\ IsStack(eval_stack) /\ Len(eval_stack) = B[Depth] + Len(Current(C).st)
      /\ B[Depth] \in Nat /\ Len(Current(C).st) \in Nat
  BY CurrentItems DEF HasItems
<1>3. B[Depth] <= Len(eval_stack)
  BY <1>2
<1>4. ASSUME NEW j \in 1..Len(Current(C).tr)
      PROVE  B[Depth] + Current(C).tr[j].items <= Len(eval_stack)
  <2>1. Current(C).tr[j].items \in Nat /\ Current(C).tr[j].items <= Len(Current(C).st)
    BY <1>1, TrapsTyped
  <2>2. Len(eval_stack) \in Nat /\ B[Depth] + Len(Current(C).st) <= Len(eval_stack)
    BY <1>2
  <2>3. Len(eval_stack) <= Len(eval_stack)
    BY <2>2
  <2>4. QED  BY <1>2, <2>1, <2>2, <2>3, SumBelow
<1>5. QED  BY <1>2, <1>3, <1>4 DEF CanUnwind, SameUpTo

LEMMA ErrInstFits ==
  ASSUME ProgramFits, NEW C, NEW B, NEW K, Fits(C, B, K), ExeERRINST
  PROVE  (\E C2, B2, K2 : Fits(C2, B2, K2))'
<1>1. ThrowRuntimeErrorException(eval_stack)
  BY DEF ExeERRINST
<1>2. QED  BY <1>1, StackCanUnwind, RuntimeErrorFits

-----------------------------------------------------------------------------
(* The end of an operation.                                                  *)

\* The caller goes on with res on the items of below, the ones from the height b
\* on being of the kinds st.
LEMMA ComesBack ==
  ASSUME ProgramFits, NEW C, NEW B, NEW K, Fits(C, B, K),
         NEW d \in 1..Depth, d = Depth - 1, Current(C).tr = <<>>,
         NEW st \in Seq(Kinds), NEW b \in Nat, NEW aftermath,
         NEW kind \in Kinds, NEW res, IsOfKind(res, kind),
         Config(C[d].pc, Append(st, kind), C[d].en, C[d].tr, aftermath) \in Resumptions(C[d]),
         NEW below, HasItems(below, b, st), SameUpTo(B[d], below, eval_stack), B[d] <= b,
         b = B[d] \/ (C[d].tr = <<>> /\ K[d] = 0), aftermath => K[d] = 0,
         strayed \/ aftermath \/ (b = B[d] /\ Tight(C, B)),
         eval_stack' = Push(res, below), env_l' = Tail(env_l),
         call_stack' = Tail(call_stack), pc' = Head(call_stack).pc,
         UNCHANGED programs, UNCHANGED trap_stack, UNCHANGED strayed
  PROVE  (\E C2, B2, K2 : Fits(C2, B2, K2))'
<1> DEFINE c2 == Config(C[d].pc, Append(st, kind), C[d].en, C[d].tr, aftermath)
<1>1. /\ Depth \in Nat \ {0} /\ d \in Nat /\ d > 0 /\ d + 1 = Depth /\ d \in 1..Depth - 1
      /\ B[d] \in Nat /\ K[d] \in Nat
  <2>1. Depth \in Nat \ {0}
    BY DepthTyped
  <2>2. d \in Nat /\ d > 0 /\ d + 1 = Depth /\ d \in 1..Depth - 1
    BY <2>1
  <2>3. B[d] \in Nat /\ K[d] \in Nat
    BY FitTypes
  <2>4. QED  BY <2>1, <2>2, <2>3
<1>2. /\ c2.pc = C[d].pc /\ c2.st = Append(st, kind) /\ c2.en = C[d].en
      /\ c2.tr = C[d].tr /\ c2.aftermath = aftermath
  BY DEF Config
<1>3. c2 \in Certificate(CodeAt(d))
  BY <1>1 DEF Fits, OperationsFit
<1> HIDE DEF c2
<1>4. OperationsAfter(d, c2)
  <2>1. IsStack(call_stack) /\ Len(call_stack) = d + 1 /\ call_stack # <<>>
    BY <1>1 DEF Fits, OperationsFit, Depth
  <2>2. 1 \in Nat /\ 1 <= Len(call_stack)
    BY <2>1, <1>1
  <2>3. Tail(call_stack) = Drop(1, call_stack) /\ Head(call_stack) = At(call_stack, d + 1)
    BY <2>1, TopOfStack
  <2>4. /\ IsStack(Drop(1, call_stack)) /\ Len(Drop(1, call_stack)) = Len(call_stack) - 1
        /\ \A e \in 1..Len(call_stack) - 1 : At(Drop(1, call_stack), e) = At(call_stack, e)
    BY <2>1, <2>2, DroppedStack
  <2>5. d + 1 - 1 = d
    BY <1>1
  <2>6. pc' = C[d].pc
    BY <2>3, <1>1 DEF Fits, OperationsFit
  <2>7. WellFormed(Certificate(CodeAt(d)), CodeAt(d), c2)
    BY <1>3, CertifiedIsWellFormed
  <2>8. call_stack' = Drop(1, call_stack)
    BY <2>3
  <2>9. Len(call_stack) - 1 = d
    BY <2>1, <2>5
  <2>10. IsStack(call_stack') /\ Len(call_stack') = d
    BY <2>4, <2>8, <2>9
  <2>11. SameUpTo(d, call_stack', call_stack)
    <3>1. \A e \in 1..d : At(Drop(1, call_stack), e) = At(call_stack, e)
      BY <2>4, <2>9
    <3>2. QED  BY <3>1, <2>8 DEF SameUpTo
  <2>12. QED  BY <1>2, <1>3, <2>6, <2>7, <2>10, <2>11 DEF OperationsAfter
<1>5. EnvironmentsAfter(d, c2)
  <2>1. /\ IsStack(Tail(env_l)) /\ Len(Tail(env_l)) = Depth - 1
        /\ \A e \in 1..Depth - 1 : At(Tail(env_l), e) = At(env_l, e)
    BY CurrentBlocks
  <2>2. IsStack(At(env_l, d)) /\ Len(At(env_l, d)) = C[d].en
    BY DEF Fits, EnvironmentsFit
  <2>3. \A e \in 1..d - 1 : e \in 1..Depth - 1
    BY <1>1
  <2>4. QED  BY <1>1, <1>2, <2>1, <2>2, <2>3 DEF EnvironmentsAfter, SameUpTo
<1>6. ItemsAfter(B, d, c2, b)
  <2>1. /\ HasItems(Push(res, below), b, Append(st, kind))
        /\ SameUpTo(b, Push(res, below), below)
    BY PushedItem
  <2>2. \A e \in 1..B[d] : e \in 1..b
    BY <1>1
  <2>3. SameUpTo(B[d], Push(res, below), eval_stack)
    BY <2>1, <2>2 DEF SameUpTo
  <2>4. QED  BY <1>2, <2>1, <2>3 DEF ItemsAfter
<1>7. TrapsAfter(K, d, c2, b)
  <2>1. IsStack(trap_stack) /\ Len(trap_stack) = K[d] + Len(C[d].tr)
    <3>1. /\ IsStack(trap_stack) /\ Len(trap_stack) = K[Depth] + Len(<<>>)
          /\ K[d + 1] = K[d] + Len(C[d].tr)
      BY <1>1 DEF Fits, TrapsFit, Current
    <3>2. K[Depth] \in Nat
      BY DepthTyped, FitTypes
    <3>3. K[Depth] + Len(<<>>) = K[Depth]
      BY <3>2
    <3>4. QED  BY <3>1, <3>3, <1>1
  <2>2. \A j \in 1..Len(C[d].tr) : At(trap_stack, K[d] + j) = TrapAt(C[d].tr[j], d, b)
    <3>1. CASE b = B[d]
      BY <3>1 DEF Fits, TrapsFit
    <3>2. CASE C[d].tr = <<>>
      BY <3>2
    <3>3. QED  BY <3>1, <3>2
  <2>3. QED  BY <2>1, <2>2, <1>2 DEF TrapsAfter, SameUpTo
<1>8. LeftBehindAfter(C, B, K, d, c2, b)
  <2>1. Tight(C, B) => B[1] = 0 /\ \A e \in 1..d - 1 : B[e + 1] = B[e] + Len(C[e].st)
    <3>1. \A e \in 1..d - 1 : e \in 1..Depth - 1
      BY <1>1
    <3>2. QED  BY <3>1 DEF Tight
  <2>2. QED  BY <2>1, <1>2 DEF LeftBehindAfter
<1>9. QED  BY <1>4, <1>5, <1>6, <1>7, <1>8, FitsAgain

\* An operation that had its first item on the last one of its caller.
LEMMA ComesBackExactly ==
  ASSUME ProgramFits, NEW C, NEW B, NEW K, Fits(C, B, K),
         NEW d \in 1..Depth, d = Depth - 1, Current(C).tr = <<>>,
         B[Depth] = B[d] + Len(C[d].st), strayed \/ Tight(C, B),
         NEW kind \in {"CONT", "EXIT", "OTHER"}, NEW res, IsOfKind(res, kind),
         NEW below, IsStack(below), Len(below) = B[Depth],
         SameUpTo(Len(below), below, eval_stack),
         eval_stack' = Push(res, below), env_l' = Tail(env_l),
         call_stack' = Tail(call_stack), pc' = Head(call_stack).pc,
         UNCHANGED programs, UNCHANGED trap_stack, UNCHANGED strayed
  PROVE  (\E C2, B2, K2 : Fits(C2, B2, K2))'
<1>1. /\ B[d] \in Nat /\ C[d].st \in Seq(Kinds) /\ Len(C[d].st) \in Nat
  BY FitTypes
<1>2. Config(C[d].pc, Append(C[d].st, kind), C[d].en, C[d].tr, FALSE) \in Resumptions(C[d])
  BY DEF Resumptions
<1>3. kind \in Kinds
  BY DEF Kinds
<1>4. HasItems(below, B[d], C[d].st)
  <2>1. ASSUME NEW j \in 1..Len(C[d].st)
        PROVE  IsOfKind(At(below, B[d] + j), C[d].st[j])
    <3>1. B[d] + j \in 1..Len(below)
      BY <1>1
    <3>2. At(below, B[d] + j) = At(eval_stack, B[d] + j)
      BY <3>1 DEF SameUpTo
    <3>3. IsOfKind(At(eval_stack, B[d] + j), C[d].st[j])
      BY DEF Fits, ItemsFit
    <3>4. QED  BY <3>2, <3>3
  <2>2. QED  BY <2>1 DEF HasItems
<1>5. SameUpTo(B[d], below, eval_stack)
  <2>1. \A e \in 1..B[d] : e \in 1..Len(below)
    BY <1>1
  <2>2. QED  BY <2>1 DEF SameUpTo
<1>6. B[d] <= B[d]
  BY <1>1
<1>7. QED  BY <1>1, <1>2, <1>3, <1>4, <1>5, <1>6, ComesBack

LEMMA AnysTyped ==
  ASSUME NEW n \in Nat
  PROVE  Anys(n) \in Seq(Kinds) /\ Len(Anys(n)) = n /\ \A j \in 1..n : Anys(n)[j] = "ANY"
<1>1. "ANY" \in Kinds
  BY DEF Kinds
<1>2. QED  BY <1>1 DEF Anys

\* An operation below which an exit without a trap may have left items.
LEMMA ComesBackAbove ==
  ASSUME ProgramFits, NEW C, NEW B, NEW K, Fits(C, B, K),
         NEW d \in 1..Depth, d = Depth - 1, Current(C).tr = <<>>, K[Depth] = 0,
         NEW aftermath \in BOOLEAN, strayed \/ aftermath,
         NEW kind \in {"CONT", "EXIT", "OTHER"}, aftermath => kind = "EXIT",
         NEW res, IsOfKind(res, kind),
         NEW below, IsStack(below), B[Depth] <= Len(below),
         SameUpTo(Len(below), below, eval_stack),
         eval_stack' = Push(res, below), env_l' = Tail(env_l),
         call_stack' = Tail(call_stack), pc' = Head(call_stack).pc,
         UNCHANGED programs, UNCHANGED trap_stack, UNCHANGED strayed
  PROVE  (\E C2, B2, K2 : Fits(C2, B2, K2))'
<1> DEFINE l == Len(C[d].st)
           st == Anys(l)
           b == Len(below) - l
<1>1. /\ Depth \in Nat \ {0} /\ d \in 1..Depth - 1 /\ d < Depth /\ Depth \in 1..Depth
      /\ d + 1 = Depth
  BY DepthTyped
<1>2. /\ B[d] \in Nat /\ K[d] \in Nat /\ B[Depth] \in Nat /\ l \in Nat
      /\ Len(C[d].tr) \in Nat
  BY <1>1, FitTypes
<1>3. K[d] = 0 /\ C[d].tr = <<>>
  <2>1. K[Depth] = K[d] + Len(C[d].tr)
    BY <1>1 DEF Fits, TrapsFit
  <2>2. K[d] = 0 /\ Len(C[d].tr) = 0
    BY <2>1, <1>2
  <2>3. C[d] \in Configs(CodeAt(d))
    BY DEF Fits, OperationsFit, WellFormed
  <2>4. C[d].tr \in Seq([id : HandlerIds(CodeAt(d)), items : Nat, blocks : Nat])
    BY <2>3 DEF Configs
  <2>5. QED  BY <2>2, <2>4
<1>4. Config(C[d].pc, Append(st, kind), C[d].en, C[d].tr, aftermath) \in Resumptions(C[d])
  BY <1>3 DEF Resumptions
<1>5. st \in Seq(Kinds) /\ Len(st) = l /\ (\A j \in 1..l : st[j] = "ANY") /\ kind \in Kinds
  <2>1. kind \in Kinds
    BY DEF Kinds
  <2>2. QED  BY <2>1, <1>2, AnysTyped
<1>6. b \in Nat /\ B[d] <= b /\ B[d] <= Len(below) /\ Len(below) = b + l
  <2>1. B[d] + l <= B[Depth]
    BY <1>1 DEF Fits, ItemsFit
  <2>2. Len(below) \in Nat
    BY DEF IsStack
  <2>3. B[d] + l <= Len(below)
    BY <2>1, <2>2, <1>2
  <2>4. QED  BY <2>2, <2>3, <1>2
<1> HIDE DEF st, b
<1>7. HasItems(below, b, st)
  <2>1. \A item : IsOfKind(item, "ANY")
    BY KindsOfValues
  <2>2. QED  BY <2>1, <1>5, <1>6 DEF HasItems
<1>8. SameUpTo(B[d], below, eval_stack)
  <2>1. Len(below) \in Nat
    BY DEF IsStack
  <2>2. \A e \in 1..B[d] : e \in 1..Len(below)
    BY <2>1, <1>6, <1>2
  <2>3. QED  BY <2>2 DEF SameUpTo
<1>9. strayed \/ aftermath \/ (b = B[d] /\ Tight(C, B))
  OBVIOUS
<1>10. QED  BY <1>3, <1>4, <1>5, <1>6, <1>7, <1>8, <1>9, ComesBack

\* The caller of the operation that is executed.
LEMMA HasCaller ==
  ASSUME NEW C, NEW B, NEW K, Fits(C, B, K), Depth # 1
  PROVE  Depth - 1 \in 1..Depth /\ Depth - 1 \in 1..Depth - 1
<1>1. Depth \in Nat \ {0}
  BY DepthTyped
<1>2. QED  BY <1>1

LEMMA ReturnFits ==
  ASSUME ProgramFits, NEW C, NEW B, NEW K, Fits(C, B, K), ExeRETURN
  PROVE  (\E C2, B2, K2 : Fits(C2, B2, K2))'
<1> DEFINE c == Current(C)
           i == Instruction(C)
           d == Depth - 1
           below == Drop(1, eval_stack)
<1>1. /\ i.op = "RETURN" /\ Legal(Depth = 1, i, c)
  BY InstructionIsCertified DEF ExeRETURN
<1>2. /\ Depth # 1 /\ Len(c.st) = 1 /\ c.tr = <<>> /\ (c.aftermath => TopKind(c) = "EXIT")
  BY <1>1 DEF Legal, EndsWithValue
<1>3. CleanExplOpApply(eval_stack)
  BY DEF ExeRETURN
<1>4. /\ HasItems(eval_stack, B[Depth], c.st)
      /\ B[Depth] \in Nat /\ c.st \in Seq(Kinds)
  BY CurrentItems
<1>5. /\ IsOfKind(Top, TopKind(c)) /\ TopKind(c) \in Kinds
      /\ eval_stack # <<>> /\ Head(eval_stack) = Top
  <2>1. Len(c.st) > 0
    BY <1>2
  <2>2. QED  BY <2>1, <1>4, TopItem DEF Top, Item, TopKind
<1>6. CASE ThrowRuntimeErrorException(eval_stack)
  BY <1>6, StackCanUnwind, RuntimeErrorFits
<1>7. CASE ~ThrowRuntimeErrorException(eval_stack)
  <2> DEFINE goOn == Top.tag \in {"CONT", "RETURN"}
  <2>1. eval_stack' = IF goOn THEN Push(Cont, Tail(eval_stack)) ELSE eval_stack
    BY <1>3, <1>5, <1>7 DEF CleanExplOpApply
  <2>2. /\ env_l' = Tail(env_l) /\ call_stack' = Tail(call_stack) /\ pc' = Head(call_stack).pc
        /\ UNCHANGED programs /\ UNCHANGED trap_stack /\ UNCHANGED strayed
    BY <1>3, <1>7 DEF CleanExplOpApply
  <2> DEFINE res == IF goOn THEN Cont ELSE Top
             kind == IF goOn THEN "CONT" ELSE IF IsExit(Top) THEN "EXIT" ELSE "OTHER"
  <2>3. IsOfKind(res, kind) /\ kind \in {"CONT", "EXIT", "OTHER"}
    BY <2>1 DEF IsOfKind, IsExit, IsCont, Cont, Value
  <2>4. c.aftermath => kind = "EXIT"
    <3>1. c.aftermath => IsExit(Top)
      BY <1>2, <1>5, KindsOfItems
    <3>2. IsExit(Top) => ~goOn
      BY <2>1 DEF IsExit
    <3>3. QED  BY <3>1, <3>2
  <2>5. eval_stack' = Push(res, below)
    <3>1. IsStack(eval_stack)
      BY <1>4 DEF HasItems
    <3>2. Tail(eval_stack) = below
      BY <1>5, <3>1, TopOfStack
    <3>3. eval_stack = Push(Top, Tail(eval_stack))
      <4>1. eval_stack \in Seq(Elements(eval_stack))
        BY <3>1 DEF IsStack
      <4>2. eval_stack = <<Head(eval_stack)>> \o Tail(eval_stack)
        BY <4>1, <1>5
      <4>3. QED  BY <4>2, <1>5 DEF Push
    <3>4. QED  BY <2>1, <3>2, <3>3
  <2>6. IsStack(below) /\ Len(below) = B[Depth] /\ SameUpTo(Len(below), below, eval_stack)
    <3>1. IsStack(eval_stack) /\ Len(eval_stack) = B[Depth] + 1
      BY <1>4, <1>2 DEF HasItems
    <3>2. 1 \in Nat /\ 1 <= Len(eval_stack)
      BY <1>4, <3>1
    <3>3. /\ IsStack(below) /\ Len(below) = Len(eval_stack) - 1
          /\ \A e \in 1..Len(eval_stack) - 1 : At(below, e) = At(eval_stack, e)
      BY <3>1, <3>2, DroppedStack
    <3> HIDE DEF below
    <3>4. QED  BY <1>4, <3>1, <3>3 DEF SameUpTo
  <2> HIDE DEF below, kind, res
  <2>7. d \in 1..Depth /\ d \in 1..Depth - 1 /\ d + 1 = Depth
    <3>1. Depth \in Nat
      BY DepthTyped
    <3>2. QED  BY <3>1, <1>2, HasCaller
  <2>8. /\ c.aftermath => K[Depth] = 0
        /\ strayed \/ c.aftermath \/ Tight(C, B)
        /\ c.aftermath \in BOOLEAN
    <3>1. c.aftermath \in BOOLEAN
      BY CurrentItems, DepthTyped, CertifiedIsWellFormed DEF Certified, CurrentCode
    <3>2. QED  BY <3>1 DEF Fits, LeftBehind, Current
  <2>9. B[Depth] = B[d] + Len(C[d].st) \/ K[Depth] = 0
    BY <2>7 DEF Fits, LeftBehind
  <2>10. CASE ~c.aftermath /\ B[Depth] = B[d] + Len(C[d].st)
    BY <2>10, <1>2, <2>2, <2>3, <2>5, <2>6, <2>7, <2>8, ComesBackExactly
  <2>11. CASE c.aftermath \/ B[Depth] # B[d] + Len(C[d].st)
    <3>1. K[Depth] = 0
      BY <2>8, <2>9, <2>11
    <3>2. Tight(C, B) => B[Depth] = B[d] + Len(C[d].st)
      BY <2>7 DEF Tight
    <3>3. strayed \/ c.aftermath
      BY <2>8, <2>11, <3>2
    <3>4. B[Depth] <= Len(below)
      BY <2>6, <1>4
    <3>5. QED  BY <1>2, <2>2, <2>3, <2>4, <2>5, <2>6, <2>7, <2>8, <3>1, <3>3, <3>4, ComesBackAbove
  <2>12. QED  BY <2>8, <2>10, <2>11
<1>8. QED  BY <1>6, <1>7

LEMMA ExitvalFits ==
  ASSUME ProgramFits, NEW C, NEW B, NEW K, Fits(C, B, K), ExeEXITVAL
  PROVE  (\E C2, B2, K2 : Fits(C2, B2, K2))'
<1> DEFINE c == Current(C)
           i == Instruction(C)
           d == Depth - 1
           below == Drop(1, eval_stack)
<1>1. /\ i.op = "EXITVAL" /\ Legal(Depth = 1, i, c)
      /\ TrapsAreKept(Leaving(c, Without(1, c), 0))
  BY InstructionIsCertified DEF ExeEXITVAL
<1>2. /\ HasItems(eval_stack, B[Depth], c.st)
      /\ B[Depth] \in Nat /\ c.st \in Seq(Kinds) /\ Len(c.st) \in Nat
  BY CurrentItems
<1>3. Depth # 1 /\ Len(c.st) > 0 /\ TopKind(c) = "EXIT"
  BY <1>2, <1>1 DEF Legal, Operands
<1>4. IsExit(Top)
  <2>1. IsOfKind(Top, TopKind(c))
    BY <1>2, <1>3, TopItem DEF Top, Item, TopKind
  <2>2. QED  BY <1>3, <2>1 DEF IsOfKind
<1>5. /\ HasItems(below, B[Depth], Without(1, c)) /\ IsStack(below)
      /\ Len(Without(1, c)) = Len(c.st) - 1
      /\ SameUpTo(Len(below), below, eval_stack) /\ B[Depth] <= Len(below)
  <2>1. IsStack(eval_stack) /\ Len(eval_stack) = B[Depth] + Len(c.st)
    BY <1>2 DEF HasItems
  <2>2. 1 \in Nat /\ 1 <= Len(eval_stack) /\ 1 <= Len(c.st)
    BY <1>2, <1>3, <2>1
  <2>3. /\ IsStack(below) /\ Len(below) = Len(eval_stack) - 1
        /\ \A e \in 1..Len(eval_stack) - 1 : At(below, e) = At(eval_stack, e)
    BY <2>1, <2>2, DroppedStack
  <2>4. HasItems(below, B[Depth], Without(1, c))
    BY <1>2, <2>2, DroppedItems DEF Without
  <2>5. Len(Without(1, c)) = Len(c.st) - 1
    BY <1>2, <2>2 DEF Without
  <2> HIDE DEF below
  <2>6. SameUpTo(Len(below), below, eval_stack)
    BY <2>3 DEF SameUpTo
  <2>7. B[Depth] <= Len(below)
    BY <1>2, <1>3, <2>1, <2>3
  <2>8. QED  BY <2>3, <2>4, <2>5, <2>6, <2>7
<1>6. CanUnwind(C, B, below)
  <2>1. ASSUME NEW j \in 1..Len(c.tr)
        PROVE  B[Depth] + c.tr[j].items <= Len(below)
    <3>1. j \in DOMAIN c.tr /\ c.tr[j].items \in Nat
      <4>1. \E T : c.tr \in Seq(T)
        BY CurrentTraps
      <4>2. c.tr[j].items \in Nat
        BY DepthTyped, TrapsTyped DEF Current
      <4>3. QED  BY <4>1, <4>2
    <3>2. c.tr[j].items <= Len(Without(1, c))
      BY <1>1, <3>1 DEF TrapsAreKept, Leaving, Config
    <3>3. /\ Len(below) \in Nat /\ Len(Without(1, c)) \in Nat
          /\ B[Depth] + Len(Without(1, c)) <= Len(below) /\ Len(below) <= Len(below)
      <4>1. Len(below) = B[Depth] + Len(Without(1, c))
        BY <1>5 DEF HasItems
      <4>2. Len(Without(1, c)) \in Nat
        BY <1>2, <1>3, <1>5
      <4>3. QED  BY <1>2, <4>1, <4>2
    <3> HIDE DEF below
    <3>4. QED  BY <1>2, <3>1, <3>2, <3>3, SumBelow
  <2>2. QED  BY <2>1, <1>5 DEF CanUnwind
<1>7. GotoTrapHandler(Top, below)
  BY DEF ExeEXITVAL
<1>8. CASE trap_stack # <<>>
  <2>1. HandleExit(Top, below)
    BY <1>7, <1>8 DEF GotoTrapHandler
  <2>2. QED  BY <1>4, <1>6, <1>8, <2>1, ExitFits
<1>9. CASE trap_stack = <<>> /\ Top = Exit(RuntimeError)
  <2>1. ThrowRuntimeErrorException(below)
    BY <1>7, <1>9 DEF GotoTrapHandler
  <2>2. QED  BY <1>6, <2>1, RuntimeErrorFits
<1>10. CASE trap_stack = <<>> /\ Top # Exit(RuntimeError)
  <2>1. CleanExplOpApply(Push(Top, below))
    BY <1>7, <1>10 DEF GotoTrapHandler
  <2>2. Head(Push(Top, below)) = Top
    BY <1>5, PushedStack
  <2>3. Top.tag \notin {"CONT", "RETURN"}
    BY <1>4 DEF IsExit
  <2>4. /\ eval_stack' = Push(Top, below)
        /\ env_l' = Tail(env_l) /\ call_stack' = Tail(call_stack) /\ pc' = Head(call_stack).pc
        /\ UNCHANGED programs /\ UNCHANGED trap_stack /\ UNCHANGED strayed
    BY <1>4, <2>1, <2>2, <2>3 DEF CleanExplOpApply
  <2>5. K[Depth] = 0 /\ c.tr = <<>>
    <3>1. /\ Len(trap_stack) = K[Depth] + Len(c.tr) /\ K[Depth] \in Nat
          /\ \E T : c.tr \in Seq(T)
      BY CurrentTraps
    <3>2. PICK T : c.tr \in Seq(T)
      BY <3>1
    <3>3. Len(c.tr) \in Nat /\ Len(trap_stack) = 0
      BY <3>2, <1>10
    <3>4. K[Depth] = 0 /\ Len(c.tr) = 0
      BY <3>1, <3>3
    <3>5. QED  BY <3>2, <3>4
  <2>6. d \in 1..Depth
    BY <1>3, HasCaller
  <2>7. IsOfKind(Top, "EXIT")
    BY <1>4 DEF IsOfKind
  <2> HIDE DEF below
  <2>8. QED  BY <1>5, <2>4, <2>5, <2>6, <2>7, ComesBackAbove
<1>11. QED  BY <1>8, <1>9, <1>10

-----------------------------------------------------------------------------
(* The call of an operation.                                                 *)

\* A called operation starts in a configuration of its certificate.
LEMMA CalledIsCertified ==
  ASSUME ProgramFits, NEW oper \in Operation
  PROVE  /\ ExtractInstr(oper) \in OperationCodes
         /\ Start(FALSE) \in Certificate(ExtractInstr(oper))
         /\ WellFormed(Certificate(ExtractInstr(oper)), ExtractInstr(oper), Start(FALSE))
<1>1. oper # DebugCmd
  BY DEF Operation, DebugCmd
<1>2. ExtractInstr(oper) = Compiled(program)[oper]
  BY <1>1 DEF ExtractInstr, ProgramFits
<1>3. ExtractInstr(oper) \in OperationCodes
  BY <1>2 DEF OperationCodes, ProgramFits
<1>4. Verified(Certificate(ExtractInstr(oper)), FALSE, ExtractInstr(oper))
  BY <1>3, CodeIsVerified
<1>5. Start(FALSE) \in Certificate(ExtractInstr(oper))
  BY <1>4 DEF Verified
<1>6. WellFormed(Certificate(ExtractInstr(oper)), ExtractInstr(oper), Start(FALSE))
  BY <1>4, <1>5 DEF Verified
<1>7. QED  BY <1>3, <1>5, <1>6

LEMMA ApplyFits ==
  ASSUME ProgramFits, NEW C, NEW B, NEW K, Fits(C, B, K), NEW n, n = Depth, ExeAPPLY
  PROVE  (\E C2, B2, K2 : Fits(C2, B2, K2))'
<1> DEFINE c == Current(C)
           i == Instruction(C)
           caller == Calling(c)
           called == Start(FALSE)
           base == Len(eval_stack')
           traps == Len(trap_stack)
<1>1. /\ i.op = "APPLY" /\ arg = i.arg /\ Legal(Depth = 1, i, c)
      /\ After(i, c) \subseteq Certified /\ WellFormed(Certified, CurrentCode, caller)
  BY InstructionIsCertified DEF ExeAPPLY
<1>2. /\ n \in Nat \ {0} /\ n \in 1..n
      /\ \A d \in 1..n : d \in Nat /\ B[d] \in Nat /\ K[d] \in Nat
  BY DepthTyped, FitTypes
<1>3. /\ HasItems(eval_stack, B[n], c.st)
      /\ B[n] \in Nat /\ c.st \in Seq(Kinds) /\ Len(c.st) \in Nat
  BY CurrentItems
<1>4. /\ Len(c.st) > 0 /\ c.aftermath = FALSE /\ i.arg \in Operation
  <2>1. c.aftermath \in BOOLEAN
    BY CurrentItems, DepthTyped, CertifiedIsWellFormed DEF Certified, CurrentCode
  <2>2. QED  BY <2>1, <1>1, <1>3 DEF Legal, Operands
<1>5. Resumptions(caller) \subseteq Certified
  <2>1. After(i, c) = Resumptions(caller)
    BY <1>1 DEF After
  <2>2. QED  BY <1>1, <2>1
<1>6. /\ caller.pc = c.pc + 1 /\ caller.st = Without(1, c) /\ caller.en = c.en
      /\ caller.tr = c.tr /\ caller.aftermath = FALSE
  BY DEF Calling, Config
<1>7. /\ called.pc = 0 /\ called.st = <<>> /\ called.en = 1 /\ called.tr = <<>>
      /\ called.aftermath = FALSE
  BY DEF Start, Config
<1>8. /\ Start(FALSE) \in Certificate(ExtractInstr(i.arg))
      /\ WellFormed(Certificate(ExtractInstr(i.arg)), ExtractInstr(i.arg), Start(FALSE))
  BY <1>4, CalledIsCertified
<1>9. /\ call_stack' = Push(Frame(i.arg, pc + 1), call_stack)
      /\ pc' = 0
      /\ env_l' = Push(<<BlkEnv(Top)>>, env_l)
      /\ eval_stack' = Drop(1, eval_stack)
      /\ UNCHANGED programs /\ UNCHANGED trap_stack /\ UNCHANGED strayed
  BY <1>1 DEF ExeAPPLY
<1>10. /\ HasItems(eval_stack', B[n], Without(1, c)) /\ Without(1, c) \in Seq(Kinds)
      /\ SameUpTo(B[n], eval_stack', eval_stack)
  <2>1. 1 \in Nat /\ 1 <= Len(c.st)
    BY <1>3, <1>4
  <2>2. QED  BY <1>3, <1>9, <2>1, DroppedItems DEF Without
<1>11. /\ base \in Nat /\ base = B[n] + Len(caller.st) /\ Len(caller.st) \in Nat
  <2>1. base = B[n] + Len(Without(1, c)) /\ Len(Without(1, c)) \in Nat
    BY <1>10 DEF HasItems
  <2>2. QED  BY <2>1, <1>3, <1>6
<1>12. traps \in Nat /\ traps = K[n] + Len(c.tr) /\ Len(c.tr) \in Nat
  <2>1. traps = K[n] + Len(c.tr)
    BY CurrentTraps
  <2>2. \A d \in 1..Depth : Len(C[d].tr) \in Nat
    BY FitTypes
  <2>3. traps \in Nat
    BY FitTypes
  <2>4. QED  BY <2>1, <2>2, <2>3, <1>2 DEF Current
<1> HIDE DEF caller, called, base, traps, i
<1>13. PICK C2 : C2 = [[C EXCEPT ![n] = caller] EXCEPT ![n + 1] = called]
  OBVIOUS
<1>14. PICK B2 : B2 = [B EXCEPT ![n + 1] = base]
  OBVIOUS
<1>15. PICK K2 : K2 = [K EXCEPT ![n + 1] = traps]
  OBVIOUS
<1>16. /\ DOMAIN C2 = Nat /\ C2[n + 1] = called /\ C2[n] = caller
       /\ \A d \in 1..n : d # n => C2[d] = C[d]
  <2>1. DOMAIN C = Nat /\ n \in Nat /\ n + 1 \in Nat /\ n + 1 # n
    BY <1>2 DEF Fits
  <2>2. \A d \in 1..n : d \in Nat /\ d # n + 1
    BY <1>2
  <2>3. QED  BY <2>1, <2>2, <1>13
<1>17. /\ B2 \in [Nat -> Nat] /\ B2[n + 1] = base
       /\ K2 \in [Nat -> Nat] /\ K2[n + 1] = traps
       /\ \A d \in 1..n : B2[d] = B[d] /\ K2[d] = K[d]
  <2>1. n + 1 \in Nat /\ B \in [Nat -> Nat] /\ K \in [Nat -> Nat]
    BY <1>2 DEF Fits
  <2>2. \A d \in 1..n : d \in Nat /\ d # n + 1
    BY <1>2
  <2>3. QED  BY <2>1, <2>2, <1>11, <1>12, <1>14, <1>15
<1>18. /\ IsStack(call_stack') /\ Len(call_stack') = n + 1
       /\ At(call_stack', n + 1) = Frame(i.arg, pc + 1)
       /\ \A d \in 1..n : At(call_stack', d) = At(call_stack, d)
  <2>1. IsStack(call_stack) /\ Len(call_stack) = n
    BY DEF Fits, OperationsFit, Depth
  <2>2. /\ IsStack(Push(Frame(i.arg, pc + 1), call_stack))
        /\ Len(Push(Frame(i.arg, pc + 1), call_stack)) = Len(call_stack) + 1
        /\ At(Push(Frame(i.arg, pc + 1), call_stack), Len(call_stack) + 1) = Frame(i.arg, pc + 1)
        /\ \A d \in 1..Len(call_stack) :
             At(Push(Frame(i.arg, pc + 1), call_stack), d) = At(call_stack, d)
    BY <2>1, PushedStack
  <2>3. QED  BY <2>1, <2>2, <1>9
<1>19. Depth' = n + 1 /\ Depth' - 1 = n /\ Depth' > 0
  <2>1. Depth' = n + 1
    BY <1>18 DEF Depth
  <2>2. QED  BY <2>1, <1>2
<1>20. \A d \in 1..n + 1 : d = n + 1 \/ (d # n + 1 /\ d \in 1..n)
  BY <1>2
<1>21. /\ \A d \in 1..n : CodeAt(d)' = CodeAt(d)
       /\ CodeAt(n + 1)' = ExtractInstr(i.arg)
  <2>1. program_table' = program_table /\ RTErrException' = RTErrException
    BY <1>9 DEF programs
  <2>2. \A code : ExtractInstr(code)' = ExtractInstr(code)
    BY <2>1 DEF ExtractInstr
  <2>3. At(call_stack', n + 1).code = i.arg
    BY <1>18 DEF Frame
  <2>4. QED  BY <2>1, <2>3, <1>18 DEF CodeAt, ExtractInstr
<1>22. OperationsFit(C2)'
  <2>1. ASSUME NEW d \in 1..n + 1
        PROVE  /\ At(call_stack', d).code \in IF d = 1 THEN {DebugCmd} ELSE Operation
               /\ WellFormed(Certificate(CodeAt(d)'), CodeAt(d)', C2[d])
    <3>1. CASE d = n + 1
      <4>1. At(call_stack', d).code = i.arg /\ d # 1
        BY <3>1, <1>2, <1>18 DEF Frame
      <4>2. WellFormed(Certificate(CodeAt(d)'), CodeAt(d)', C2[d])
        BY <3>1, <1>8, <1>16, <1>21 DEF called
      <4>3. QED  BY <4>1, <4>2, <1>4
    <3>2. CASE d \in 1..n
      <4>1. At(call_stack', d) = At(call_stack, d) /\ CodeAt(d)' = CodeAt(d)
        BY <3>2, <1>18, <1>21
      <4>2. /\ At(call_stack, d).code \in IF d = 1 THEN {DebugCmd} ELSE Operation
            /\ WellFormed(Certificate(CodeAt(d)), CodeAt(d), C[d])
        BY <3>2 DEF Fits, OperationsFit
      <4>3. WellFormed(Certificate(CodeAt(d)), CodeAt(d), C2[d])
        <5>1. CASE d = n
          BY <5>1, <1>1, <1>16 DEF Certified, CurrentCode, caller
        <5>2. CASE d # n
          BY <5>2, <3>2, <4>2, <1>16
        <5>3. QED  BY <5>1, <5>2
      <4>4. QED  BY <4>1, <4>2, <4>3
    <3>3. QED  BY <3>1, <3>2, <1>20
  <2>2. ASSUME NEW d \in 1..n
        PROVE  /\ Resumptions(C2[d]) \subseteq Certificate(CodeAt(d)')
               /\ At(call_stack', d + 1).pc = C2[d].pc
    <3>1. CodeAt(d)' = CodeAt(d)
      BY <1>21
    <3>2. CASE d = n
      <4>1. c.pc = pc
        BY DEF Fits, OperationsFit, Current
      <4>2. At(call_stack', d + 1).pc = C2[d].pc
        BY <3>2, <4>1, <1>6, <1>16, <1>18 DEF Frame
      <4>3. QED  BY <3>1, <3>2, <4>2, <1>5, <1>16 DEF Certified, CurrentCode
    <3>3. CASE d # n
      <4>1. d \in 1..n - 1 /\ d + 1 \in 1..n
        BY <3>3, <1>2
      <4>2. /\ Resumptions(C[d]) \subseteq Certificate(CodeAt(d))
            /\ At(call_stack, d + 1).pc = C[d].pc
        BY <4>1 DEF Fits, OperationsFit
      <4>3. At(call_stack', d + 1) = At(call_stack, d + 1)
        BY <4>1, <1>18
      <4>4. QED  BY <3>1, <3>3, <4>2, <4>3, <1>16
    <3>4. QED  BY <3>2, <3>3
  <2>3. n + 1 > 0 /\ n + 1 - 1 = n
    BY <1>2
  <2>4. C2[n + 1] \in Certificate(CodeAt(n + 1)') /\ C2[n + 1].pc = pc'
    BY <1>7, <1>8, <1>9, <1>16, <1>21 DEF called
  <2>5. QED  BY <1>18, <1>19, <2>1, <2>2, <2>3, <2>4 DEF OperationsFit
<1>23. ItemsFit(C2, B2)'
  <2>1. ASSUME NEW d \in 1..n + 1, NEW j \in 1..Len(C2[d].st)
        PROVE  IsOfKind(At(eval_stack', B2[d] + j), C2[d].st[j])
    <3>1. CASE d = n + 1
      BY <3>1, <1>7, <1>16
    <3>2. CASE d = n
      <4>1. C2[d].st = Without(1, c) /\ B2[d] = B[n]
        BY <3>2, <1>2, <1>6, <1>16, <1>17
      <4>2. QED  BY <4>1, <1>10 DEF HasItems
    <3>3. CASE d \in 1..n /\ d # n
      <4>1. C2[d] = C[d] /\ B2[d] = B[d] /\ d < n
        BY <3>3, <1>2, <1>16, <1>17
      <4>2. IsOfKind(At(eval_stack, B[d] + j), C[d].st[j])
        BY <3>3, <4>1 DEF Fits, ItemsFit
      <4>3. B[d] + Len(C[d].st) <= B[n]
        BY <3>3, <4>1, <1>2 DEF Fits, ItemsFit
      <4>4. Len(C[d].st) \in Nat /\ j \in 1..Len(C[d].st)
        BY <3>3, <4>1, FitTypes
      <4>5. B[d] + j \in 1..B[n]
        <5>1. B[d] \in Nat /\ B[n] \in Nat
          BY <3>3, <1>2
        <5>2. QED  BY <4>3, <4>4, <5>1
      <4>6. At(eval_stack', B[d] + j) = At(eval_stack, B[d] + j)
        BY <4>5, <1>10 DEF SameUpTo
      <4>7. QED  BY <4>1, <4>2, <4>6
    <3>4. QED  BY <3>1, <3>2, <3>3, <1>20
  <2>2. ASSUME NEW d \in 1..n + 1, NEW e \in 1..n + 1, d < e
        PROVE  B2[d] + Len(C2[d].st) <= B2[e]
    <3>1. d \in 1..n /\ d \in Nat /\ B[d] \in Nat
      BY <2>2, <1>2
    <3>2. CASE e = n + 1 /\ d = n
      <4>1. B2[d] + Len(C2[d].st) = base /\ B2[e] = base
        BY <3>1, <3>2, <1>11, <1>16, <1>17
      <4>2. base <= base
        BY <1>11
      <4>3. QED  BY <4>1, <4>2
    <3>3. CASE d # n
      <4>1. C2[d] = C[d] /\ B2[d] = B[d] /\ Len(C[d].st) \in Nat /\ d < n
        <5>1. d < n
          BY <3>1, <3>3, <1>2
        <5>2. QED  BY <5>1, <3>1, <3>3, <1>16, <1>17, FitTypes
      <4>2. B[d] + Len(C[d].st) <= B[n]
        BY <3>1, <4>1, <1>2 DEF Fits, ItemsFit
      <4>3. CASE e = n + 1
        <5>1. B[n] <= base /\ B[n] \in Nat
          BY <1>2, <1>11
        <5>2. B[d] + Len(C[d].st) \in Nat
          BY <3>1, <4>1
        <5>3. B[d] + Len(C[d].st) <= base
          BY <4>2, <5>1, <5>2, <1>11
        <5>4. QED  BY <4>1, <4>3, <5>3, <1>17
      <4>4. CASE e \in 1..n
        <5>1. B[d] + Len(C[d].st) <= B[e]
          BY <2>2, <3>1, <4>4 DEF Fits, ItemsFit
        <5>2. QED  BY <4>1, <4>4, <5>1, <1>17
      <4>5. QED  BY <4>3, <4>4, <1>20
    <3>4. e = n + 1 \/ d # n
      BY <2>2, <1>2
    <3>5. QED  BY <3>2, <3>3, <3>4
  <2>3. IsStack(eval_stack') /\ Len(eval_stack') = B2[n + 1] + Len(C2[n + 1].st)
    <3>1. IsStack(eval_stack') /\ Len(eval_stack') = base
      BY <1>10 DEF HasItems, base
    <3>2. base + Len(<<>>) = base
      BY <1>11
    <3>3. QED  BY <3>1, <3>2, <1>7, <1>16, <1>17
  <2>4. QED  BY <1>19, <2>1, <2>2, <2>3 DEF ItemsFit
<1>24. EnvironmentsFit(C2)'
  <2>1. IsStack(env_l) /\ Len(env_l) = n
    BY DEF Fits, EnvironmentsFit
  <2>2. /\ IsStack(env_l') /\ Len(env_l') = n + 1
        /\ At(env_l', n + 1) = <<BlkEnv(Top)>>
        /\ \A d \in 1..n : At(env_l', d) = At(env_l, d)
    <3>1. /\ IsStack(Push(<<BlkEnv(Top)>>, env_l))
          /\ Len(Push(<<BlkEnv(Top)>>, env_l)) = Len(env_l) + 1
          /\ At(Push(<<BlkEnv(Top)>>, env_l), Len(env_l) + 1) = <<BlkEnv(Top)>>
          /\ \A d \in 1..Len(env_l) : At(Push(<<BlkEnv(Top)>>, env_l), d) = At(env_l, d)
      BY <2>1, PushedStack
    <3>2. QED  BY <2>1, <3>1, <1>9
  <2>3. ASSUME NEW d \in 1..n + 1
        PROVE  IsStack(At(env_l', d)) /\ Len(At(env_l', d)) = C2[d].en
    <3>1. CASE d = n + 1
      <4>1. <<BlkEnv(Top)>> \in Seq({BlkEnv(Top)}) /\ Len(<<BlkEnv(Top)>>) = 1
        OBVIOUS
      <4>2. IsStack(<<BlkEnv(Top)>>)
        BY <4>1, SequencesAreStacks
      <4>3. QED  BY <3>1, <4>1, <4>2, <2>2, <1>7, <1>16
    <3>2. CASE d \in 1..n
      <4>1. IsStack(At(env_l, d)) /\ Len(At(env_l, d)) = C[d].en
        BY <3>2 DEF Fits, EnvironmentsFit
      <4>2. C2[d].en = C[d].en
        BY <3>2, <1>6, <1>16 DEF Current
      <4>3. QED  BY <3>2, <4>1, <4>2, <2>2
    <3>3. QED  BY <3>1, <3>2, <1>20
  <2>4. QED  BY <1>19, <2>2, <2>3 DEF EnvironmentsFit
<1>25. \A d \in 1..n : C2[d].tr = C[d].tr
  BY <1>6, <1>16 DEF Current
<1>26. TrapsFit(C2, B2, K2)'
  <2>1. /\ K[1] = 0 /\ (\A d \in 1..n - 1 : K[d + 1] = K[d] + Len(C[d].tr))
        /\ \A d, e \in 1..n : d < e => K[d] + Len(C[d].tr) <= K[e]
        /\ \A d \in 1..n : \A j \in 1..Len(C[d].tr) :
             At(trap_stack, K[d] + j) = TrapAt(C[d].tr[j], d, B[d])
        /\ \A j \in 1..Len(trap_stack) :
             \E d \in 1..n : K[d] < j /\ j <= K[d] + Len(C[d].tr)
        /\ IsStack(trap_stack)
    BY DEF Fits, TrapsFit
  <2>2. IsStack(trap_stack') /\ trap_stack' = trap_stack
    BY <1>9, <2>1
  <2>3. Len(trap_stack') = K2[n + 1] + Len(C2[n + 1].tr)
    <3>1. traps + Len(<<>>) = traps
      BY <1>12
    <3>2. QED  BY <3>1, <2>2, <1>7, <1>16, <1>17 DEF traps
  <2>4. K2[1] = 0
    <3>1. 1 \in 1..n
      BY <1>2
    <3>2. QED  BY <3>1, <2>1, <1>17
  <2>5. ASSUME NEW d \in 1..n
        PROVE  K2[d + 1] = K2[d] + Len(C2[d].tr)
    <3>1. CASE d = n
      BY <3>1, <1>12, <1>17, <1>25 DEF Current
    <3>2. CASE d # n
      <4>1. d \in 1..n - 1 /\ d + 1 \in 1..n
        BY <3>2, <1>2
      <4>2. QED  BY <4>1, <2>1, <1>17, <1>25
    <3>3. QED  BY <3>1, <3>2
  <2>6. ASSUME NEW d \in 1..n + 1, NEW e \in 1..n + 1, d < e
        PROVE  K2[d] + Len(C2[d].tr) <= K2[e]
    <3>1. d \in 1..n /\ d \in Nat /\ K[d] \in Nat /\ K2[d] = K[d] /\ C2[d].tr = C[d].tr
          /\ Len(C[d].tr) \in Nat
      <4>1. d \in 1..n
        BY <2>6, <1>2
      <4>2. QED  BY <4>1, <1>2, <1>17, <1>25, FitTypes
    <3>2. CASE e \in 1..n
      <4>1. K[d] + Len(C[d].tr) <= K[e]
        BY <2>1, <2>6, <3>1, <3>2
      <4>2. QED  BY <3>1, <3>2, <4>1, <1>17
    <3>3. CASE e = n + 1
      <4>1. K[d] + Len(C[d].tr) <= traps
        <5>1. CASE d = n
          BY <5>1, <3>1, <1>12 DEF Current
        <5>2. CASE d # n
          <6>1. d < n
            BY <5>2, <3>1, <1>2
          <6>2. K[d] + Len(C[d].tr) <= K[n]
            BY <6>1, <3>1, <2>1, <1>2
          <6>3. K[n] <= traps /\ K[n] \in Nat
            BY <1>2, <1>12
          <6>4. K[d] + Len(C[d].tr) \in Nat
            BY <3>1
          <6>5. QED  BY <6>2, <6>3, <6>4, <1>12
        <5>3. QED  BY <5>1, <5>2
      <4>2. QED  BY <3>1, <3>3, <4>1, <1>17
    <3>4. QED  BY <3>2, <3>3, <1>20
  <2>7. ASSUME NEW d \in 1..n + 1, NEW j \in 1..Len(C2[d].tr)
        PROVE  At(trap_stack', K2[d] + j) = TrapAt(C2[d].tr[j], d, B2[d])
    <3>1. CASE d = n + 1
      BY <3>1, <1>7, <1>16
    <3>2. CASE d \in 1..n
      BY <3>2, <2>1, <2>2, <1>17, <1>25
    <3>3. QED  BY <3>1, <3>2, <1>20
  <2>8. ASSUME NEW j \in 1..Len(trap_stack')
        PROVE  \E d \in 1..n + 1 : K2[d] < j /\ j <= K2[d] + Len(C2[d].tr)
    <3>1. PICK d \in 1..n : K[d] < j /\ j <= K[d] + Len(C[d].tr)
      BY <2>1, <2>2
    <3>2. d \in 1..n + 1
      BY <1>2
    <3>3. QED  BY <3>1, <3>2, <1>17, <1>25
  <2>9. n + 1 - 1 = n
    BY <1>2
  <2>10. QED  BY <1>19, <2>2, <2>3, <2>4, <2>5, <2>6, <2>7, <2>8, <2>9 DEF TrapsFit
<1>27. LeftBehind(C2, B2, K2)'
  <2>1. ASSUME NEW d \in 1..n
        PROVE  /\ d = n => B2[d + 1] = B2[d] + Len(C2[d].st)
               /\ d # n => /\ d \in 1..n - 1
                           /\ B2[d + 1] = B[d + 1] /\ K2[d + 1] = K[d + 1]
                           /\ B2[d] + Len(C2[d].st) = B[d] + Len(C[d].st)
    <3>1. CASE d = n
      BY <3>1, <1>11, <1>16, <1>17
    <3>2. CASE d # n
      <4>1. d \in 1..n - 1 /\ d + 1 \in 1..n
        BY <3>2, <1>2
      <4>2. QED  BY <3>2, <4>1, <1>16, <1>17
    <3>3. QED  BY <3>1, <3>2
  <2>2. \A d \in 1..n : B2[d + 1] = B2[d] + Len(C2[d].st) \/ K2[d + 1] = 0
    <3>1. \A d \in 1..n - 1 : B[d + 1] = B[d] + Len(C[d].st) \/ K[d + 1] = 0
      BY DEF Fits, LeftBehind
    <3>2. QED  BY <2>1, <3>1
  <2>3. strayed' \/ C2[n + 1].aftermath \/ Tight(C2, B2)'
    <3>1. strayed \/ Tight(C, B)
      BY <1>4 DEF Fits, LeftBehind, Current
    <3>2. CASE Tight(C, B)
      <4>1. B2[1] = 0
        <5>1. 1 \in 1..n
          BY <1>2
        <5>2. QED  BY <5>1, <3>2, <1>17 DEF Tight
      <4>2. \A d \in 1..n : B2[d + 1] = B2[d] + Len(C2[d].st)
        BY <2>1, <3>2 DEF Tight
      <4>3. n + 1 - 1 = n
        BY <1>2
      <4>4. QED  BY <4>1, <4>2, <4>3, <1>19 DEF Tight
    <3>3. QED  BY <3>1, <3>2, <1>9
  <2>4. ~C2[n + 1].aftermath
    BY <1>7, <1>16
  <2>5. n + 1 - 1 = n
    BY <1>2
  <2>6. QED  BY <1>19, <2>2, <2>3, <2>4, <2>5 DEF LeftBehind
<1>28. Fits(C2, B2, K2)'
  BY <1>16, <1>17, <1>22, <1>23, <1>24, <1>26, <1>27 DEF Fits
<1>29. QED  BY <1>28

-----------------------------------------------------------------------------
(* The inductive invariant.                                                  *)

LEMMA StartFits ==
  ASSUME Init
  PROVE  StacksFit
<1> DEFINE start == Start(TRUE)
           C == [d \in Nat |-> start]
           B == [d \in Nat |-> 0]
<1>1. /\ start.pc = 0 /\ start.st = <<>> /\ start.en = 0 /\ start.tr = <<>>
      /\ start.aftermath = FALSE
  BY DEF Start, Config
<1>2. ProgramFits
  BY DEF Init, ProgramFits
<1>3. /\ pc = 0 /\ eval_stack = <<>> /\ call_stack = <<Frame(DebugCmd, 0)>>
      /\ env_l = << <<>> >> /\ trap_stack = <<>>
  BY DEF Init, NoEnv
<1>4. /\ DOMAIN C = Nat /\ C[1] = start /\ B \in [Nat -> Nat] /\ B[1] = 0
  OBVIOUS
<1> HIDE DEF start, C, B
<1>5. Depth = 1 /\ At(call_stack, 1) = Frame(DebugCmd, 0) /\ IsStack(call_stack)
  <2>1. call_stack \in Seq({Frame(DebugCmd, 0)}) /\ Len(call_stack) = 1
    BY <1>3
  <2>2. IsStack(call_stack)
    BY <2>1, SequencesAreStacks
  <2>3. At(call_stack, 1) = Frame(DebugCmd, 0)
    BY <2>1, <1>3 DEF At
  <2>4. QED  BY <2>1, <2>2, <2>3 DEF Depth
<1>6. 1..Depth = {1} /\ 1..Depth - 1 = {}
  BY <1>5
<1>7. At(call_stack, 1).code = DebugCmd
  BY <1>5 DEF Frame
<1>8. CodeAt(1) \in DebugCodes
  <2>1. CodeAt(1) = EvalPrintDebugAux(RTErrException)
    BY <1>7 DEF CodeAt, ExtractInstr
  <2>2. QED  BY <2>1, <1>2 DEF DebugCodes, ProgramFits
<1>9. start \in Certificate(CodeAt(1)) /\ WellFormed(Certificate(CodeAt(1)), CodeAt(1), start)
  <2>1. Verified(Certificate(CodeAt(1)), TRUE, CodeAt(1))
    BY <1>8, CodeIsVerified
  <2>2. QED  BY <2>1 DEF Verified, start
<1>10. OperationsFit(C)
  <2>1. C[Depth] \in Certificate(CodeAt(Depth)) /\ C[Depth].pc = pc
    BY <1>1, <1>3, <1>4, <1>5, <1>9
  <2>2. \A d \in 1..Depth :
          /\ At(call_stack, d).code \in IF d = 1 THEN {DebugCmd} ELSE Operation
          /\ WellFormed(Certificate(CodeAt(d)), CodeAt(d), C[d])
    BY <1>4, <1>6, <1>7, <1>9
  <2>3. Depth > 0
    BY <1>5
  <2>4. QED  BY <2>1, <2>2, <2>3, <1>5, <1>6 DEF OperationsFit
<1>11. \A T : IsStack(<<>>) /\ Len(<<>>) = 0
  BY DEF IsStack
<1>12. ItemsFit(C, B)
  <2>1. Len(C[Depth].st) = 0
    BY <1>1, <1>4, <1>5
  <2>2. B[Depth] = 0 /\ 0 + 0 = 0
    BY <1>4, <1>5
  <2>3. \A d \in 1..Depth : C[d].st = <<>>
    BY <1>1, <1>4, <1>6
  <2>4. \A d, e \in 1..Depth : ~(d < e)
    BY <1>6
  <2>5. QED  BY <2>1, <2>2, <2>3, <2>4, <1>3, <1>11 DEF ItemsFit
<1>13. EnvironmentsFit(C)
  <2>1. env_l \in Seq({<<>>}) /\ Len(env_l) = 1 /\ env_l[1] = <<>>
    BY <1>3
  <2>2. IsStack(env_l)
    BY <2>1, SequencesAreStacks
  <2>3. At(env_l, 1) = <<>>
    BY <2>1 DEF At
  <2>4. QED  BY <2>1, <2>2, <2>3, <1>1, <1>4, <1>5, <1>6, <1>11 DEF EnvironmentsFit
<1>14. TrapsFit(C, B, B)
  <2>1. B[Depth] = 0 /\ Len(C[Depth].tr) = 0 /\ 0 + 0 = 0
    BY <1>1, <1>4, <1>5
  <2>2. \A d \in 1..Depth : C[d].tr = <<>>
    BY <1>1, <1>4, <1>6
  <2>3. \A d, e \in 1..Depth : ~(d < e)
    BY <1>6
  <2>4. 1..Len(trap_stack) = {} /\ Len(trap_stack) = 0 /\ 1..Len(<<>>) = {}
    BY <1>3
  <2>5. QED  BY <2>1, <2>2, <2>3, <2>4, <1>3, <1>4, <1>6, <1>11 DEF TrapsFit
<1>15. LeftBehind(C, B, B)
  BY <1>1, <1>4, <1>5, <1>6 DEF LeftBehind, Tight
<1>16. Fits(C, B, B)
  BY <1>4, <1>10, <1>12, <1>13, <1>14, <1>15 DEF Fits
<1>17. QED  BY <1>2, <1>16 DEF StacksFit

\* No step changes the program.
LEMMA ProgramStays ==
  ASSUME Next
  PROVE  UNCHANGED programs
<1>1. CASE ExeBranch \/ ExePushPop \/ ExeBelowTop
  BY <1>1 DEF ExeBranch, ExePushPop, ExeBelowTop, OnlyStack
<1>2. CASE ExeCOPYVAL \/ ExeINSET \/ ExeLOOKUP
  BY <1>2 DEF ExeCOPYVAL, ExeINSET, ExeLOOKUP, Yields, OnlyStack
<1>3. CASE ExeStatementValue
  BY <1>3 DEF ExeStatementValue, Yields, OnlyStack
<1>4. CASE ExeCounter \/ ExeTRYANYMATCH
  BY <1>4 DEF ExeCounter, ExeTRYANYMATCH, Yields, OnlyStack
<1>5. CASE ExeEMPTYBLKENV \/ ExePOPBLKENV \/ ExeAPPENDBLKENV \/ ExeSELBLKENV \/ ExeASSIGNSD
  BY <1>5 DEF ExeEMPTYBLKENV, ExePOPBLKENV, ExeAPPENDBLKENV, ExeSELBLKENV, ExeASSIGNSD, OnlyEnv
<1>6. CASE ExePUSHTH \/ ExePOPTH \/ ExeAPPLY
  BY <1>6 DEF ExePUSHTH, ExePOPTH, ExeAPPLY
<1>7. \A item, stack : HandleExit(item, stack) => UNCHANGED programs
  BY DEF HandleExit
<1>8. \A stack : ThrowRuntimeErrorException(stack) => UNCHANGED programs
  BY <1>7 DEF ThrowRuntimeErrorException
<1>9. \A stack : CleanExplOpApply(stack) => UNCHANGED programs
  BY <1>8 DEF CleanExplOpApply
<1>10. CASE ExeRETURN \/ ExeEXITVAL \/ ExeERRINST
  BY <1>7, <1>8, <1>9, <1>10 DEF ExeRETURN, ExeEXITVAL, ExeERRINST, GotoTrapHandler
<1>11. QED  BY <1>1, <1>2, <1>3, <1>4, <1>5, <1>6, <1>10 DEF Next

LEMMA StepFits ==
  ASSUME StacksFit, [Next]_vars
  PROVE  StacksFit'
<1>1. ProgramFits
  BY DEF StacksFit
<1>2. PICK C, B, K : Fits(C, B, K)
  BY DEF StacksFit
<1>3. CASE Next
  <2>1. ProgramFits'
    <3>1. UNCHANGED programs
      BY <1>3, ProgramStays
    <3>2. QED  BY <1>1, <3>1 DEF ProgramFits, programs
  <2>2. CASE ExeBranch
    BY <2>1, <2>2, <1>1, <1>2, JumpFits DEF StacksFit
  <2>3. CASE ExePushPop
    BY <2>1, <2>3, <1>1, <1>2, PushPopFits DEF StacksFit
  <2>4. CASE ExeCOPYVAL
    BY <2>1, <2>4, <1>1, <1>2, CopyFits DEF StacksFit
  <2>5. CASE ExeBelowTop
    BY <2>1, <2>5, <1>1, <1>2, BelowTopFits DEF StacksFit
  <2>6. CASE ExeINSET
    BY <2>1, <2>6, <1>1, <1>2, InsetFits DEF StacksFit
  <2>7. CASE ExeStatementValue
    BY <2>1, <2>7, <1>1, <1>2, StatementValueFits DEF StacksFit
  <2>8. CASE ExeCounter
    BY <2>1, <2>8, <1>1, <1>2, CounterFits DEF StacksFit
  <2>9. CASE ExeEMPTYBLKENV \/ ExePOPBLKENV \/ ExeSELBLKENV
    BY <2>1, <2>9, <1>1, <1>2, BlocksFit DEF StacksFit
  <2>10. CASE ExeAPPENDBLKENV
    BY <2>1, <2>10, <1>1, <1>2, AppendFits DEF StacksFit
  <2>11. CASE ExeTRYANYMATCH
    BY <2>1, <2>11, <1>1, <1>2, MatchFits DEF StacksFit
  <2>12. CASE ExeLOOKUP
    BY <2>1, <2>12, <1>1, <1>2, LookupFits DEF StacksFit
  <2>13. CASE ExeASSIGNSD
    BY <2>1, <2>13, <1>1, <1>2, AssignFits DEF StacksFit
  <2>14. CASE ExeAPPLY
    BY <2>1, <2>14, <1>1, <1>2, ApplyFits DEF StacksFit
  <2>15. CASE ExeRETURN
    BY <2>1, <2>15, <1>1, <1>2, ReturnFits DEF StacksFit
  <2>16. CASE ExePUSHTH
    BY <2>1, <2>16, <1>1, <1>2, PushTrapFits DEF StacksFit
  <2>17. CASE ExePOPTH
    BY <2>1, <2>17, <1>1, <1>2, PopTrapFits DEF StacksFit
  <2>18. CASE ExeEXITVAL
    BY <2>1, <2>18, <1>1, <1>2, ExitvalFits DEF StacksFit
  <2>19. CASE ExeERRINST
    BY <2>1, <2>19, <1>1, <1>2, ErrInstFits DEF StacksFit
  <2>20. QED  BY <1>3, <2>2, <2>3, <2>4, <2>5, <2>6, <2>7, <2>8, <2>9, <2>10, <2>11, <2>12,
                <2>13, <2>14, <2>15, <2>16, <2>17, <2>18, <2>19 DEF Next
<1>4. CASE UNCHANGED vars
  <2>1. UNCHANGED <<programs, pc, stacks, strayed>>
    BY <1>4 DEF vars
  <2>2. (\E C2, B2, K2 : Fits(C2, B2, K2))'
    BY <2>1, <1>1, <1>2, NothingChanges
  <2>3. ProgramFits'
    BY <1>1, <2>1 DEF ProgramFits, programs
  <2>4. QED  BY <2>2, <2>3 DEF StacksFit
<1>5. QED  BY <1>3, <1>4

\* Every operation stays in the configurations of its certificate: at every step
\* it has the items, the block environments and the traps that the code it
\* executes counts on, between those of its caller and of the ones it called.
THEOREM OperationsKeepToTheirCode == Spec => []StacksFit
<1>1. Init => StacksFit
  BY StartFits
<1>2. StacksFit /\ [Next]_vars => StacksFit'
  BY StepFits
<1>3. QED  BY <1>1, <1>2, PTL DEF Spec

-----------------------------------------------------------------------------
(* What follows from it.                                                     *)

\* The operation that has set trap i, and which of its traps it is.
HasOwner(C, B, K, i) ==
  \E d \in 1..Depth : \E j \in 1..Len(C[d].tr) :
    /\ trap_stack[i] = TrapAt(C[d].tr[j], d, B[d])
    /\ K[d] + j = Len(trap_stack) + 1 - i

LEMMA TrapHasOwner ==
  ASSUME NEW C, NEW B, NEW K, Fits(C, B, K), NEW i \in 1..Len(trap_stack)
  PROVE  HasOwner(C, B, K, i)
<1> DEFINE h == Len(trap_stack) + 1 - i
<1>1. Len(trap_stack) \in Nat /\ h \in 1..Len(trap_stack) /\ Len(trap_stack) + 1 - h = i
  <2>1. Len(trap_stack) \in Nat
    BY FitTypes
  <2>2. QED  BY <2>1
<1>2. PICK d \in 1..Depth : K[d] < h /\ h <= K[d] + Len(C[d].tr)
  BY <1>1 DEF Fits, TrapsFit
<1>3. K[d] \in Nat /\ Len(C[d].tr) \in Nat
  BY FitTypes
<1> DEFINE j == h - K[d]
<1>4. j \in 1..Len(C[d].tr) /\ K[d] + j = h
  BY <1>1, <1>2, <1>3
<1>5. At(trap_stack, h) = trap_stack[i]
  BY <1>1 DEF At
<1>6. At(trap_stack, K[d] + j) = TrapAt(C[d].tr[j], d, B[d])
  BY <1>4 DEF Fits, TrapsFit
<1>7. QED  BY <1>4, <1>5, <1>6 DEF HasOwner

\* A trap has kept no more than one that was set later.
LEMMA TrapsAreInOrder ==
  ASSUME NEW C, NEW B, NEW K, Fits(C, B, K),
         NEW d \in 1..Depth, NEW j \in 1..Len(C[d].tr),
         NEW e \in 1..Depth, NEW k \in 1..Len(C[e].tr), K[e] + k < K[d] + j
  PROVE  e <= d /\ B[e] + C[e].tr[k].items <= B[d] + C[d].tr[j].items
<1>1. /\ d \in Nat /\ e \in Nat
      /\ K[d] \in Nat /\ K[e] \in Nat /\ B[d] \in Nat /\ B[e] \in Nat
      /\ Len(C[d].tr) \in Nat /\ Len(C[e].tr) \in Nat /\ Len(C[e].st) \in Nat
  BY FitTypes
<1>2. e <= d
  <2>1. CASE d < e
    <3>1. K[d] + Len(C[d].tr) <= K[e]
      BY <2>1 DEF Fits, TrapsFit
    <3>2. \A base, some, all, next, more \in Nat :
            base + all <= next /\ some <= all => ~(next + more < base + some)
      OBVIOUS
    <3>3. j \in Nat /\ j <= Len(C[d].tr) /\ k \in Nat
      BY <1>1
    <3>4. QED  BY <3>1, <3>2, <3>3, <1>1
  <2>2. QED  BY <2>1, <1>1
<1>3. /\ C[d].tr[j].items \in Nat
      /\ C[e].tr[k].items \in Nat /\ C[e].tr[k].items <= Len(C[e].st)
  BY TrapsTyped
<1>4. CASE e = d
  <2>1. k < j
    BY <1>1, <1>4
  <2>2. TrapsAreKept(C[d]) /\ C[d] \in Configs(CodeAt(d))
    BY DEF Fits, OperationsFit, WellFormed
  <2>3. C[d].tr \in Seq([id : HandlerIds(CodeAt(d)), items : Nat, blocks : Nat])
    BY <2>2 DEF Configs
  <2>4. DOMAIN C[d].tr = 1..Len(C[d].tr)
    BY <2>3
  <2>5. j \in DOMAIN C[d].tr /\ k \in DOMAIN C[d].tr
    BY <1>4, <2>4
  <2>6. C[d].tr[k].items <= C[d].tr[j].items
    BY <2>1, <2>2, <2>5 DEF TrapsAreKept
  <2>7. \A base, some, all \in Nat : some <= all => base + some <= base + all
    OBVIOUS
  <2>8. QED  BY <1>1, <1>2, <1>3, <1>4, <2>6, <2>7
<1>5. CASE e < d
  <2>1. B[e] + Len(C[e].st) <= B[d]
    BY <1>5 DEF Fits, ItemsFit
  <2>2. \A base, some \in Nat : base <= base + some /\ base + some \in Nat
    OBVIOUS
  <2>3. B[d] <= B[d] + C[d].tr[j].items /\ B[d] + C[d].tr[j].items \in Nat
    BY <1>1, <1>3, <2>2
  <2>4. B[d] <= B[d]
    BY <1>1
  <2>5. B[e] + C[e].tr[k].items \in Nat /\ B[e] + C[e].tr[k].items <= B[d]
    BY <1>1, <1>3, <2>1, <2>4, SumBelow
  <2>6. \A a, b, c \in Nat : a <= b /\ b <= c => a <= c
    OBVIOUS
  <2>7. B[e] + C[e].tr[k].items <= B[d] + C[d].tr[j].items
    BY <1>1, <2>3, <2>5, <2>6
  <2>8. QED  BY <1>2, <2>7
<1>6. QED  BY <1>1, <1>2, <1>4, <1>5

LEMMA FitTrapsCanBeRestored ==
  ASSUME StacksFit
  PROVE  TrapsCanBeRestored
<1>1. PICK C, B, K : Fits(C, B, K)
  BY DEF StacksFit
<1>2. Len(trap_stack) \in Nat /\ DOMAIN trap_stack = 1..Len(trap_stack)
  <2>1. trap_stack \in Seq(Elements(trap_stack))
    BY <1>1 DEF Fits, TrapsFit, IsStack
  <2>2. QED  BY <2>1
<1>3. SUFFICES ASSUME NEW i \in 1..Len(trap_stack)
               PROVE  LET trap  == trap_stack[i]
                          frame == Keep(trap.lencs, call_stack)[1]
                          below == Keep(trap.lenenvl, env_l)[1]
                      IN  /\ trap.lenes <= Len(eval_stack)
                          /\ trap.lencs <= Len(call_stack)
                          /\ trap.lenenvl = trap.lencs
                          /\ trap.lentopenvl <= Len(below)
                          /\ \E k \in DOMAIN ExtractInstr(frame.code) :
                               ExtractInstr(frame.code)[k] = [op |-> "HANDID", arg |-> trap.handid]
                          /\ \A j \in 1..Len(trap_stack) : i < j =>
                               /\ trap_stack[j].lencs <= trap.lencs
                               /\ trap_stack[j].lenes <= trap.lenes
  BY <1>2 DEF TrapsCanBeRestored
<1>4. \A j \in 1..Len(trap_stack) : HasOwner(C, B, K, j)
  BY <1>1, TrapHasOwner
<1>5. PICK d \in 1..Depth : \E h \in 1..Len(C[d].tr) :
         /\ trap_stack[i] = TrapAt(C[d].tr[h], d, B[d])
         /\ K[d] + h = Len(trap_stack) + 1 - i
  BY <1>4 DEF HasOwner
<1>6. PICK h \in 1..Len(C[d].tr) :
        /\ trap_stack[i] = TrapAt(C[d].tr[h], d, B[d])
        /\ K[d] + h = Len(trap_stack) + 1 - i
  BY <1>5
<1> DEFINE t == C[d].tr[h]
<1>7. /\ trap_stack[i].handid = t.id /\ trap_stack[i].lenes = B[d] + t.items
      /\ trap_stack[i].lencs = d /\ trap_stack[i].lenenvl = d
      /\ trap_stack[i].lentopenvl = t.blocks
  BY <1>6 DEF TrapAt
<1>8. t.blocks <= C[d].en /\ t.id \in HandlerIds(CodeAt(d))
  BY <1>1, TrapsTyped
<1>9. B[d] + t.items <= Len(eval_stack)
  <2>1. CanUnwind(C, B, eval_stack)
    BY <1>1, StackCanUnwind
  <2>2. QED  BY <1>1, <2>1, Unwinds
<1>10. d \in Nat /\ d > 0 /\ d <= Depth
  <2>1. Depth \in Nat \ {0}
    BY <1>1, DepthTyped
  <2>2. QED  BY <2>1
<1> HIDE DEF t
<1>11. Len(Keep(d, env_l)[1]) = C[d].en
  <2>1. IsStack(env_l) /\ Len(env_l) = Depth /\ Len(At(env_l, d)) = C[d].en
    BY <1>1 DEF Fits, EnvironmentsFit
  <2>2. Keep(d, env_l)[1] = At(env_l, d)
    BY <1>10, <2>1, KeptStack
  <2>3. QED  BY <2>1, <2>2
<1>12. Keep(d, call_stack)[1] = At(call_stack, d)
  <2>1. IsStack(call_stack) /\ Len(call_stack) = Depth
    BY <1>1 DEF Fits, OperationsFit, Depth
  <2>2. QED  BY <1>10, <2>1, KeptStack
<1>13. \E k \in DOMAIN CodeAt(d) : CodeAt(d)[k] = [op |-> "HANDID", arg |-> t.id]
  BY <1>8 DEF HandlerIds
<1>14. ASSUME NEW j \in 1..Len(trap_stack), i < j
       PROVE  /\ trap_stack[j].lencs <= d
              /\ trap_stack[j].lenes <= B[d] + t.items
  <2>1. PICK e \in 1..Depth : \E k \in 1..Len(C[e].tr) :
          /\ trap_stack[j] = TrapAt(C[e].tr[k], e, B[e])
          /\ K[e] + k = Len(trap_stack) + 1 - j
    BY <1>4 DEF HasOwner
  <2>2. PICK k \in 1..Len(C[e].tr) :
          /\ trap_stack[j] = TrapAt(C[e].tr[k], e, B[e])
          /\ K[e] + k = Len(trap_stack) + 1 - j
    BY <2>1
  <2>3. K[e] + k < K[d] + h
    <3>1. Len(trap_stack) + 1 - j < Len(trap_stack) + 1 - i
      BY <1>2, <1>14
    <3>2. QED  BY <3>1, <2>2, <1>6
  <2>4. e <= d /\ B[e] + C[e].tr[k].items <= B[d] + t.items
    BY <1>1, <2>3, TrapsAreInOrder DEF t
  <2>5. QED  BY <2>2, <2>4 DEF TrapAt
<1>15. Depth = Len(call_stack)
  BY DEF Depth
<1>16. QED  BY <1>10, <1>7, <1>8, <1>9, <1>11, <1>12, <1>13, <1>14, <1>15 DEF CodeAt

\* Whatever operations are called and whatever exits are taken, a trap can restore
\* the stacks to what they were when it was set, and its handler is in the code of
\* the operation that has set it.
THEOREM TrapsAreRestorable == Spec => []TrapsCanBeRestored
<1>1. StacksFit => TrapsCanBeRestored
  BY FitTrapsCanBeRestored
<1>2. QED  BY <1>1, OperationsKeepToTheirCode, PTL

LEMMA FitNothingIsLeftBehind ==
  ASSUME StacksFit
  PROVE  NothingIsLeftBehind
<1>1. SUFFICES ASSUME Finished, ~IsExit(Top), ~strayed
               PROVE  Len(eval_stack) = 1 /\ env_l = NoEnv /\ trap_stack = <<>>
  BY DEF NothingIsLeftBehind
<1>2. PICK C, B, K : Fits(C, B, K)
  BY DEF StacksFit
<1> DEFINE c == C[1]
<1>3. Depth = 1 /\ Depth \in 1..Depth
  BY <1>1 DEF Finished, Depth
<1>4. pc = Len(CodeAt(1))
  <2>1. IsStack(call_stack) /\ Len(call_stack) = 1
    BY <1>2, <1>3 DEF Fits, OperationsFit, Depth
  <2>2. call_stack # <<>>
    BY <2>1
  <2>3. Head(call_stack) = At(call_stack, 1)
    BY <2>1, <2>2, TopOfStack
  <2>4. QED  BY <2>3, <1>1 DEF Finished, curr_program, CodeAt
<1>5. c \in Certificate(CodeAt(1)) /\ c.pc = pc
  BY <1>2, <1>3 DEF Fits, OperationsFit
<1>6. EndsWithValue(c) /\ c.en = 0
  <2>1. Verified(Certificate(CodeAt(Depth)), Depth = 1, CodeAt(Depth))
    BY <1>2, <1>3, CodeIsCertified DEF StacksFit
  <2>2. (Depth = 1) = TRUE
    BY <1>3
  <2>3. Verified(Certificate(CodeAt(1)), TRUE, CodeAt(1))
    BY <2>1, <2>2, <1>3
  <2>4. QED  BY <2>3, <1>4, <1>5 DEF Verified
<1>7. Len(c.st) = 1 /\ c.tr = <<>> /\ (c.aftermath => TopKind(c) = "EXIT")
  BY <1>6 DEF EndsWithValue
<1>8. ~c.aftermath
  <2>1. HasItems(eval_stack, B[1], c.st) /\ B[1] \in Nat /\ c.st \in Seq(Kinds)
    BY <1>2, <1>3, CurrentItems DEF Current
  <2>2. Len(c.st) > 0
    BY <1>7
  <2>3. IsOfKind(Top, TopKind(c))
    BY <2>1, <2>2, TopItem DEF Top, Item, TopKind
  <2>4. QED  BY <1>1, <1>7, <2>3 DEF IsOfKind
<1>9. B[1] = 0
  BY <1>1, <1>2, <1>3, <1>8 DEF Fits, LeftBehind, Tight
<1>10. Len(eval_stack) = 1
  BY <1>2, <1>3, <1>7, <1>9 DEF Fits, ItemsFit
<1>11. env_l = NoEnv
  <2>1. /\ IsStack(env_l) /\ Len(env_l) = 1
        /\ IsStack(At(env_l, 1)) /\ Len(At(env_l, 1)) = 0
    BY <1>2, <1>3, <1>6 DEF Fits, EnvironmentsFit
  <2>2. At(env_l, 1) = <<>>
    <3>1. At(env_l, 1) \in Seq(Elements(At(env_l, 1)))
      BY <2>1 DEF IsStack
    <3>2. QED  BY <2>1, <3>1
  <2>3. env_l[1] = <<>>
    BY <2>1, <2>2 DEF At
  <2>4. env_l \in Seq(Elements(env_l))
    BY <2>1 DEF IsStack
  <2>5. QED  BY <2>1, <2>3, <2>4 DEF NoEnv
<1>12. trap_stack = <<>>
  <2>1. IsStack(trap_stack) /\ Len(trap_stack) = K[1] + Len(c.tr) /\ K[1] = 0
    BY <1>2, <1>3 DEF Fits, TrapsFit
  <2>2. Len(trap_stack) = 0
    BY <2>1, <1>7
  <2>3. trap_stack \in Seq(Elements(trap_stack))
    BY <2>1 DEF IsStack
  <2>4. QED  BY <2>2, <2>3
<1>13. QED  BY <1>10, <1>11, <1>12

\* An evaluation that ends with a value, with no exit taken for one on the way,
\* leaves that value and nothing else: no item, environment or trap of an
\* operation outlives it.
THEOREM NothingStaysBehind == Spec => []NothingIsLeftBehind
<1>1. StacksFit => NothingIsLeftBehind
  BY FitNothingIsLeftBehind
<1>2. QED  BY <1>1, OperationsKeepToTheirCode, PTL
=============================================================================
