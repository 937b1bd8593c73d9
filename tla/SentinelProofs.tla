---------------------------- MODULE SentinelProofs ----------------------------
(***************************************************************************)
(* The counters of a Sentinel are exact, and so the mutexes of the object  *)
(* hold and nobody sleeps in vain, for any threads, operations and         *)
(* predicates.                                                             *)
(***************************************************************************)
EXTENDS Sentinel, FiniteSetTheorems, SequenceTheorems, TLAPS

-----------------------------------------------------------------------------
(* Sets of activations and of waiting threads.                               *)

LEMMA ActivationsFinite ==
  ASSUME NEW o \in Ops
  PROVE  IsFiniteSet(Activations(o)) /\ Activations(o) \subseteq Threads \X (1 .. MaxDepth)
<1>1. IsFiniteSet(1 .. MaxDepth)
  BY FS_Interval, SentinelAssumption
<1>2. IsFiniteSet(Threads \X (1 .. MaxDepth))
  BY <1>1, FS_Product, SentinelAssumption
<1>3. Activations(o) \subseteq Threads \X (1 .. MaxDepth)
  BY DEF Activations
<1>4. QED
  BY <1>2, <1>3, FS_Subset

LEMMA IntervalLength ==
  ASSUME NEW k \in Nat, NEW l \in Nat, 1 .. k = 1 .. l
  PROVE  k = l
<1>1. CASE k < l
  <2>1. l \in 1 .. l /\ l \notin 1 .. k
    BY <1>1
  <2>2. QED
    BY <2>1
<1>2. CASE l < k
  <2>1. k \in 1 .. k /\ k \notin 1 .. l
    BY <1>2
  <2>2. QED
    BY <2>1
<1>3. QED
  BY <1>1, <1>2

LEMMA Push ==
  ASSUME stack \in [Threads -> Seq(Ops)], NEW t \in Threads, NEW q \in Ops,
         Len(stack[t]) < MaxDepth,
         stack' = [stack EXCEPT ![t] = Append(@, q)],
         NEW o \in Ops
  PROVE  /\ <<t, Len(stack[t]) + 1>> \notin Activations(o)
         /\ Activations(o)' = IF o = q THEN Activations(o) \cup {<<t, Len(stack[t]) + 1>>}
                              ELSE Activations(o)
<1> DEFINE s == stack[t]
           n == Len(stack[t])
<1>1. s \in Seq(Ops) /\ n \in Nat /\ n + 1 \in 1 .. MaxDepth
  BY SentinelAssumption
<1>2. /\ stack'[t] = Append(s, q)
      /\ \A u \in Threads \ {t} : stack'[u] = stack[u]
  OBVIOUS
<1>3. /\ Len(stack'[t]) = n + 1
      /\ stack'[t][n + 1] = q
      /\ \A i \in 1 .. n : stack'[t][i] = s[i]
  BY <1>1, <1>2, AppendProperties
<1>4. ASSUME NEW u \in Threads, NEW i \in 1 .. MaxDepth
      PROVE  <<u, i>> \in Activations(o)' <=>
               \/ <<u, i>> \in Activations(o)
               \/ u = t /\ i = n + 1 /\ o = q
  <2>1. /\ <<u, i>> \in Activations(o) <=> i <= Len(stack[u]) /\ stack[u][i] = o
        /\ <<u, i>> \in Activations(o)' <=> i <= Len(stack'[u]) /\ stack'[u][i] = o
    BY DEF Activations
  <2>2. CASE u # t
    BY <1>2, <2>1, <2>2
  <2>3. CASE u = t /\ i \in 1 .. n
    BY <1>1, <1>3, <2>1, <2>3
  <2>4. CASE u = t /\ i = n + 1
    BY <1>1, <1>3, <2>1, <2>4
  <2>5. CASE u = t /\ i > n + 1
    BY <1>1, <1>3, <2>1, <2>5
  <2>6. QED
    BY <1>1, <2>2, <2>3, <2>4, <2>5
<1>5. <<t, n + 1>> \notin Activations(o)
  BY <1>1 DEF Activations
<1>6. /\ Activations(o) \subseteq Threads \X (1 .. MaxDepth)
      /\ Activations(o)' \subseteq Threads \X (1 .. MaxDepth)
  BY DEF Activations
<1>7. <<t, n + 1>> \in Threads \X (1 .. MaxDepth)
  BY <1>1
<1>8. CASE o = q
  <2>1. ASSUME NEW a \in Threads \X (1 .. MaxDepth)
        PROVE  a \in Activations(o)' <=> a \in Activations(o) \/ a = <<t, n + 1>>
    <3>1. PICK u \in Threads, i \in 1 .. MaxDepth : a = <<u, i>>
      OBVIOUS
    <3>2. a = <<t, n + 1>> <=> u = t /\ i = n + 1
      BY <3>1
    <3>3. QED
      BY <1>4, <1>8, <3>1, <3>2, Zenon
  <2>2. Activations(o)' = Activations(o) \cup {<<t, n + 1>>}
    BY <1>6, <1>7, <2>1
  <2>3. QED
    BY <1>5, <1>8, <2>2
<1>9. CASE o # q
  <2>1. ASSUME NEW a \in Threads \X (1 .. MaxDepth)
        PROVE  a \in Activations(o)' <=> a \in Activations(o)
    BY <1>4, <1>9
  <2>2. Activations(o)' = Activations(o)
    BY <1>6, <2>1
  <2>3. QED
    BY <1>5, <1>9, <2>2
<1>10. QED
  BY <1>5, <1>8, <1>9

LEMMA Pop ==
  ASSUME stack \in [Threads -> Seq(Ops)], NEW t \in Threads,
         stack[t] # <<>>, Len(stack[t]) <= MaxDepth,
         stack' = [stack EXCEPT ![t] = Front(@)],
         NEW o \in Ops
  PROVE  /\ Last(stack[t]) \in Ops
         /\ stack' \in [Threads -> Seq(Ops)]
         /\ Len(stack'[t]) = Len(stack[t]) - 1
         /\ \A u \in Threads \ {t} : stack'[u] = stack[u]
         /\ o = Last(stack[t]) => <<t, Len(stack[t])>> \in Activations(o)
         /\ Activations(o)' = IF o = Last(stack[t]) THEN Activations(o) \ {<<t, Len(stack[t])>>}
                              ELSE Activations(o)
<1> DEFINE s == stack[t]
           n == Len(stack[t])
<1>1. s \in Seq(Ops) /\ n \in Nat /\ n # 0 /\ n \in 1 .. MaxDepth
  BY EmptySeq, LenProperties, SentinelAssumption
<1>2. Front(s) = SubSeq(s, 1, n - 1) /\ Last(s) = s[n] /\ s[n] \in Ops
  BY <1>1 DEF Front, Last
<1>3. /\ Front(s) \in Seq(Ops)
      /\ Len(Front(s)) = n - 1
      /\ \A i \in 1 .. n - 1 : Front(s)[i] = s[i]
  <2>1. 1 \in 1 .. n + 1 /\ n - 1 \in 0 .. n /\ n - 1 \in Nat
    BY <1>1
  <2>2. \A i \in 1 .. n - 1 : s[i] \in Ops
    BY <1>1, LenProperties
  <2>3. SubSeq(s, 1, n - 1) \in Seq(Ops)
    BY <2>1, <2>2, SubSeqProperties
  <2>4. Len(SubSeq(s, 1, n - 1)) = n - 1
    <3>1. SubSeq(s, 1, n - 1) = Restrict(s, 1 .. n - 1)
      BY <1>1, <2>1, SubSeqRestrict
    <3>2. DOMAIN SubSeq(s, 1, n - 1) = 1 .. n - 1
      BY <3>1 DEF Restrict
    <3>3. 1 .. Len(SubSeq(s, 1, n - 1)) = 1 .. n - 1 /\ Len(SubSeq(s, 1, n - 1)) \in Nat
      BY <2>3, <3>2, LenProperties
    <3>4. QED
      BY <2>1, <3>3, IntervalLength
  <2>5. ASSUME NEW i \in 1 .. n - 1 PROVE SubSeq(s, 1, n - 1)[i] = s[i]
    BY <1>1, <2>1, <2>2, SubSeqProperties
  <2>6. QED
    BY <1>1, <1>2, <2>1, <2>3, <2>4, <2>5
<1>4. /\ stack'[t] = Front(s)
      /\ \A u \in Threads \ {t} : stack'[u] = stack[u]
      /\ stack' \in [Threads -> Seq(Ops)]
  BY <1>3
<1>5. ASSUME NEW u \in Threads, NEW i \in 1 .. MaxDepth
      PROVE  <<u, i>> \in Activations(o)' <=>
               <<u, i>> \in Activations(o) /\ ~(u = t /\ i = n)
  <2>1. /\ <<u, i>> \in Activations(o) <=> i <= Len(stack[u]) /\ stack[u][i] = o
        /\ <<u, i>> \in Activations(o)' <=> i <= Len(stack'[u]) /\ stack'[u][i] = o
    BY DEF Activations
  <2>2. CASE u # t
    BY <1>4, <2>1, <2>2
  <2>3. CASE u = t /\ i \in 1 .. n - 1
    BY <1>1, <1>3, <1>4, <2>1, <2>3
  <2>4. CASE u = t /\ i >= n
    BY <1>1, <1>3, <1>4, <2>1, <2>4
  <2>5. QED
    BY <1>1, <2>2, <2>3, <2>4
<1>6. <<t, n>> \in Activations(o) <=> o = Last(s)
  BY <1>1, <1>2 DEF Activations
<1>7. /\ Activations(o) \subseteq Threads \X (1 .. MaxDepth)
      /\ Activations(o)' \subseteq Threads \X (1 .. MaxDepth)
  BY DEF Activations
<1>8. Activations(o)' = Activations(o) \ {<<t, n>>}
  BY <1>5, <1>7
<1>9. QED
  BY <1>1, <1>2, <1>3, <1>4, <1>6, <1>8

LEMMA OneElement ==
  ASSUME NEW S, NEW T, NEW x, IsFiniteSet(S),
         \A y : y # x => (y \in S <=> y \in T)
  PROVE  /\ IsFiniteSet(T)
         /\ Cardinality(S) \in Nat
         /\ Cardinality(T) \in Nat
         /\ x \in S /\ x \notin T => Cardinality(T) = Cardinality(S) - 1
         /\ x \notin S /\ x \in T => Cardinality(T) = Cardinality(S) + 1
         /\ (x \in S <=> x \in T) => Cardinality(T) = Cardinality(S)
<1>1. CASE x \in T
  <2>1. T = S \cup {x}
    BY <1>1
  <2>2. QED
    BY <1>1, <2>1, FS_AddElement, FS_CardinalityType
<1>2. CASE x \notin T
  <2>1. T = S \ {x}
    BY <1>2
  <2>2. QED
    BY <1>2, <2>1, FS_RemoveElement, FS_CardinalityType
<1>3. QED
  BY <1>1, <1>2

\* The threads whose request is counted and whose activation is not.
Pending(o) == {t \in Threads : pc[t] \notin {"run", "calling"} /\ op[t] = o}

LEMMA PendingFinite ==
  ASSUME NEW o
  PROVE  IsFiniteSet(Queued(o)) /\ IsFiniteSet(Pending(o))
BY FS_Subset, SentinelAssumption DEF Queued, Pending

\* What a step of one thread does to these sets.
LEMMA ThreadMoves ==
  ASSUME NEW t \in Threads, NEW o,
         \A u \in Threads \ {t} : pc'[u] = pc[u] /\ op'[u] = op[u]
  PROVE  /\ Cardinality(Queued(o)) \in Nat /\ Cardinality(Queued(o)') \in Nat
         /\ t \in Queued(o) /\ t \notin Queued(o)' => Cardinality(Queued(o)') = Cardinality(Queued(o)) - 1
         /\ t \notin Queued(o) /\ t \in Queued(o)' => Cardinality(Queued(o)') = Cardinality(Queued(o)) + 1
         /\ (t \in Queued(o) <=> t \in Queued(o)') => Cardinality(Queued(o)') = Cardinality(Queued(o))
         /\ Cardinality(Pending(o)) \in Nat /\ Cardinality(Pending(o)') \in Nat
         /\ t \in Pending(o) /\ t \notin Pending(o)' => Cardinality(Pending(o)') = Cardinality(Pending(o)) - 1
         /\ t \notin Pending(o) /\ t \in Pending(o)' => Cardinality(Pending(o)') = Cardinality(Pending(o)) + 1
         /\ (t \in Pending(o) <=> t \in Pending(o)') => Cardinality(Pending(o)') = Cardinality(Pending(o))
<1>1. \A y : y # t => (y \in Queued(o) <=> y \in Queued(o)')
  BY DEF Queued
<1>2. \A y : y # t => (y \in Pending(o) <=> y \in Pending(o)')
  BY DEF Pending
<1>3. IsFiniteSet(Queued(o)) /\ IsFiniteSet(Pending(o))
  BY PendingFinite
<1> DEFINE S1 == Queued(o)
           T1 == Queued(o)'
           S2 == Pending(o)
           T2 == Pending(o)'
<1>4. /\ IsFiniteSet(S1) /\ IsFiniteSet(S2)
      /\ \A y : y # t => (y \in S1 <=> y \in T1)
      /\ \A y : y # t => (y \in S2 <=> y \in T2)
  BY <1>1, <1>2, <1>3
<1> HIDE DEF S1, T1, S2, T2
<1>5. /\ Cardinality(S1) \in Nat /\ Cardinality(T1) \in Nat
      /\ t \in S1 /\ t \notin T1 => Cardinality(T1) = Cardinality(S1) - 1
      /\ t \notin S1 /\ t \in T1 => Cardinality(T1) = Cardinality(S1) + 1
      /\ (t \in S1 <=> t \in T1) => Cardinality(T1) = Cardinality(S1)
  BY <1>4, OneElement
<1>6. /\ Cardinality(S2) \in Nat /\ Cardinality(T2) \in Nat
      /\ t \in S2 /\ t \notin T2 => Cardinality(T2) = Cardinality(S2) - 1
      /\ t \notin S2 /\ t \in T2 => Cardinality(T2) = Cardinality(S2) + 1
      /\ (t \in S2 <=> t \in T2) => Cardinality(T2) = Cardinality(S2)
  BY <1>4, OneElement
<1>7. QED
  BY <1>5, <1>6 DEF S1, T1, S2, T2

-----------------------------------------------------------------------------
(* The inductive invariant.                                                  *)

\* Exactly the thread that is in the monitor is at a step that needs it.
MonitorInv ==
  \A t \in Threads :
    monitor = t <=> pc[t] \in {"test", "queue", "retest", "dequeue", "activate"}

SleepInv == \A t \in waitSet : pc[t] = "waiting"

CallInv ==
  \A t \in Threads :
    /\ Len(stack[t]) <= MaxDepth
    /\ pc[t] # "run" => op[t] \in Ops /\ Len(stack[t]) < MaxDepth

ActiveInv ==
  \A o \in Ops :
    /\ active[o] = Cardinality(Activations(o))
    /\ active[o] = act[o] - fin[o]

\* A thread that has left with an exception stays counted as waiting.
WaitingInv ==
  \A o \in Ops :
    /\ Cardinality(Queued(o)) <= waiting[o]
    /\ ~failed => waiting[o] = Cardinality(Queued(o))

RequestInv ==
  \A o \in Ops : ~failed => req[o] = act[o] + Cardinality(Pending(o))

\* The counters do not change between the predicate and the activation.
PermittedInv ==
  \A t \in Threads :
    pc[t] \in {"dequeue", "activate"} => \A p \in CreateMutexTable[op[t]] : active[p] = 0

Inv ==
  /\ TypeOK
  /\ MonitorInv
  /\ SleepInv
  /\ CallInv
  /\ ActiveInv
  /\ WaitingInv
  /\ RequestInv
  /\ PermittedInv
  /\ MutexHolds

-----------------------------------------------------------------------------
(* Steps that leave some of the state alone.                                 *)

LEMMA StacksStay ==
  ASSUME ActiveInv, MutexHolds, UNCHANGED <<act, fin, active, stack>>
  PROVE  ActiveInv' /\ MutexHolds'
<1>1. \A o : Activations(o)' = Activations(o)
  BY DEF Activations
<1>2. QED
  BY <1>1 DEF ActiveInv, MutexHolds

LEMMA CountsStay ==
  ASSUME WaitingInv, RequestInv, NEW t \in Threads,
         \A u \in Threads \ {t} : pc'[u] = pc[u] /\ op'[u] = op[u],
         UNCHANGED <<req, act, waiting, failed>>,
         \A o \in Ops : /\ t \in Queued(o) <=> t \in Queued(o)'
                        /\ t \in Pending(o) <=> t \in Pending(o)'
  PROVE  WaitingInv' /\ RequestInv'
<1>1. ASSUME NEW o \in Ops
      PROVE  /\ Cardinality(Queued(o)') = Cardinality(Queued(o))
             /\ Cardinality(Pending(o)') = Cardinality(Pending(o))
  BY ThreadMoves
<1>2. QED
  BY <1>1 DEF WaitingInv, RequestInv

-----------------------------------------------------------------------------
(* The steps of entering and leaving.                                        *)

LEMMA InitInv == Init => Inv
<1> SUFFICES ASSUME Init PROVE Inv
  OBVIOUS
<1>1. /\ \A o \in Ops : req[o] = 0 /\ act[o] = 0 /\ fin[o] = 0 /\ active[o] = 0 /\ waiting[o] = 0
      /\ \A t \in Threads : pc[t] = "run" /\ stack[t] = <<>> /\ Len(stack[t]) = 0
  BY EmptySeq DEF Init, Zero
<1>2. TypeOK
  <2>1. <<>> \in Seq(Ops)
    BY EmptySeq
  <2>2. QED
    BY <2>1 DEF Init, Zero, TypeOK, PCs
<1>3. MonitorInv /\ SleepInv /\ CallInv /\ PermittedInv
  BY <1>1, SentinelAssumption DEF Init, MonitorInv, SleepInv, CallInv, PermittedInv
<1>4. \A o \in Ops : Activations(o) = {} /\ Queued(o) = {} /\ Pending(o) = {}
  BY <1>1, SentinelAssumption DEF Activations, Queued, Pending
<1>5. ActiveInv /\ WaitingInv /\ RequestInv
  <2>1. \A o \in Ops : /\ Cardinality(Activations(o)) = 0
                      /\ Cardinality(Queued(o)) = 0
                      /\ Cardinality(Pending(o)) = 0
    BY <1>4, FS_EmptySet
  <2>2. QED
    BY <1>1, <2>1 DEF ActiveInv, WaitingInv, RequestInv
<1>6. MutexHolds
  BY <1>4, SentinelAssumption DEF MutexHolds
<1>7. QED
  BY <1>2, <1>3, <1>5, <1>6 DEF Inv

LEMMA CallStep ==
  ASSUME Inv, NEW t \in Threads, NEW o \in Ops, Call(t, o)
  PROVE  Inv'
<1> USE DEF Call, Goto, counters
<1>1. /\ pc[t] = "run" /\ pc'[t] = "calling" /\ op'[t] = o
      /\ \A u \in Threads \ {t} : pc'[u] = pc[u] /\ op'[u] = op[u]
  BY DEF Inv, TypeOK
<1>2. TypeOK'
  BY DEF Inv, TypeOK, PCs
<1>3. MonitorInv' /\ SleepInv' /\ CallInv' /\ PermittedInv'
  BY <1>1 DEF Inv, MonitorInv, SleepInv, CallInv, PermittedInv
<1>4. ActiveInv' /\ MutexHolds'
  BY StacksStay DEF Inv
<1>5. WaitingInv' /\ RequestInv'
  <2>1. \A p \in Ops : t \notin Queued(p) /\ t \notin Queued(p)' /\ t \notin Pending(p) /\ t \notin Pending(p)'
    BY <1>1 DEF Queued, Pending
  <2>2. QED
    BY <1>1, <2>1, CountsStay DEF Inv
<1>6. QED
  BY <1>2, <1>3, <1>4, <1>5 DEF Inv

LEMMA RequestingStep ==
  ASSUME Inv, NEW t \in Threads, Requesting(t)
  PROVE  Inv'
<1> USE DEF Requesting, Goto, NotifyAll, Increment
<1>1. /\ pc[t] = "calling" /\ pc'[t] = "test" /\ op[t] \in Ops /\ op'[t] = op[t]
      /\ \A u \in Threads \ {t} : pc'[u] = pc[u] /\ op'[u] = op[u]
  BY DEF Inv, TypeOK, CallInv
<1>2. TypeOK'
  <2>1. req' \in [Ops -> Nat]
    BY <1>1 DEF Inv, TypeOK
  <2>2. pc' \in [Threads -> PCs]
    BY <1>1 DEF Inv, TypeOK, PCs
  <2>3. QED
    BY <2>1, <2>2 DEF Inv, TypeOK
<1>3. MonitorInv' /\ SleepInv' /\ CallInv' /\ PermittedInv'
  BY <1>1, SentinelAssumption DEF Inv, MonitorInv, SleepInv, CallInv, PermittedInv
<1>4. ActiveInv' /\ MutexHolds'
  BY StacksStay DEF Inv
<1>5. ASSUME NEW o \in Ops
      PROVE  /\ Cardinality(Queued(o)') = Cardinality(Queued(o))
             /\ Cardinality(Pending(o)) \in Nat
             /\ Cardinality(Pending(o)') = Cardinality(Pending(o)) + (IF o = op[t] THEN 1 ELSE 0)
  <2>1. /\ t \notin Queued(o) /\ t \notin Queued(o)'
        /\ t \notin Pending(o) /\ (t \in Pending(o)' <=> o = op[t])
    BY <1>1 DEF Queued, Pending
  <2>2. QED
    BY <1>1, <2>1, ThreadMoves
<1>6. WaitingInv'
  BY <1>5 DEF Inv, WaitingInv
<1>7. RequestInv'
  BY <1>5 DEF Inv, RequestInv, TypeOK
<1>8. QED
  BY <1>2, <1>3, <1>4, <1>6, <1>7 DEF Inv

LEMMA TestStep ==
  ASSUME Inv, NEW t \in Threads, Test(t)
  PROVE  Inv'
<1> USE DEF Test, counters
<1>1. /\ pc[t] = "test" /\ pc'[t] = IF evaluatePP(op[t]) THEN "activate" ELSE "queue"
      /\ \A u \in Threads \ {t} : pc'[u] = pc[u] /\ op'[u] = op[u]
  BY DEF Inv, TypeOK
<1>2. TypeOK'
  BY DEF Inv, TypeOK, PCs
<1>3. MonitorInv' /\ SleepInv' /\ CallInv'
  BY <1>1 DEF Inv, MonitorInv, SleepInv, CallInv
<1>4. PermittedInv'
  BY <1>1 DEF Inv, PermittedInv, evaluatePP
<1>5. ActiveInv' /\ MutexHolds'
  BY StacksStay DEF Inv
<1>6. WaitingInv' /\ RequestInv'
  <2>1. \A p \in Ops : t \notin Queued(p) /\ t \notin Queued(p)' /\ (t \in Pending(p) <=> t \in Pending(p)')
    BY <1>1 DEF Queued, Pending
  <2>2. QED
    BY <1>1, <2>1, CountsStay DEF Inv
<1>7. QED
  BY <1>2, <1>3, <1>4, <1>5, <1>6 DEF Inv

LEMMA QueueStep ==
  ASSUME Inv, NEW t \in Threads, Queue(t)
  PROVE  Inv'
<1> USE DEF Queue, Goto, NotifyAll, Increment
<1>1. /\ pc[t] = "queue" /\ pc'[t] = "retest" /\ op[t] \in Ops
      /\ \A u \in Threads \ {t} : pc'[u] = pc[u] /\ op'[u] = op[u]
  BY DEF Inv, TypeOK, CallInv
<1>2. TypeOK'
  <2>1. waiting' \in [Ops -> Nat]
    BY <1>1 DEF Inv, TypeOK
  <2>2. pc' \in [Threads -> PCs]
    BY <1>1 DEF Inv, TypeOK, PCs
  <2>3. QED
    BY <2>1, <2>2 DEF Inv, TypeOK
<1>3. MonitorInv' /\ SleepInv' /\ CallInv' /\ PermittedInv'
  BY <1>1 DEF Inv, MonitorInv, SleepInv, CallInv, PermittedInv
<1>4. ActiveInv' /\ MutexHolds'
  BY StacksStay DEF Inv
<1>5. ASSUME NEW o \in Ops
      PROVE  /\ Cardinality(Pending(o)') = Cardinality(Pending(o))
             /\ Cardinality(Queued(o)) \in Nat
             /\ Cardinality(Queued(o)') = Cardinality(Queued(o)) + (IF o = op[t] THEN 1 ELSE 0)
  <2>1. /\ t \notin Queued(o) /\ (t \in Queued(o)' <=> o = op[t])
        /\ t \in Pending(o) <=> t \in Pending(o)'
    BY <1>1 DEF Queued, Pending
  <2>2. QED
    BY <1>1, <2>1, ThreadMoves
<1>6. WaitingInv'
  BY <1>5 DEF Inv, WaitingInv, TypeOK
<1>7. RequestInv'
  BY <1>5 DEF Inv, RequestInv
<1>8. QED
  BY <1>2, <1>3, <1>4, <1>6, <1>7 DEF Inv

LEMMA RetestStep ==
  ASSUME Inv, NEW t \in Threads, Retest(t)
  PROVE  Inv'
<1> USE DEF Retest, counters
<1>1. /\ pc[t] = "retest" /\ pc'[t] \in {"dequeue", "waiting"} /\ monitor = t
      /\ \A u \in Threads \ {t} : pc'[u] = pc[u] /\ op'[u] = op[u]
  BY DEF Inv, TypeOK, MonitorInv
<1>2. TypeOK'
  BY DEF Inv, TypeOK, PCs
<1>3. MonitorInv' /\ SleepInv' /\ CallInv' /\ PermittedInv'
  <2>1. CASE evaluatePP(op[t])
    <3>1. pc'[t] = "dequeue" /\ UNCHANGED <<monitor, waitSet>>
      BY <2>1 DEF Inv, TypeOK
    <3>2. MonitorInv' /\ SleepInv' /\ CallInv'
      BY <1>1, <3>1 DEF Inv, TypeOK, MonitorInv, SleepInv, CallInv
    <3>3. PermittedInv'
      BY <1>1, <2>1 DEF Inv, PermittedInv, evaluatePP
    <3>4. QED
      BY <3>2, <3>3
  <2>2. CASE ~evaluatePP(op[t])
    <3>1. pc'[t] = "waiting" /\ monitor' = None /\ waitSet' = waitSet \cup {t}
      BY <2>2 DEF Inv, TypeOK
    <3>2. MonitorInv' /\ CallInv' /\ PermittedInv'
      BY <1>1, <3>1, SentinelAssumption DEF Inv, MonitorInv, CallInv, PermittedInv
    <3>3. SleepInv'
      BY <1>1, <3>1 DEF Inv, TypeOK, SleepInv
    <3>4. QED
      BY <3>2, <3>3
  <2>3. QED
    BY <2>1, <2>2
<1>4. ActiveInv' /\ MutexHolds'
  BY StacksStay DEF Inv
<1>5. WaitingInv' /\ RequestInv'
  <2>1. \A p \in Ops : (t \in Queued(p) <=> t \in Queued(p)') /\ (t \in Pending(p) <=> t \in Pending(p)')
    BY <1>1 DEF Queued, Pending
  <2>2. QED
    BY <1>1, <2>1, CountsStay DEF Inv
<1>6. QED
  BY <1>2, <1>3, <1>4, <1>5 DEF Inv

LEMMA ReacquireStep ==
  ASSUME Inv, NEW t \in Threads, Reacquire(t)
  PROVE  Inv'
<1> USE DEF Reacquire, Goto, counters
<1>1. /\ pc[t] = "waiting" /\ pc'[t] = "retest"
      /\ \A u \in Threads \ {t} : pc'[u] = pc[u] /\ op'[u] = op[u]
  BY DEF Inv, TypeOK
<1>2. TypeOK'
  BY DEF Inv, TypeOK, PCs
<1>3. MonitorInv' /\ SleepInv' /\ CallInv' /\ PermittedInv'
  BY <1>1, SentinelAssumption DEF Inv, MonitorInv, SleepInv, CallInv, PermittedInv
<1>4. ActiveInv' /\ MutexHolds'
  BY StacksStay DEF Inv
<1>5. WaitingInv' /\ RequestInv'
  <2>1. \A p \in Ops : (t \in Queued(p) <=> t \in Queued(p)') /\ (t \in Pending(p) <=> t \in Pending(p)')
    BY <1>1 DEF Queued, Pending
  <2>2. QED
    BY <1>1, <2>1, CountsStay DEF Inv
<1>6. QED
  BY <1>2, <1>3, <1>4, <1>5 DEF Inv

LEMMA ThrowStep ==
  ASSUME Inv, NEW t \in Threads, Throw(t)
  PROVE  Inv'
<1> USE DEF Throw, counters
<1>1. /\ pc[t] \in {"test", "retest"} /\ pc'[t] = "run" /\ monitor = t
      /\ \A u \in Threads \ {t} : pc'[u] = pc[u] /\ op'[u] = op[u]
  BY DEF Inv, TypeOK, MonitorInv
<1>2. TypeOK'
  BY DEF Inv, TypeOK, PCs
<1>3. MonitorInv' /\ SleepInv' /\ CallInv' /\ PermittedInv'
  BY <1>1, SentinelAssumption DEF Inv, MonitorInv, SleepInv, CallInv, PermittedInv
<1>4. ActiveInv' /\ MutexHolds'
  BY StacksStay DEF Inv
<1>5. WaitingInv' /\ RequestInv'
  <2>1. ASSUME NEW o \in Ops
        PROVE  Cardinality(Queued(o)') <= Cardinality(Queued(o)) /\ Cardinality(Queued(o)) \in Nat /\ Cardinality(Queued(o)') \in Nat
    <3>1. t \notin Queued(o)'
      BY <1>1 DEF Queued
    <3>2. QED
      BY <1>1, <3>1, ThreadMoves
  <2>2. QED
    BY <2>1 DEF Inv, TypeOK, WaitingInv, RequestInv
<1>6. QED
  BY <1>2, <1>3, <1>4, <1>5 DEF Inv

LEMMA OutsideStep ==
  ASSUME Inv, NEW t \in Threads, SpuriousWakeup(t) \/ Assign(t)
  PROVE  Inv'
<1> USE DEF SpuriousWakeup, Assign, counters
<1>1. TypeOK'
  BY DEF Inv, TypeOK
<1>2. MonitorInv' /\ SleepInv' /\ CallInv' /\ PermittedInv'
  BY DEF Inv, MonitorInv, SleepInv, CallInv, PermittedInv
<1>3. ActiveInv' /\ MutexHolds'
  BY StacksStay DEF Inv
<1>4. WaitingInv' /\ RequestInv'
  BY DEF Inv, WaitingInv, RequestInv, Queued, Pending
<1>5. QED
  BY <1>1, <1>2, <1>3, <1>4 DEF Inv

LEMMA ActivatingStep ==
  ASSUME Inv, NEW t \in Threads, Activating(t)
  PROVE  Inv'
<1> DEFINE q == op[t]
           x == <<t, Len(stack[t]) + 1>>
<1>1. /\ pc[t] \in {"dequeue", "activate"} /\ pc'[t] = "run" /\ monitor = t /\ q \in Ops
      /\ Len(stack[t]) < MaxDepth
      /\ \A u \in Threads \ {t} : pc'[u] = pc[u] /\ op'[u] = op[u] /\ stack'[u] = stack[u]
      /\ stack' = [stack EXCEPT ![t] = Append(@, op[t])]
      /\ stack'[t] = Append(stack[t], q)
      /\ waitSet' = {} /\ monitor' = None
      /\ UNCHANGED <<req, fin, failed>>
  BY DEF Inv, TypeOK, MonitorInv, CallInv, Activating, NotifyAll
<1>2. /\ Append(stack[t], q) \in Seq(Ops)
      /\ Len(Append(stack[t], q)) = Len(stack[t]) + 1
      /\ Len(stack[t]) \in Nat
  <2>1. stack[t] \in Seq(Ops)
    BY DEF Inv, TypeOK
  <2>2. QED
    BY <1>1, <2>1, AppendProperties, LenProperties
<1>3. ASSUME NEW o \in Ops
      PROVE  /\ Cardinality(Queued(o)) \in Nat
             /\ Cardinality(Queued(o)') =
                  Cardinality(Queued(o)) - (IF o = q /\ pc[t] = "dequeue" THEN 1 ELSE 0)
             /\ Cardinality(Queued(o)') \in Nat
             /\ Cardinality(Pending(o)) \in Nat
             /\ Cardinality(Pending(o)') = Cardinality(Pending(o)) - (IF o = q THEN 1 ELSE 0)
  <2>1. /\ t \in Queued(o) <=> o = q /\ pc[t] = "dequeue"
        /\ t \notin Queued(o)'
        /\ t \in Pending(o) <=> o = q
        /\ t \notin Pending(o)'
    BY <1>1 DEF Queued, Pending
  <2>2. QED
    BY <1>1, <2>1, ThreadMoves
<1>4. ASSUME NEW o \in Ops
      PROVE  /\ waiting'[o] = waiting[o] - (IF o = q /\ pc[t] = "dequeue" THEN 1 ELSE 0)
             /\ act'[o] = act[o] + (IF o = q THEN 1 ELSE 0)
             /\ active'[o] = active[o] + (IF o = q THEN 1 ELSE 0)
  BY <1>1 DEF Inv, TypeOK, Activating, Increment, Decrement
<1>5. TypeOK'
  <2>1. waiting' \in [Ops -> Nat]
    <3>1. ASSUME NEW o \in Ops PROVE waiting'[o] \in Nat
      <4>1. waiting[o] \in Nat /\ Cardinality(Queued(o)) <= waiting[o]
        BY DEF Inv, TypeOK, WaitingInv
      <4>2. QED
        BY <1>3, <1>4, <4>1
    <3>2. waiting' = [o \in Ops |-> waiting'[o]]
      BY DEF Inv, TypeOK, Activating, Decrement
    <3>3. QED
      BY <3>1, <3>2
  <2>2. act' \in [Ops -> Nat] /\ active' \in [Ops -> Nat]
    BY <1>1 DEF Inv, TypeOK, Activating, Increment
  <2>3. stack' \in [Threads -> Seq(Ops)]
    BY <1>1, <1>2 DEF Inv, TypeOK
  <2>4. QED
    BY <1>1, <2>1, <2>2, <2>3 DEF Inv, TypeOK, PCs, Activating, NotifyAll
<1>6. MonitorInv' /\ SleepInv' /\ CallInv'
  <2>1. MonitorInv' /\ SleepInv'
    BY <1>1, SentinelAssumption DEF Inv, MonitorInv, SleepInv
  <2>2. Len(stack'[t]) <= MaxDepth
    BY <1>1, <1>2, SentinelAssumption
  <2>3. CallInv'
    BY <1>1, <2>2 DEF Inv, CallInv
  <2>4. QED
    BY <2>1, <2>3
<1>7. PermittedInv'
  BY <1>1 DEF Inv, MonitorInv, PermittedInv
<1>8. ASSUME NEW o \in Ops
      PROVE  /\ x \notin Activations(o)
             /\ Activations(o)' = IF o = q THEN Activations(o) \cup {x} ELSE Activations(o)
  <2>1. stack \in [Threads -> Seq(Ops)]
    BY DEF Inv, TypeOK
  <2>2. stack' = [stack EXCEPT ![t] = Append(@, q)]
    BY <1>1
  <2> HIDE DEF q
  <2>3. QED
    BY <1>1, <2>1, <2>2, Push
<1> HIDE DEF x
<1>9. ActiveInv'
  <2>1. ASSUME NEW o \in Ops
        PROVE  Cardinality(Activations(o)') = Cardinality(Activations(o)) + (IF o = q THEN 1 ELSE 0)
    <3>1. IsFiniteSet(Activations(o)) /\ Cardinality(Activations(o)) \in Nat
      BY ActivationsFinite, FS_CardinalityType
    <3>2. QED
      BY <1>8, <3>1, FS_AddElement
  <2>2. ASSUME NEW o \in Ops
        PROVE  active'[o] = Cardinality(Activations(o)') /\ active'[o] = act'[o] - fin'[o]
    <3>1. /\ active[o] = Cardinality(Activations(o)) /\ active[o] = act[o] - fin[o]
          /\ active[o] \in Nat /\ act[o] \in Nat /\ fin[o] \in Nat /\ fin'[o] = fin[o]
      BY <1>1 DEF Inv, TypeOK, ActiveInv
    <3>2. active'[o] = act'[o] - fin'[o]
      BY <1>4, <3>1
    <3>3. active'[o] = Cardinality(Activations(o)')
      <4>1. Cardinality(Activations(o)') = Cardinality(Activations(o)) + (IF o = q THEN 1 ELSE 0)
        BY <2>1
      <4>2. active'[o] = active[o] + (IF o = q THEN 1 ELSE 0)
        BY <1>4
      <4>3. active[o] = Cardinality(Activations(o))
        BY <3>1
      <4>4. QED
        BY <4>1, <4>2, <4>3
    <3>4. QED
      BY <3>2, <3>3
  <2>3. QED
    BY <2>2 DEF ActiveInv
<1>10. WaitingInv' /\ RequestInv'
  <2>1. ASSUME NEW o \in Ops
        PROVE  /\ Cardinality(Queued(o)') <= waiting'[o]
               /\ ~failed' => waiting'[o] = Cardinality(Queued(o)')
               /\ ~failed' => req'[o] = act'[o] + Cardinality(Pending(o)')
    <3>1. /\ Cardinality(Queued(o)) <= waiting[o]
          /\ ~failed => waiting[o] = Cardinality(Queued(o))
          /\ ~failed => req[o] = act[o] + Cardinality(Pending(o))
          /\ waiting[o] \in Nat /\ act[o] \in Nat /\ req'[o] = req[o] /\ failed' = failed
      BY <1>1 DEF Inv, TypeOK, WaitingInv, RequestInv
    <3>2. QED
      BY <1>3, <1>4, <3>1
  <2>2. QED
    BY <2>1 DEF WaitingInv, RequestInv
<1>11. MutexHolds'
  <2>1. ASSUME NEW m \in MutexDefs, q \in m, NEW p \in m
        PROVE  Activations(p) = {}
    <3>1. p \in Ops /\ p \in CreateMutexTable[q]
      BY <1>1, <2>1, SentinelAssumption DEF CreateMutexTable
    <3>2. Cardinality(Activations(p)) = 0
      BY <1>1, <3>1 DEF Inv, PermittedInv, ActiveInv
    <3>3. QED
      BY <3>1, <3>2, ActivationsFinite, FS_EmptySet
  <2>2. ASSUME NEW m \in MutexDefs, NEW o \in m, NEW p \in m,
               NEW a \in Activations(o)', NEW b \in Activations(p)'
        PROVE  a = b
    <3>1. o \in Ops /\ p \in Ops
      BY SentinelAssumption
    <3>2. CASE q \in m
      BY <1>8, <2>1, <3>1, <3>2
    <3>3. CASE q \notin m
      <4>1. a \in Activations(o) /\ b \in Activations(p)
        BY <1>8, <3>1, <3>3
      <4>2. QED
        BY <4>1 DEF Inv, MutexHolds
    <3>4. QED
      BY <3>2, <3>3
  <2>3. QED
    BY <2>2 DEF MutexHolds
<1>12. QED
  BY <1>5, <1>6, <1>7, <1>9, <1>10, <1>11 DEF Inv

LEMMA LeavingStep ==
  ASSUME Inv, NEW t \in Threads, Leaving(t)
  PROVE  Inv'
<1> DEFINE q == Last(stack[t])
           x == <<t, Len(stack[t])>>
<1>1. /\ pc[t] = "run" /\ stack[t] # <<>> /\ Len(stack[t]) <= MaxDepth
      /\ stack \in [Threads -> Seq(Ops)]
      /\ stack' = [stack EXCEPT ![t] = Front(@)]
      /\ waitSet' = {}
      /\ UNCHANGED <<req, act, waiting, monitor, pc, op, failed>>
  BY DEF Inv, TypeOK, CallInv, Leaving, NotifyAll
<1> HIDE DEF q, x
<1>2. ASSUME NEW o \in Ops
      PROVE  /\ q \in Ops
             /\ stack' \in [Threads -> Seq(Ops)]
             /\ Len(stack'[t]) = Len(stack[t]) - 1
             /\ \A u \in Threads \ {t} : stack'[u] = stack[u]
             /\ o = q => x \in Activations(o)
             /\ Activations(o)' = IF o = q THEN Activations(o) \ {x} ELSE Activations(o)
  BY <1>1, Pop DEF q, x
<1>3. q \in Ops
  <2>1. stack[t] \in Seq(Ops) /\ Len(stack[t]) \in Nat \ {0}
    BY <1>1, EmptySeq
  <2>2. QED
    BY <2>1, LenProperties DEF q, Last
<1>4. /\ stack' \in [Threads -> Seq(Ops)]
      /\ Len(stack'[t]) <= Len(stack[t]) /\ Len(stack'[t]) \in Nat /\ Len(stack[t]) \in Nat
      /\ \A u \in Threads \ {t} : stack'[u] = stack[u]
  <2>1. Len(stack[t]) \in Nat \ {0}
    BY <1>1, EmptySeq
  <2>2. QED
    BY <1>2, <1>3, <2>1
<1>5. ASSUME NEW o \in Ops
      PROVE  /\ active'[o] = active[o] - (IF o = q THEN 1 ELSE 0)
             /\ fin'[o] = fin[o] + (IF o = q THEN 1 ELSE 0)
             /\ active[o] \in Nat /\ act[o] \in Nat /\ fin[o] \in Nat /\ act'[o] = act[o]
  <2>1. active' = [active EXCEPT ![q] = @ - 1] /\ fin' = [fin EXCEPT ![q] = @ + 1]
    BY DEF Leaving, Increment, Decrement, q
  <2>2. active \in [Ops -> Nat] /\ act \in [Ops -> Nat] /\ fin \in [Ops -> Nat]
    BY DEF Inv, TypeOK
  <2>3. QED
    BY <1>1, <1>3, <2>1, <2>2
<1>6. ASSUME NEW o \in Ops
      PROVE  /\ Cardinality(Activations(o)) = active[o]
             /\ Cardinality(Activations(o)') = Cardinality(Activations(o)) - (IF o = q THEN 1 ELSE 0)
             /\ Cardinality(Activations(o)') \in Nat
  <2>1. IsFiniteSet(Activations(o)) /\ Cardinality(Activations(o)) = active[o]
    BY ActivationsFinite DEF Inv, ActiveInv
  <2>2. CASE o = q
    <3>1. x \in Activations(o) /\ Activations(o)' = Activations(o) \ {x}
      BY <1>2, <2>2
    <3>2. /\ IsFiniteSet(Activations(o) \ {x})
          /\ Cardinality(Activations(o) \ {x}) = Cardinality(Activations(o)) - 1
      BY <2>1, <3>1, FS_RemoveElement
    <3>3. Cardinality(Activations(o) \ {x}) \in Nat
      BY <3>2, FS_CardinalityType
    <3>4. QED
      BY <2>1, <2>2, <3>1, <3>2, <3>3
  <2>3. CASE o # q
    <3>1. Activations(o)' = Activations(o)
      BY <1>2, <2>3
    <3>2. QED
      BY <1>5, <2>1, <2>3, <3>1
  <2>4. QED
    BY <2>2, <2>3
<1>7. ASSUME NEW o \in Ops
      PROVE  active'[o] = Cardinality(Activations(o)') /\ active'[o] = act'[o] - fin'[o]
  <2>1. active[o] = act[o] - fin[o]
    BY DEF Inv, ActiveInv
  <2>2. active'[o] = act'[o] - fin'[o]
    BY <1>5, <2>1
  <2>3. active'[o] = Cardinality(Activations(o)')
    <3>1. active'[o] = active[o] - (IF o = q THEN 1 ELSE 0)
      BY <1>5
    <3>2. /\ Cardinality(Activations(o)') = Cardinality(Activations(o)) - (IF o = q THEN 1 ELSE 0)
          /\ Cardinality(Activations(o)) = active[o]
      BY <1>6
    <3>3. QED
      BY <3>1, <3>2
  <2>4. QED
    BY <2>2, <2>3
<1>8. TypeOK'
  <2>1. active' \in [Ops -> Nat]
    <3>1. \A o \in Ops : active'[o] \in Nat
      BY <1>6, <1>7
    <3>2. active' = [o \in Ops |-> active'[o]]
      BY DEF Inv, TypeOK, Leaving, Decrement
    <3>3. QED
      BY <3>1, <3>2
  <2>2. fin' \in [Ops -> Nat]
    BY <1>3 DEF Inv, TypeOK, Leaving, Increment, q
  <2>3. QED
    BY <1>1, <1>4, <2>1, <2>2 DEF Inv, TypeOK, Leaving, NotifyAll
<1>9. ActiveInv'
  BY <1>7 DEF ActiveInv
<1>10. MonitorInv' /\ SleepInv' /\ WaitingInv' /\ RequestInv'
  BY <1>1 DEF Inv, MonitorInv, SleepInv, WaitingInv, RequestInv, Queued, Pending
<1>11. CallInv'
  <2>1. ASSUME NEW u \in Threads
        PROVE  /\ Len(stack'[u]) <= MaxDepth
               /\ pc'[u] # "run" => op'[u] \in Ops /\ Len(stack'[u]) < MaxDepth
    <3>1. CASE u = t
      BY <1>1, <1>4, <3>1, SentinelAssumption
    <3>2. CASE u # t
      BY <1>1, <1>4, <3>2 DEF Inv, CallInv
    <3>3. QED
      BY <3>1, <3>2
  <2>2. QED
    BY <2>1 DEF CallInv
<1>12. PermittedInv'
  <2>1. monitor = None
    BY DEF Leaving
  <2>2. QED
    BY <1>1, <2>1, SentinelAssumption DEF Inv, MonitorInv, PermittedInv
<1>13. MutexHolds'
  <2>1. \A o \in Ops : Activations(o)' \subseteq Activations(o)
    BY <1>2
  <2>2. QED
    BY <2>1, SentinelAssumption DEF Inv, MutexHolds
<1>14. QED
  BY <1>8, <1>9, <1>10, <1>11, <1>12, <1>13 DEF Inv

LEMMA NextInv == Inv /\ [Next]_vars => Inv'
<1> SUFFICES ASSUME Inv, [Next]_vars PROVE Inv'
  OBVIOUS
<1>1. ASSUME NEW t \in Threads, NEW o \in Ops, Call(t, o) PROVE Inv'
  BY <1>1, CallStep
<1>2. ASSUME NEW t \in Threads, Entering(t) PROVE Inv'
  BY <1>2, RequestingStep, TestStep, QueueStep, RetestStep, ReacquireStep, ActivatingStep
     DEF Entering
<1>3. ASSUME NEW t \in Threads, SpuriousWakeup(t) \/ Assign(t) PROVE Inv'
  BY <1>3, OutsideStep
<1>4. ASSUME NEW t \in Threads, Throw(t) PROVE Inv'
  BY <1>4, ThrowStep
<1>5. ASSUME NEW t \in Threads, Leaving(t) PROVE Inv'
  BY <1>5, LeavingStep
<1>6. CASE UNCHANGED vars
  <2>1. TypeOK'
    BY <1>6 DEF vars, counters, Inv, TypeOK
  <2>2. MonitorInv' /\ SleepInv' /\ CallInv' /\ PermittedInv'
    BY <1>6 DEF vars, counters, Inv, MonitorInv, SleepInv, CallInv, PermittedInv
  <2>3. ActiveInv' /\ MutexHolds'
    BY <1>6, StacksStay DEF vars, counters, Inv
  <2>4. WaitingInv' /\ RequestInv'
    BY <1>6 DEF vars, counters, Inv, WaitingInv, RequestInv, Queued, Pending
  <2>5. QED
    BY <2>1, <2>2, <2>3, <2>4 DEF Inv
<1>7. QED
  BY <1>1, <1>2, <1>3, <1>4, <1>5, <1>6 DEF Next

LEMMA InvHolds == Spec => []Inv
BY InitInv, NextInv, PTL DEF Spec

-----------------------------------------------------------------------------
(* The theorems.                                                             *)

\* The monitor, its counters and the threads keep their types; in particular no
\* counter of Sentinel.java ever becomes negative.
THEOREM TypeCorrect == Spec => []TypeOK
<1>1. Inv => TypeOK
  BY DEF Inv
<1>2. QED
  BY <1>1, InvHolds, PTL

\* The operations of a mutex exclude each other in the generated code.
THEOREM MutexIsKept == Spec => []MutexHolds
<1>1. Inv => MutexHolds
  BY DEF Inv
<1>2. QED
  BY <1>1, InvHolds, PTL

\* active == act - fin and, until a predicate throws, waiting == req - act, as
\* the comments of Sentinel.java claim.
THEOREM CountersCount == Spec => []CountersAreExact
<1>1. Inv => CountersAreExact
  <2> SUFFICES ASSUME Inv, NEW o \in Ops
               PROVE  /\ active[o] = Cardinality(Activations(o))
                      /\ active[o] = act[o] - fin[o]
                      /\ ~failed => waiting[o] = Cardinality(Queued(o))
                      /\ ~failed /\ monitor = None => waiting[o] = req[o] - act[o]
    BY DEF CountersAreExact
  <2>1. /\ active[o] = Cardinality(Activations(o)) /\ active[o] = act[o] - fin[o]
        /\ ~failed => waiting[o] = Cardinality(Queued(o))
        /\ ~failed => req[o] = act[o] + Cardinality(Pending(o))
        /\ act[o] \in Nat /\ req[o] \in Nat
    BY DEF Inv, TypeOK, ActiveInv, WaitingInv, RequestInv
  <2>2. Cardinality(Queued(o)) \in Nat
    BY PendingFinite, FS_CardinalityType
  <2>3. ASSUME monitor = None PROVE Pending(o) = Queued(o)
    <3>1. \A t \in Threads : pc[t] \in {"run", "calling", "waiting"}
      BY <2>3, SentinelAssumption DEF Inv, TypeOK, MonitorInv, PCs
    <3>2. QED
      BY <3>1 DEF Pending, Queued
  <2>4. QED
    BY <2>1, <2>2, <2>3
<1>2. QED
  BY <1>1, InvHolds, PTL

\* Every change of a counter wakes up every sleeping thread, so that a thread
\* sleeps on while its predicate is true only because of the object state.
THEOREM WakeUpsSuffice == Spec => []NobodySleepsInVain
<1>1. Init => NobodySleepsInVain
  BY DEF Init, NobodySleepsInVain
<1>2. Inv /\ NobodySleepsInVain /\ [Next]_vars => NobodySleepsInVain'
  <2> SUFFICES ASSUME Inv, NobodySleepsInVain, [Next]_vars PROVE NobodySleepsInVain'
    OBVIOUS
  <2>1. ASSUME NEW t \in Threads, NEW o \in Ops, Call(t, o) PROVE NobodySleepsInVain'
    <3>1. /\ UNCHANGED <<active, waiting, waitSet, stack, ivar, changed>>
          /\ pc[t] = "run" /\ pc'[t] = "calling"
          /\ \A u \in Threads \ {t} : pc'[u] = pc[u] /\ op'[u] = op[u]
      BY <2>1 DEF Call, Goto, counters, Inv, TypeOK
    <3>2. \A u \in waitSet : u \in Threads \ {t}
      BY <3>1 DEF Inv, TypeOK, SleepInv
    <3>3. QED
      BY <3>1, <3>2 DEF NobodySleepsInVain, evaluatePP
  <2>2. ASSUME NEW t \in Threads, Requesting(t) \/ Queue(t) \/ Activating(t) \/ Leaving(t)
        PROVE  NobodySleepsInVain'
    <3>1. waitSet' = {}
      BY <2>2 DEF Requesting, Queue, Activating, Leaving, NotifyAll
    <3>2. QED
      BY <3>1 DEF NobodySleepsInVain
  <2>3. ASSUME NEW t \in Threads, Test(t) \/ Reacquire(t) \/ Throw(t) \/ Retest(t)
        PROVE  NobodySleepsInVain'
    <3>1. /\ UNCHANGED <<active, waiting, stack, ivar, changed>>
          /\ pc[t] \notin {"run", "calling"}
          /\ \A u \in Threads \ {t} : pc'[u] = pc[u] /\ op'[u] = op[u]
      BY <2>3 DEF Test, Reacquire, Throw, Retest, Goto, counters, Inv, TypeOK
    <3>2. ASSUME NEW u \in waitSet, u \in waitSet', evaluatePP(op[u])
          PROVE  changed' /\ \E w \in Threads : pc'[w] \in {"run", "calling"} /\ stack'[w] # <<>>
      BY <3>1, <3>2 DEF NobodySleepsInVain
    <3>3. ASSUME NEW u \in waitSet', evaluatePP(op[u])
          PROVE  u \in waitSet
      BY <2>3, <3>3 DEF Test, Reacquire, Throw, Retest
    <3>4. \A u \in waitSet' : u \in Threads /\ op'[u] = op[u]
      BY <2>3, <3>1 DEF Test, Reacquire, Throw, Retest, Inv, TypeOK, SleepInv
    <3>5. \A u \in waitSet' : evaluatePP(op[u])' <=> evaluatePP(op[u])
      BY <3>1, <3>4 DEF evaluatePP
    <3>6. QED
      BY <3>2, <3>3, <3>5 DEF NobodySleepsInVain
  <2>4. ASSUME NEW t \in Threads, SpuriousWakeup(t) PROVE NobodySleepsInVain'
    BY <2>4 DEF SpuriousWakeup, counters, NobodySleepsInVain, evaluatePP
  <2>5. ASSUME NEW t \in Threads, Assign(t) PROVE NobodySleepsInVain'
    BY <2>5 DEF Assign, counters, NobodySleepsInVain
  <2>6. CASE UNCHANGED vars
    BY <2>6 DEF vars, counters, NobodySleepsInVain, evaluatePP
  <2>7. QED
    BY <2>1, <2>2, <2>3, <2>4, <2>5, <2>6 DEF Next, Entering
<1>3. QED
  BY <1>1, <1>2, InvHolds, PTL DEF Spec
=============================================================================
