----------------------------- MODULE ViceProofs -----------------------------
(***************************************************************************)
(* Theorems about the CPUs and buses of the distributed interpreter, for   *)
(* any number of CPUs, operations, threads and messages and any costs.     *)
(***************************************************************************)
EXTENDS Vice, SequenceTheorems, FiniteSetTheorems, WellFoundedInduction, TLAPS

-----------------------------------------------------------------------------
(* The earliest, the first and the next are well defined.                    *)

LessThan == {p \in Nat \X Nat : p[1] < p[2]}

LEMMA LeastNatural ==
  ASSUME NEW S \in SUBSET Nat, S # {}
  PROVE  \E m \in S : \A k \in S : m <= k
<1>1. IsWellFoundedOn(LessThan, Nat)
  <2>1. OpToRel(<, Nat) = LessThan
    BY DEF OpToRel, LessThan
  <2>2. QED
    BY <2>1, NatLessThanWellFounded
<1>2. PICK m \in S : \A k \in S : ~ (<<k, m>> \in LessThan)
  BY <1>1, WFMin, Zenon
<1>3. ASSUME NEW k \in S PROVE m <= k
  <2>1. m \in Nat /\ k \in Nat
    OBVIOUS
  <2>2. k < m => <<k, m>> \in LessThan
    BY <2>1 DEF LessThan
  <2>3. QED
    BY <1>2, <2>1, <2>2
<1>4. QED
  BY <1>3

LEMMA MinOfNaturals ==
  ASSUME NEW S \in SUBSET Nat, S # {}
  PROVE  MinOf(S) \in S /\ \A k \in S : MinOf(S) <= k
BY LeastNatural DEF MinOf

\* An element for which a measure is least.
LEMMA LeastMeasure ==
  ASSUME NEW S, S # {}, NEW f \in [S -> Nat]
  PROVE  \E x \in S : \A y \in S : f[x] <= f[y]
<1>1. {f[x] : x \in S} \in SUBSET Nat /\ {f[x] : x \in S} # {}
  OBVIOUS
<1>2. PICK m \in {f[x] : x \in S} : \A k \in {f[x] : x \in S} : m <= k
  BY <1>1, LeastNatural
<1>3. QED
  BY <1>2

\* A CPU or bus has its turn until a time of some clock.
LEMMA SwapTimeType ==
  ASSUME NEW D, NEW clock \in [D -> Nat], NEW first \in D, NEW other \in Nat
  PROVE  SwapTime(clock, first, other) \in Nat
<1>1. ASSUME DOMAIN clock # {first} PROVE NextTime(clock, first) \in Nat
  <2>1. /\ {clock[x] : x \in D \ {first}} \in SUBSET Nat
        /\ {clock[x] : x \in D \ {first}} # {}
    BY <1>1
  <2>2. QED
    BY <1>1, <2>1, MinOfNaturals DEF NextTime
<1>2. NextTime(clock, first) \in Nat
  BY <1>1 DEF NextTime
<1>3. QED
  BY <1>2 DEF SwapTime

LEMMA SmallestType ==
  ASSUME NEW D, D # {}, NEW clock \in [D -> Nat]
  PROVE  Smallest(clock) \in Nat
<1>1. {clock[x] : x \in DOMAIN clock} \in SUBSET Nat /\ {clock[x] : x \in DOMAIN clock} # {}
  OBVIOUS
<1>2. QED
  BY <1>1, MinOfNaturals DEF Smallest

\* The messages of a bus have different ids, so that there is always a first one.
LEMMA FirstMessage ==
  ASSUME NEW ms \in SUBSET Messages, ms # {},
         \A m, n \in ms : m.id = n.id => m = n
  PROVE  FindFirstMessage(ms) \in ms
<1>1. \A m \in ms : m.time \in Nat /\ m.prio \in Nat /\ m.id \in 1 .. 2 * MaxMes
  BY DEF Messages, MesIds
<1>2. MaxMes \in Nat
  BY ViceAssumption
<1>3. PICK a \in ms : \A n \in ms : a.time <= n.time
  <2>1. [m \in ms |-> m.time] \in [ms -> Nat]
    BY <1>1
  <2>2. PICK a \in ms : \A n \in ms : [m \in ms |-> m.time][a] <= [m \in ms |-> m.time][n]
    BY <2>1, LeastMeasure
  <2>3. QED
    BY <2>2
<1> DEFINE A == {m \in ms : m.time = a.time}
<1>4. PICK p \in A : \A n \in A : p.prio <= n.prio
  <2>1. [m \in A |-> m.prio] \in [A -> Nat] /\ A # {}
    BY <1>1
  <2>2. PICK p \in A : \A n \in A : [m \in A |-> m.prio][p] <= [m \in A |-> m.prio][n]
    BY <2>1, LeastMeasure
  <2>3. QED
    BY <2>2
<1> DEFINE P == {m \in A : m.prio = p.prio}
<1>5. PICK f \in P : \A n \in P : n.id <= f.id
  <2>1. [m \in P |-> 2 * MaxMes - m.id] \in [P -> Nat] /\ P # {}
    BY <1>1, <1>2
  <2>2. PICK f \in P : \A n \in P : [m \in P |-> 2 * MaxMes - m.id][f] <= [m \in P |-> 2 * MaxMes - m.id][n]
    BY <2>1, LeastMeasure
  <2>3. ASSUME NEW n \in P PROVE n.id <= f.id
    <3>1. 2 * MaxMes - f.id <= 2 * MaxMes - n.id
      BY <2>2
    <3>2. QED
      BY <1>1, <1>2, <3>1
  <2>4. QED
    BY <2>3
<1>6. ASSUME NEW n \in ms \ {f}
      PROVE  Earlier(f, n) \/ (~Earlier(n, f) /\ f.id > n.id)
  <2>1. f.id # n.id
    BY <1>6
  <2>2. CASE n \in P
    BY <1>1, <1>5, <2>1, <2>2 DEF Earlier
  <2>3. CASE n \in A \ P
    BY <1>1, <1>4, <2>3 DEF Earlier
  <2>4. CASE n \notin A
    BY <1>1, <1>3, <2>4 DEF Earlier
  <2>5. QED
    BY <2>2, <2>3, <2>4
<1>7. QED
  BY <1>6 DEF FindFirstMessage

-----------------------------------------------------------------------------
(* InsertMessageRequest and InsertMesInCPU.                                  *)

\* What comes first in a sequence and is closed to the front are its first elements.
LEMMA ClosedToTheFront ==
  ASSUME NEW n \in Nat, NEW P \in SUBSET (1 .. n),
         \A i \in P, j \in 1 .. n : j <= i => j \in P
  PROVE  P = 1 .. Cardinality(P)
<1>1. CASE P = {}
  BY <1>1, FS_EmptySet
<1>2. CASE P # {}
  <2>1. [i \in P |-> n - i] \in [P -> Nat]
    OBVIOUS
  <2>2. PICK k \in P : \A i \in P : [j \in P |-> n - j][k] <= [j \in P |-> n - j][i]
    BY <1>2, <2>1, LeastMeasure
  <2>3. \A i \in P : i <= k
    BY <2>2
  <2>4. P = 1 .. k
    <3>1. \A j \in 1 .. k : j \in P
      OBVIOUS
    <3>2. \A j \in P : j \in 1 .. k
      BY <2>3
    <3>3. QED
      BY <3>1, <3>2
  <2>5. Cardinality(P) = k
    BY <2>4, FS_Interval
  <2>6. QED
    BY <2>4, <2>5
<1>3. QED
  BY <1>1, <1>2

LEMMA CountType ==
  ASSUME NEW n \in Nat, NEW P \in SUBSET (1 .. n)
  PROVE  Cardinality(P) \in 0 .. n
<1>1. IsFiniteSet(1 .. n) /\ Cardinality(1 .. n) = n
  BY FS_Interval
<1>2. IsFiniteSet(P) /\ Cardinality(P) <= n
  BY <1>1, FS_Subset
<1>3. Cardinality(P) \in Nat
  BY <1>2, FS_CardinalityType
<1>4. QED
  BY <1>2, <1>3

OrderedByTime(s) == \A i, j \in DOMAIN s : i <= j => s[i].time <= s[j].time

\* The new element goes behind those that are not later.
NotLater(s, m) == {i \in DOMAIN s : s[i].time <= m.time}
PlaceOf(s, m) == Cardinality(NotLater(s, m))

\* An element is put at its place, the others keep their order.
LEMMA InsertByTimePlace ==
  ASSUME NEW S, NEW s \in Seq(S), NEW m \in S
  PROVE  /\ PlaceOf(s, m) \in 0 .. Len(s)
         /\ InsertByTime(s, m) \in Seq(S)
         /\ Len(InsertByTime(s, m)) = Len(s) + 1
         /\ \A i \in 1 .. Len(s) + 1 :
              InsertByTime(s, m)[i] = IF i <= PlaceOf(s, m) THEN s[i]
                                      ELSE IF i = PlaceOf(s, m) + 1 THEN m ELSE s[i - 1]
<1> DEFINE P == {i \in DOMAIN s : s[i].time <= m.time}
           k == Cardinality(P)
           n == Len(s)
           a == SubSeq(s, 1, k)
           z == SubSeq(s, k + 1, n)
<1>1. n \in Nat /\ DOMAIN s = 1 .. n /\ \A i \in 1 .. n : s[i] \in S
  BY LenProperties
<1>2. k \in 0 .. n
  BY <1>1, CountType
<1> HIDE DEF P
<1>3. a \in Seq(S) /\ Len(a) = k /\ \A i \in 1 .. k : a[i] = s[i]
  <2>1. \A i \in 1 .. k : s[i] \in S
    BY <1>1, <1>2
  <2>2. /\ a \in Seq(S) /\ Len(a) = IF 1 <= k THEN k - 1 + 1 ELSE 0
        /\ \A i \in 1 .. k - 1 + 1 : a[i] = s[1 + i - 1]
    BY <1>2, <2>1, SubSeqProperties
  <2>3. QED
    BY <1>2, <2>2
<1>4. z \in Seq(S) /\ Len(z) = n - k /\ \A i \in 1 .. n - k : z[i] = s[k + i]
  <2>1. \A i \in k + 1 .. n : s[i] \in S
    BY <1>1, <1>2
  <2>2. /\ z \in Seq(S) /\ Len(z) = IF k + 1 <= n THEN n - (k + 1) + 1 ELSE 0
        /\ \A i \in 1 .. n - (k + 1) + 1 : z[i] = s[(k + 1) + i - 1]
    BY <1>1, <1>2, <2>1, SubSeqProperties
  <2>3. QED
    BY <1>1, <1>2, <2>2
<1>5. <<m>> \in Seq(S) /\ Len(<<m>>) = 1 /\ <<m>>[1] = m
  OBVIOUS
<1> HIDE DEF a, z, k, n
<1> DEFINE am == a \o <<m>>
<1>6. am \in Seq(S) /\ Len(am) = k + 1 /\ \A i \in 1 .. k + 1 : am[i] = IF i <= k THEN s[i] ELSE m
  <2>1. /\ am \in Seq(S) /\ Len(am) = k + 1
        /\ \A i \in 1 .. k + 1 : am[i] = IF i <= k THEN a[i] ELSE <<m>>[i - k]
    BY <1>3, <1>5, ConcatProperties
  <2>2. QED
    BY <1>2, <1>3, <1>5, <2>1
<1> HIDE DEF am
<1> DEFINE r == am \o z
<1>7. /\ r \in Seq(S) /\ Len(r) = n + 1
      /\ \A i \in 1 .. n + 1 : r[i] = IF i <= k + 1 THEN am[i] ELSE z[i - (k + 1)]
  <2>1. /\ r \in Seq(S) /\ Len(r) = Len(am) + Len(z)
        /\ \A i \in 1 .. Len(am) + Len(z) : r[i] = IF i <= Len(am) THEN am[i] ELSE z[i - Len(am)]
    BY <1>4, <1>6, ConcatProperties
  <2>2. Len(am) = k + 1 /\ Len(am) + Len(z) = n + 1
    BY <1>1, <1>2, <1>4, <1>6
  <2>3. QED
    BY <2>1, <2>2
<1> HIDE DEF r
<1>8. \A i \in 1 .. n + 1 : r[i] = IF i <= k THEN s[i] ELSE IF i = k + 1 THEN m ELSE s[i - 1]
  BY <1>1, <1>2, <1>4, <1>6, <1>7
<1>9. InsertByTime(s, m) = r
  BY DEF InsertByTime, r, am, a, z, k, n, P
<1>10. QED
  BY <1>2, <1>7, <1>8, <1>9 DEF k, n, P, PlaceOf, NotLater

LEMMA InsertByTimeType ==
  ASSUME NEW S, NEW s \in Seq(S), NEW m \in S
  PROVE  InsertByTime(s, m) \in Seq(S)
BY InsertByTimePlace

Elements(s) == {s[k] : k \in DOMAIN s}

\* The elements afterwards are those before and the new one.
LEMMA InsertByTimeElements ==
  ASSUME NEW S, NEW s \in Seq(S), NEW m \in S
  PROVE  Elements(InsertByTime(s, m)) = Elements(s) \cup {m}
<1> DEFINE r == InsertByTime(s, m)
           n == Len(s)
           k == PlaceOf(s, m)
<1>1. /\ k \in 0 .. n
      /\ r \in Seq(S)
      /\ Len(r) = n + 1
      /\ \A i \in 1 .. n + 1 : r[i] = IF i <= k THEN s[i] ELSE IF i = k + 1 THEN m ELSE s[i - 1]
  BY InsertByTimePlace
<1>2. n \in Nat /\ DOMAIN s = 1 .. n /\ DOMAIN r = 1 .. n + 1
  BY <1>1, LenProperties
<1> HIDE DEF r, n, k
<1>3. ASSUME NEW i \in 1 .. n + 1 PROVE r[i] \in {s[j] : j \in 1 .. n} \cup {m}
  BY <1>1, <1>2
<1>4. ASSUME NEW j \in 1 .. n PROVE s[j] \in {r[i] : i \in 1 .. n + 1}
  <2>1. CASE j <= k
    BY <1>1, <1>2, <2>1
  <2>2. CASE j > k
    <3>1. j + 1 \in 1 .. n + 1 /\ r[j + 1] = s[j]
      BY <1>1, <1>2, <2>2
    <3>2. QED
      BY <3>1
  <2>3. QED
    BY <1>1, <1>2, <2>1, <2>2
<1>5. m \in {r[i] : i \in 1 .. n + 1}
  <2>1. k + 1 \in 1 .. n + 1 /\ r[k + 1] = m
    BY <1>1, <1>2
  <2>2. QED
    BY <2>1
<1>6. QED
  BY <1>2, <1>3, <1>4, <1>5 DEF r, n, Elements

LEMMA InsertByTimeOrder ==
  ASSUME NEW S, \A x \in S : x.time \in Nat, NEW s \in Seq(S), NEW m \in S, OrderedByTime(s)
  PROVE  OrderedByTime(InsertByTime(s, m))
<1> DEFINE r == InsertByTime(s, m)
           n == Len(s)
           k == PlaceOf(s, m)
           P == NotLater(s, m)
<1>1. /\ k \in 0 .. n
      /\ r \in Seq(S)
      /\ Len(r) = n + 1
      /\ \A i \in 1 .. n + 1 : r[i] = IF i <= k THEN s[i] ELSE IF i = k + 1 THEN m ELSE s[i - 1]
  BY InsertByTimePlace
<1>2. /\ n \in Nat /\ DOMAIN s = 1 .. n /\ DOMAIN r = 1 .. n + 1
      /\ \A i \in 1 .. n : s[i] \in S
  BY <1>1, LenProperties
<1> HIDE DEF r, n, k
<1>3. /\ m.time \in Nat
      /\ \A i \in 1 .. n : s[i].time \in Nat
      /\ \A i, j \in 1 .. n : i <= j => s[i].time <= s[j].time
  BY <1>2 DEF OrderedByTime
<1>4. P = 1 .. k
  <2>1. P \in SUBSET (1 .. n)
    BY <1>2 DEF NotLater
  <2>2. \A i \in P, j \in 1 .. n : j <= i => j \in P
    BY <1>2, <1>3 DEF NotLater
  <2>3. QED
    BY <1>1, <1>2, <2>1, <2>2, ClosedToTheFront DEF PlaceOf, k
<1>5. \A i \in 1 .. n : s[i].time <= m.time <=> i <= k
  <2>1. ASSUME NEW i \in 1 .. n PROVE s[i].time <= m.time <=> i \in P
    BY <1>2 DEF NotLater
  <2>2. ASSUME NEW i \in 1 .. n PROVE i \in P <=> i <= k
    BY <1>1, <1>2, <1>4
  <2>3. QED
    BY <2>1, <2>2
<1> HIDE DEF P
<1>6. ASSUME NEW i \in 1 .. n + 1, NEW j \in 1 .. n + 1, i <= j
      PROVE  r[i].time <= r[j].time
  <2>1. CASE j <= k
    <3>1. r[i] = s[i] /\ r[j] = s[j] /\ i \in 1 .. n /\ j \in 1 .. n
      BY <1>1, <1>2, <1>6, <2>1
    <3>2. QED
      BY <1>3, <1>6, <3>1
  <2>2. CASE i > k + 1
    <3>1. r[i] = s[i - 1] /\ r[j] = s[j - 1] /\ i - 1 \in 1 .. n /\ j - 1 \in 1 .. n /\ i - 1 <= j - 1
      BY <1>1, <1>2, <1>6, <2>2
    <3>2. QED
      BY <1>3, <3>1
  <2>3. CASE i <= k + 1 /\ j > k
    <3>1. r[i].time <= m.time /\ r[i].time \in Nat
      <4>1. CASE i <= k
        BY <1>1, <1>2, <1>3, <1>5, <4>1
      <4>2. CASE i = k + 1
        BY <1>1, <1>3, <4>2
      <4>3. QED
        BY <1>1, <2>3, <4>1, <4>2
    <3>2. m.time <= r[j].time /\ r[j].time \in Nat
      <4>1. CASE j = k + 1
        BY <1>1, <1>3, <4>1
      <4>2. CASE j > k + 1
        <5>1. r[j] = s[j - 1] /\ j - 1 \in 1 .. n /\ ~ (j - 1 <= k)
          BY <1>1, <1>2, <4>2
        <5>2. QED
          BY <1>3, <1>5, <5>1
      <4>3. QED
        BY <1>1, <2>3, <4>1, <4>2
    <3>3. QED
      BY <1>3, <3>1, <3>2
  <2>4. QED
    BY <1>1, <2>1, <2>2, <2>3
<1>7. QED
  BY <1>2, <1>6 DEF OrderedByTime, r

-----------------------------------------------------------------------------
(* Clocks and costs.                                                         *)

LEMMA Costs ==
  /\ GuardTime \in Nat /\ TaskSwitch \in Nat /\ FirstSwap \in Nat /\ MaxMes \in Nat
  /\ BusTime \in Nat /\ StepSize \in Nat /\ MaxThreads \in Nat /\ MaxThreads >= 1
  /\ DebugThread \in ThreadIds /\ NoThread \notin ThreadIds
  /\ IsFiniteSet(ThreadIds)
  /\ VCPU \in Nodes /\ \A c \in CPUs : c \in Nodes /\ c # VCPU
<1>1. MaxThreads \in Nat /\ MaxThreads >= 1
  BY ViceAssumption
<1>2. IsFiniteSet(ThreadIds)
  BY <1>1, FS_Interval DEF ThreadIds
<1>3. QED
  BY <1>1, <1>2, ViceAssumption DEF ThreadIds, DebugThread, NoThread, Nodes

LEMMA DurationType ==
  ASSUME NEW b PROVE Duration(b) \in Nat
BY Costs DEF Duration

LEMMA ClockType ==
  ASSUME TypeOK, NEW c \in Nodes
  PROVE  /\ Clock(c) \in Nat
         /\ time[c] \in Nat /\ idle[c] \in Nat
         /\ Clock(c) >= time[c] /\ Clock(c) >= idle[c]
BY DEF TypeOK, Clock, MaxVal

LEMMA ClocksType ==
  ASSUME TypeOK
  PROVE  Smallest(CPUClock) \in Nat /\ Smallest(btime) \in Nat
<1>1. CPUClock \in [Nodes -> Nat]
  BY ClockType DEF CPUClock
<1>2. btime \in [Buses -> Nat] /\ Buses # {} /\ Nodes # {}
  BY Costs DEF TypeOK, Buses
<1>3. QED
  BY <1>1, <1>2, SmallestType

LEMMA SwapsType ==
  ASSUME TypeOK
  PROVE  /\ \A c \in Nodes : CPUSwap(c) \in Nat
         /\ \A b \in Buses : SwapTime(btime, b, Smallest(CPUClock)) \in Nat
<1>1. CPUClock \in [Nodes -> Nat]
  BY ClockType DEF CPUClock
<1>2. btime \in [Buses -> Nat]
  BY DEF TypeOK
<1>3. ASSUME NEW c \in Nodes PROVE CPUSwap(c) \in Nat
  BY <1>1, ClocksType, SwapTimeType DEF CPUSwap
<1>4. ASSUME NEW b \in Buses PROVE SwapTime(btime, b, Smallest(CPUClock)) \in Nat
  BY <1>2, ClocksType, SwapTimeType
<1>5. QED
  BY <1>3, <1>4

LEMMA IncrAbsTimeType ==
  ASSUME TypeOK, NEW c \in Nodes, NEW t \in Nat, NEW n \in Nat
  PROVE  IncrAbsTime(c, t, n) \in Nat /\ IncrAbsTime(c, t, n) >= t
BY ClockType DEF IncrAbsTime, MaxVal

LEMMA SwapOutType ==
  ASSUME TypeOK, NEW c \in Nodes, NEW t \in Nat
  PROVE  SwapOut(c, t) \in Nat /\ SwapOut(c, t) >= t
BY IncrAbsTimeType, Costs DEF SwapOut

LEMMA StepBUSTimeBackType ==
  ASSUME TypeOK, NEW b \in Buses, NEW t \in Nat
  PROVE  StepBUSTimeBack(b, t) \in Nat
BY DEF TypeOK, StepBUSTimeBack

-----------------------------------------------------------------------------
(* SelAndRunThread: a thread that may go on is run, the first in turn, or the *)
(* CPU is blocked.                                                           *)

InfosType == [ThreadIds -> ThreadInfos]

\* What SelAndRunThread does, whatever it costs.
Selects(info, c, blocked) ==
  \/ /\ cpusblocked' = blocked \cup {c}
     /\ thr' = info
     /\ cur' = cur
     /\ \E i \in Nat : idle' = [idle EXCEPT ![c] = i]
     /\ turn' = [at |-> "sched"] \/ turn' = [at |-> "deadlock"]
  \/ \E n \in ThreadsInTurn(info, c) :
       /\ info[n].status # "SyncOp"
       /\ cpusblocked' = blocked
       /\ thr' = [info EXCEPT ![n].status = "Running"]
       /\ cur' = [cur EXCEPT ![c] = n]
       /\ idle' = idle
       /\ turn' = [at |-> "run"]

LEMMA FirstInTurn ==
  ASSUME TypeOK, NEW c \in Nodes, NEW S \in SUBSET ThreadIds, S # {}
  PROVE  (CHOOSE n \in S : \A o \in S : Position(c, n) <= Position(c, o)) \in S
<1>1. \A t \in S : Position(c, t) \in Nat
  BY Costs DEF Position, ThreadIds
<1>2. [t \in S |-> Position(c, t)] \in [S -> Nat]
  BY <1>1
<1>3. PICK n \in S : \A o \in S : [t \in S |-> Position(c, t)][n] <= [t \in S |-> Position(c, t)][o]
  BY <1>2, LeastMeasure
<1>4. \A o \in S : Position(c, n) <= Position(c, o)
  BY <1>3
<1>5. QED
  BY <1>4

LEMMA SelAndRunThreadSelects ==
  ASSUME TypeOK, NEW info \in InfosType, NEW c \in Nodes, NEW t \in Nat, NEW blocked,
         SelAndRunThread(info, c, t, blocked)
  PROVE  /\ Selects(info, c, blocked)
         /\ \E u \in Nat : u >= t /\ time' = [time EXCEPT ![c] = u]
<1> DEFINE ready == MayGoOn(info, c)
           next == CHOOSE n \in ready : \A o \in ready : Position(c, n) <= Position(c, o)
           tested == {n \in ThreadsInTurn(info, c) : info[n].status = "Blocked" /\
                         (ready # {} => Position(c, n) <= Position(c, next))}
           t1 == IF tested = {} THEN t ELSE IncrAbsTime(c, t, GuardTime * Cardinality(tested))
<1>1. ready \in SUBSET ThreadIds /\ tested \in SUBSET ThreadIds
  BY DEF MayGoOn, ThreadsInTurn
<1>2. Cardinality(tested) \in Nat
  <2>1. IsFiniteSet(tested)
    BY <1>1, Costs, FS_Subset
  <2>2. QED
    BY <2>1, FS_CardinalityType
<1>3. t1 \in Nat /\ t1 >= t
  <2>1. GuardTime * Cardinality(tested) \in Nat
    BY <1>2, Costs
  <2> HIDE DEF tested
  <2>2. QED
    BY <2>1, IncrAbsTimeType
<1>4. CASE ready = {}
  <2>1. /\ time' = [time EXCEPT ![c] = t1]
        /\ idle' = [idle EXCEPT ![c] = MaxVal(t1, idle[c]) + StepSize]
        /\ cpusblocked' = blocked \cup {c}
        /\ thr' = info
        /\ turn' = [at |-> IF c \in CPUs /\ blocked \cup {c} = Nodes THEN "deadlock" ELSE "sched"]
        /\ cur' = cur
    BY <1>4 DEF SelAndRunThread
  <2> HIDE DEF t1
  <2>2. MaxVal(t1, idle[c]) + StepSize \in Nat
    BY <1>3, ClockType, Costs DEF MaxVal
  <2>3. turn' = [at |-> "sched"] \/ turn' = [at |-> "deadlock"]
    BY <2>1
  <2>4. Selects(info, c, blocked)
    BY <2>1, <2>2, <2>3 DEF Selects
  <2>5. QED
    BY <1>3, <2>1, <2>4
<1>5. CASE ready # {}
  <2>1. next \in ready
    BY <1>1, <1>5, FirstInTurn
  <2>2. next \in ThreadsInTurn(info, c) /\ info[next].status # "SyncOp"
    BY <2>1 DEF MayGoOn
  <2>3. /\ time' = [time EXCEPT ![c] = IF next = cur[c] THEN t1 ELSE SwapOut(c, t1)]
        /\ cpusblocked' = blocked
        /\ thr' = [info EXCEPT ![next].status = "Running"]
        /\ cur' = [cur EXCEPT ![c] = next]
        /\ turn' = [at |-> "run"]
        /\ idle' = idle
    BY <1>5 DEF SelAndRunThread
  <2> HIDE DEF t1, next, ready
  <2>4. /\ (IF next = cur[c] THEN t1 ELSE SwapOut(c, t1)) \in Nat
        /\ (IF next = cur[c] THEN t1 ELSE SwapOut(c, t1)) >= t
    BY <1>3, SwapOutType
  <2>5. Selects(info, c, blocked)
    BY <2>2, <2>3 DEF Selects
  <2>6. QED
    BY <2>3, <2>4, <2>5
<1>6. QED
  BY <1>4, <1>5

-----------------------------------------------------------------------------
(* The inductive invariant of type correctness: the main loop executes a live *)
(* thread of the current CPU, ids of threads and messages are fresh, and no   *)
(* two messages on the buses share an id.                                     *)

CurrentThread ==
  turn.at = "run" =>
    /\ cur[curcpu] \in ThreadIds
    /\ Alive(cur[curcpu])
    /\ thr[cur[curcpu]].cpu = curcpu

LaterThreads ==
  /\ next_thread_id >= 2
  /\ thr[DebugThread].serves = NoMessage
  /\ \A t \in ThreadIds : t >= next_thread_id =>
       thr[t].status = "None" /\ thr[t].serves = NoMessage

UniqueIds ==
  \A b, d \in Buses : \A m \in mes[b], k \in mes[d] :
    m.id <= nextmesid /\ (m.id = k.id => m = k /\ b = d)

MachineInv == TypeOK /\ CurrentThread /\ LaterThreads /\ UniqueIds

LEMMA InitMachineInv == Init => MachineInv
<1> SUFFICES ASSUME Init PROVE MachineInv
  OBVIOUS
<1>1. NewThread("Running", VCPU, DefaultPriority, NoMessage) \in ThreadInfos
  BY Costs DEF NewThread, ThreadInfos, DefaultPriority
<1>2. NewThread("None", VCPU, DefaultPriority, NoMessage) \in ThreadInfos
  BY Costs DEF NewThread, ThreadInfos, DefaultPriority
<1>3. thr \in [ThreadIds -> ThreadInfos]
  BY <1>1, <1>2 DEF Init
<1>4. \A op \in Ops : <<>> \in Seq(Messages)
  OBVIOUS
<1>5. TypeOK
  <2>1. queue \in [Nodes -> [Ops -> Seq(Messages)]] /\ waiting \in [Buses -> Seq(Requests)]
    BY <1>4 DEF Init
  <2>2. turn \in Turns
    BY DEF Init, Turns
  <2>3. next_thread_id \in 1 .. MaxThreads + 1 /\ nextmesid \in 0 .. 2 * MaxMes
    BY Costs DEF Init
  <2>4. cur \in [Nodes -> ThreadIds \cup {NoThread}]
    BY Costs DEF Init
  <2>5. QED
    BY <1>3, <2>1, <2>2, <2>3, <2>4, Costs DEF Init, TypeOK
<1>6. CurrentThread
  BY Costs DEF Init, CurrentThread, Alive, NewThread
<1>7. LaterThreads
  BY Costs DEF Init, LaterThreads, NewThread, DebugThread, ThreadIds
<1>8. UniqueIds
  BY DEF Init, UniqueIds
<1>9. QED
  BY <1>5, <1>6, <1>7, <1>8 DEF MachineInv

\* What is known when the current thread executes an instruction.
LEMMA Executing ==
  ASSUME MachineInv, Executes
  PROVE  /\ curcpu \in Nodes
         /\ cur[curcpu] \in ThreadIds
         /\ thr[cur[curcpu]] \in ThreadInfos
         /\ thr[cur[curcpu]].status \notin {"None", "SyncOp"}
         /\ thr[cur[curcpu]].cpu = curcpu
         /\ cur[curcpu] < next_thread_id
         /\ time[curcpu] \in Nat /\ Clock(curcpu) \in Nat
         /\ turn.at = "run"
<1>1. curcpu \in Nodes /\ turn.at = "run" /\ thr[cur[curcpu]].status # "SyncOp"
  BY DEF MachineInv, TypeOK, Executes, EndOfCPUSlice
<1>2. cur[curcpu] \in ThreadIds /\ thr[cur[curcpu]].cpu = curcpu /\ thr[cur[curcpu]].status # "None"
  BY <1>1 DEF MachineInv, CurrentThread, Alive
<1>3. thr[cur[curcpu]] \in ThreadInfos
  BY <1>2 DEF MachineInv, TypeOK
<1>4. cur[curcpu] < next_thread_id
  BY <1>2, Costs DEF MachineInv, LaterThreads, TypeOK, ThreadIds
<1>5. time[curcpu] \in Nat /\ Clock(curcpu) \in Nat
  BY <1>1, ClockType DEF MachineInv
<1>6. QED
  BY <1>1, <1>2, <1>3, <1>4, <1>5

LEMMA WorkInv ==
  ASSUME MachineInv, NEW d \in Durations, Work(d)
  PROVE  MachineInv'
<1>1. d \in Nat
  BY ViceAssumption
<1>2. IncrAbsTime(curcpu, time[curcpu], d) \in Nat
  BY <1>1, Executing, IncrAbsTimeType DEF Work, MachineInv
<1>3. time' \in [Nodes -> Nat]
  BY <1>2 DEF Work, MachineInv, TypeOK
<1>4. QED
  BY <1>3 DEF Work, MachineInv, TypeOK, CurrentThread, LaterThreads, UniqueIds, Alive,
              thrVars, busVars, ctlVars

LEMMA SetGateInv ==
  ASSUME MachineInv, NEW v \in BOOLEAN, SetGate(v)
  PROVE  MachineInv'
BY DEF SetGate, MachineInv, TypeOK, CurrentThread, LaterThreads, UniqueIds, Alive,
       thrVars, busVars, ctlVars

\* A thread that SelAndRunThread selects keeps the invariant.
LEMMA SelectsInv ==
  ASSUME MachineInv, NEW info \in InfosType, NEW blocked \in SUBSET Nodes,
         \A t \in ThreadIds : /\ info[t].cpu = thr[t].cpu
                              /\ info[t].serves = thr[t].serves
                              /\ info[t].status = "None" <=> thr[t].status = "None",
         curcpu' \in Nodes, Selects(info, curcpu', blocked),
         time' \in [Nodes -> Nat], swaptime' \in Nat,
         UNCHANGED <<gate, queue, next_thread_id, busVars>>
  PROVE  MachineInv'
<1> USE DEF MachineInv, TypeOK
<1>1. CASE thr' = info /\ cur' = cur /\ turn'.at # "run" /\ turn' \in Turns /\ idle' \in [Nodes -> Nat] /\ cpusblocked' \in SUBSET Nodes
  <2>1. TypeOK'
    BY <1>1 DEF busVars, InfosType
  <2>2. CurrentThread' /\ UniqueIds'
    BY <1>1 DEF CurrentThread, UniqueIds, busVars
  <2>3. LaterThreads'
    BY <1>1, Costs DEF LaterThreads
  <2>4. QED
    BY <2>1, <2>2, <2>3
<1>2. ASSUME NEW n \in ThreadsInTurn(info, curcpu'),
             cpusblocked' = blocked,
             thr' = [info EXCEPT ![n].status = "Running"],
             cur' = [cur EXCEPT ![curcpu'] = n],
             idle' = idle,
             turn' = [at |-> "run"]
      PROVE  MachineInv'
  <2>1. n \in ThreadIds /\ info[n].status # "None" /\ info[n].cpu = curcpu' /\ info[n] \in ThreadInfos
    BY <1>2 DEF ThreadsInTurn, InfosType
  <2>2. [info[n] EXCEPT !.status = "Running"] \in ThreadInfos
    BY <2>1 DEF ThreadInfos
  <2>3. thr' = [info EXCEPT ![n] = [info[n] EXCEPT !.status = "Running"]]
    BY <1>2
  <2>4. thr' \in [ThreadIds -> ThreadInfos]
    BY <2>1, <2>2, <2>3 DEF InfosType
  <2>5. \A t \in ThreadIds : /\ thr'[t].cpu = thr[t].cpu
                             /\ thr'[t].serves = thr[t].serves
                             /\ thr'[t].status = "None" <=> thr[t].status = "None"
    BY <2>1, <2>3 DEF InfosType, ThreadInfos
  <2>6. TypeOK'
    <3>1. turn' \in Turns
      BY <1>2 DEF Turns
    <3>2. cur' \in [Nodes -> ThreadIds \cup {NoThread}]
      BY <1>2, <2>1
    <3>3. QED
      BY <1>2, <2>4, <3>1, <3>2 DEF busVars
  <2>7. CurrentThread'
    BY <1>2, <2>1, <2>5 DEF CurrentThread, Alive
  <2>8. LaterThreads'
    BY <2>5, Costs DEF LaterThreads
  <2>9. UniqueIds'
    BY DEF UniqueIds, busVars
  <2>10. QED
    BY <2>6, <2>7, <2>8, <2>9
<1>3. QED
  <2>1. CASE /\ cpusblocked' = blocked \cup {curcpu'}
             /\ thr' = info
             /\ cur' = cur
             /\ \E i \in Nat : idle' = [idle EXCEPT ![curcpu'] = i]
             /\ turn' = [at |-> "sched"] \/ turn' = [at |-> "deadlock"]
    <3>1. turn' \in Turns /\ turn'.at # "run"
      BY <2>1 DEF Turns
    <3>2. idle' \in [Nodes -> Nat] /\ cpusblocked' \in SUBSET Nodes
      BY <2>1
    <3>3. QED
      BY <1>1, <2>1, <3>1, <3>2
  <2>2. QED
    BY <1>2, <2>1 DEF Selects

LEMMA LocalCallInv ==
  ASSUME MachineInv, LocalCall
  PROVE  MachineInv'
<1> DEFINE t == IncrAbsTime(curcpu, time[curcpu], GuardTime)
           info == [thr EXCEPT ![cur[curcpu]].status = "Blocked"]
<1>1. t \in Nat
  BY Executing, IncrAbsTimeType, Costs DEF LocalCall, MachineInv
<1>2. curcpu' = curcpu /\ swaptime' = swaptime /\ UNCHANGED <<gate, queue, next_thread_id, busVars>>
  BY DEF LocalCall
<1>3. CASE time' = [time EXCEPT ![curcpu] = t] /\ UNCHANGED <<idle, cur, thr, cpusblocked, turn>>
  <2>1. time' \in [Nodes -> Nat]
    BY <1>1, <1>3 DEF MachineInv, TypeOK
  <2> HIDE DEF t
  <2>2. QED
    BY <1>2, <1>3, <2>1 DEF MachineInv, TypeOK, CurrentThread, LaterThreads, UniqueIds, Alive, busVars
<1>4. CASE SelAndRunThread(info, curcpu, t, cpusblocked)
  <2>1. cur[curcpu] \in ThreadIds /\ thr[cur[curcpu]] \in ThreadInfos /\ thr[cur[curcpu]].status # "None"
        /\ curcpu \in Nodes
    BY Executing DEF LocalCall
  <2>2. [thr[cur[curcpu]] EXCEPT !.status = "Blocked"] \in ThreadInfos
    BY <2>1 DEF ThreadInfos
  <2>3. info = [thr EXCEPT ![cur[curcpu]] = [thr[cur[curcpu]] EXCEPT !.status = "Blocked"]]
    OBVIOUS
  <2>4. info \in InfosType
    BY <2>1, <2>2, <2>3 DEF MachineInv, TypeOK, InfosType
  <2>5. \A u \in ThreadIds : /\ info[u].cpu = thr[u].cpu
                             /\ info[u].serves = thr[u].serves
                             /\ info[u].status = "None" <=> thr[u].status = "None"
    BY <2>1, <2>3 DEF MachineInv, TypeOK, ThreadInfos
  <2> HIDE DEF info, t
  <2>6. /\ Selects(info, curcpu, cpusblocked)
        /\ \E u \in Nat : u >= t /\ time' = [time EXCEPT ![curcpu] = u]
    BY <1>1, <1>4, <2>1, <2>4, SelAndRunThreadSelects DEF MachineInv
  <2>7. time' \in [Nodes -> Nat]
    BY <2>1, <2>6 DEF MachineInv, TypeOK
  <2>8. cpusblocked \in SUBSET Nodes /\ swaptime' \in Nat /\ curcpu' \in Nodes
    BY <1>2, <2>1 DEF MachineInv, TypeOK
  <2>9. Selects(info, curcpu', cpusblocked)
    BY <1>2, <2>6
  <2>10. QED
    BY <1>2, <2>4, <2>5, <2>7, <2>8, <2>9, SelectsInv
<1>5. QED
  BY <1>3, <1>4 DEF LocalCall

LEMMA NewCallType ==
  ASSUME MachineInv, Executes, nextmesid < MaxMes,
         NEW kind \in {"call", "broadcast"}, NEW op \in Ops, NEW to \in SUBSET Nodes
  PROVE  /\ NewCall(kind, op, to) \in Messages
         /\ nextmesid + 1 \in MesIds
         /\ NewCall(kind, op, to).kind = kind
         /\ NewCall(kind, op, to).id = nextmesid + 1
         /\ NewCall(kind, op, to).call = nextmesid + 1
         /\ NewCall(kind, op, to).time = Clock(curcpu)
         /\ NewCall(kind, op, to).op = op
         /\ NewCall(kind, op, to).to = to
         /\ NewCall(kind, op, to).thread = IF op \in SyncOps THEN cur[curcpu] ELSE NoThread
<1>1. nextmesid + 1 \in MesIds
  BY Costs DEF MachineInv, TypeOK, MesIds
<1>2. /\ Clock(curcpu) \in Nat /\ thr[cur[curcpu]].prio \in Nat /\ curcpu \in Nodes
      /\ cur[curcpu] \in ThreadIds
  BY Executing DEF ThreadInfos
<1>3. NewCall(kind, op, to) \in Messages
  BY <1>1, <1>2 DEF NewCall, Messages
<1>4. QED
  BY <1>1, <1>3 DEF NewCall

\* A message with a fresh id.
LEMMA FreshMessage ==
  ASSUME TypeOK, UniqueIds, NEW b \in Buses, NEW m \in Messages, m.id = nextmesid + 1,
         nextmesid' = nextmesid + 1, mes' = [mes EXCEPT ![b] = @ \cup {m}]
  PROVE  UniqueIds' /\ mes' \in [Buses -> SUBSET Messages]
<1>1. nextmesid \in Nat
  BY Costs DEF TypeOK
<1>2. ASSUME NEW d \in Buses, NEW k \in mes[d]
      PROVE  k \in Messages /\ k.id \in Nat /\ k.id <= nextmesid
  <2>1. k \in Messages
    BY DEF TypeOK
  <2>2. k.id \in Nat
    BY <2>1, Costs DEF Messages, MesIds
  <2>3. QED
    BY <2>1, <2>2 DEF UniqueIds
<1>3. \A d \in Buses : mes'[d] = IF d = b THEN mes[d] \cup {m} ELSE mes[d]
  BY DEF TypeOK
<1>4. ASSUME NEW d \in Buses, NEW e \in Buses, NEW k \in mes'[d], NEW l \in mes'[e]
      PROVE  k.id <= nextmesid + 1 /\ (k.id = l.id => k = l /\ d = e)
  <2>1. CASE k \in mes[d] /\ l \in mes[e]
    BY <1>1, <1>2, <2>1 DEF UniqueIds
  <2>2. CASE k = m /\ d = b /\ l \in mes[e]
    BY <1>1, <1>2, <2>2
  <2>3. CASE k \in mes[d] /\ l = m /\ e = b
    BY <1>1, <1>2, <2>3
  <2>4. CASE k = m /\ l = m /\ d = b /\ e = b
    BY <1>1, <2>4
  <2>5. QED
    BY <1>3, <2>1, <2>2, <2>3, <2>4
<1>5. UniqueIds'
  BY <1>4 DEF UniqueIds
<1>6. mes' \in [Buses -> SUBSET Messages]
  BY <1>3 DEF TypeOK
<1>7. QED
  BY <1>5, <1>6

LEMMA RemoteCallInv ==
  ASSUME MachineInv, NEW n \in Nodes, NEW op \in Ops, RemoteCall(n, op)
  PROVE  MachineInv'
<1> DEFINE m == NewCall("call", op, {n})
           b == BUSBetween(curcpu, n)
           t == cur[curcpu]
<1>1. /\ m \in Messages /\ m.id = nextmesid + 1 /\ m.id \in MesIds /\ m.time \in Nat
      /\ m.time = Clock(curcpu)
  BY NewCallType, Executing DEF RemoteCall
<1>2. b \in Buses
  BY DEF BUSBetween, Buses
<1> HIDE DEF m, b
<1>3. /\ nextmesid' = nextmesid + 1
      /\ waiting' = [waiting EXCEPT ![b] = InsertByTime(@, [id |-> m.id, time |-> m.time])]
      /\ mes' = [mes EXCEPT ![b] = @ \cup {m}]
      /\ btime' = [btime EXCEPT ![b] = StepBUSTimeBack(b, m.time)]
      /\ thr' = IF op \in SyncOps
                THEN [thr EXCEPT ![t].status = "SyncOp", ![t].awaits = m.id]
                ELSE thr
      /\ UNCHANGED <<cpuVars, lastuse, next_thread_id, cpusblocked, ctlVars>>
      /\ nextmesid < MaxMes
  BY DEF RemoteCall, m, b
<1>4. UniqueIds' /\ mes' \in [Buses -> SUBSET Messages]
  BY <1>1, <1>2, <1>3, FreshMessage DEF MachineInv
<1>5. waiting' \in [Buses -> Seq(Requests)]
  <2>1. [id |-> m.id, time |-> m.time] \in Requests
    BY <1>1 DEF Requests
  <2>2. InsertByTime(waiting[b], [id |-> m.id, time |-> m.time]) \in Seq(Requests)
    BY <1>2, <2>1, InsertByTimeType DEF MachineInv, TypeOK
  <2>3. QED
    BY <1>2, <1>3, <2>2 DEF MachineInv, TypeOK
<1>6. btime' \in [Buses -> Nat]
  BY <1>1, <1>2, <1>3, StepBUSTimeBackType DEF MachineInv, TypeOK
<1>7. /\ thr' \in [ThreadIds -> ThreadInfos]
      /\ \A u \in ThreadIds : /\ thr'[u].cpu = thr[u].cpu
                              /\ thr'[u].serves = thr[u].serves
                              /\ thr'[u].status = "None" <=> thr[u].status = "None"
  <2>1. CASE op \in SyncOps
    <3>1. t \in ThreadIds /\ thr[t] \in ThreadInfos /\ thr[t].status # "None"
      BY Executing DEF RemoteCall
    <3>2. thr' = [thr EXCEPT ![t] = [thr[t] EXCEPT !.status = "SyncOp", !.awaits = m.id]]
      BY <1>3, <2>1, <3>1 DEF MachineInv, TypeOK, ThreadInfos
    <3>3. [thr[t] EXCEPT !.status = "SyncOp", !.awaits = m.id] \in ThreadInfos
      BY <1>1, <3>1 DEF ThreadInfos
    <3>4. QED
      BY <3>1, <3>2, <3>3 DEF MachineInv, TypeOK, ThreadInfos
  <2>2. CASE op \notin SyncOps
    BY <1>3, <2>2 DEF MachineInv, TypeOK
  <2>3. QED
    BY <2>1, <2>2
<1>8. TypeOK'
  <2>1. nextmesid' \in 0 .. 2 * MaxMes
    <3>1. nextmesid' = nextmesid + 1 /\ nextmesid < MaxMes
      BY <1>3
    <3>2. QED
      BY <3>1, Costs DEF MachineInv, TypeOK
  <2>2. QED
    <3>1. thr' \in [ThreadIds -> ThreadInfos] /\ mes' \in [Buses -> SUBSET Messages]
      BY <1>4, <1>7
    <3>2. UNCHANGED <<cpuVars, lastuse, next_thread_id, cpusblocked, ctlVars>>
      BY <1>3
    <3>3. QED
      BY <1>5, <1>6, <2>1, <3>1, <3>2 DEF MachineInv, TypeOK, cpuVars, ctlVars
<1>9. CurrentThread' /\ LaterThreads'
  BY <1>3, <1>7, Costs DEF MachineInv, CurrentThread, LaterThreads, Alive, cpuVars, ctlVars
<1>10. QED
  BY <1>4, <1>8, <1>9 DEF MachineInv

LEMMA BroadcastInv ==
  ASSUME MachineInv, NEW op \in Ops, Broadcast(op)
  PROVE  MachineInv'
<1> DEFINE m == NewCall("broadcast", op, CPUs \ {curcpu})
           b == IF curcpu = VCPU THEN VBUS ELSE BUS
<1>1. m \in Messages /\ m.id = nextmesid + 1 /\ m.time \in Nat /\ m.time = Clock(curcpu)
  <2>1. CPUs \ {curcpu} \in SUBSET Nodes
    BY DEF Nodes
  <2>2. QED
    BY <2>1, NewCallType, Executing DEF Broadcast
<1>2. b \in Buses
  BY DEF Buses
<1> HIDE DEF m, b
<1>3. /\ nextmesid' = nextmesid + 1
      /\ mes' = IF m.to = {} THEN mes ELSE [mes EXCEPT ![b] = @ \cup {m}]
      /\ btime' = [btime EXCEPT ![b] = StepBUSTimeBack(b, m.time)]
      /\ UNCHANGED <<cpuVars, thrVars, lastuse, waiting, ctlVars>>
      /\ nextmesid < MaxMes
  BY DEF Broadcast, m, b
<1>4. UniqueIds' /\ mes' \in [Buses -> SUBSET Messages]
  <2>1. CASE m.to = {}
    <3>1. mes' = mes /\ nextmesid \in Nat
      BY <1>3, <2>1, Costs DEF MachineInv, TypeOK
    <3>2. \A d \in Buses : \A k \in mes[d] : k.id \in Int /\ k.id <= nextmesid
      BY DEF MachineInv, TypeOK, UniqueIds, Messages, MesIds
    <3>3. \A d \in Buses : \A k \in mes[d] : k.id <= nextmesid'
      BY <1>3, <3>1, <3>2
    <3>4. QED
      BY <3>1, <3>3 DEF MachineInv, UniqueIds, TypeOK
  <2>2. CASE m.to # {}
    BY <1>1, <1>2, <1>3, <2>2, FreshMessage DEF MachineInv
  <2>3. QED
    BY <2>1, <2>2
<1>5. btime' \in [Buses -> Nat]
  BY <1>1, <1>2, <1>3, StepBUSTimeBackType DEF MachineInv, TypeOK
<1>6. TypeOK'
  <2>1. nextmesid' \in 0 .. 2 * MaxMes
    <3>1. nextmesid' = nextmesid + 1 /\ nextmesid < MaxMes
      BY <1>3
    <3>2. QED
      BY <3>1, Costs DEF MachineInv, TypeOK
  <2>2. QED
    BY <1>3, <1>4, <1>5, <2>1 DEF MachineInv, TypeOK, cpuVars, ctlVars, thrVars
<1>7. CurrentThread' /\ LaterThreads'
  BY <1>3 DEF MachineInv, CurrentThread, LaterThreads, Alive, cpuVars, ctlVars, thrVars
<1>8. QED
  BY <1>4, <1>6, <1>7 DEF MachineInv

\* A thread with a fresh id.
LEMMA FreshThread ==
  ASSUME MachineInv, next_thread_id <= MaxThreads, NEW i \in ThreadInfos,
         thr' = [thr EXCEPT ![next_thread_id] = i], next_thread_id' = next_thread_id + 1
  PROVE  /\ next_thread_id \in ThreadIds
         /\ thr' \in [ThreadIds -> ThreadInfos]
         /\ next_thread_id' \in 1 .. MaxThreads + 1
         /\ LaterThreads'
         /\ \A t \in ThreadIds : thr'[t] = IF t = next_thread_id THEN i ELSE thr[t]
<1>1. next_thread_id \in ThreadIds /\ next_thread_id # DebugThread /\ next_thread_id >= 2
  BY Costs DEF MachineInv, TypeOK, LaterThreads, ThreadIds, DebugThread
<1>2. \A t \in ThreadIds : thr'[t] = IF t = next_thread_id THEN i ELSE thr[t]
  BY <1>1 DEF MachineInv, TypeOK
<1>3. thr' \in [ThreadIds -> ThreadInfos] /\ next_thread_id' \in 1 .. MaxThreads + 1
  BY <1>1, Costs DEF MachineInv, TypeOK
<1>4. \A t \in ThreadIds : t >= next_thread_id + 1 => t >= next_thread_id /\ t # next_thread_id
  BY <1>1 DEF ThreadIds
<1>5. LaterThreads'
  <2>1. next_thread_id' >= 2
    BY <1>1 DEF ThreadIds
  <2>2. thr'[DebugThread].serves = NoMessage
    BY <1>1, <1>2, Costs DEF MachineInv, LaterThreads
  <2>3. ASSUME NEW t \in ThreadIds, t >= next_thread_id'
        PROVE  thr'[t].status = "None" /\ thr'[t].serves = NoMessage
    BY <1>2, <1>4, <2>3 DEF MachineInv, LaterThreads
  <2>4. QED
    BY <2>1, <2>2, <2>3 DEF LaterThreads
<1>6. QED
  BY <1>1, <1>2, <1>3, <1>5

LEMMA StartNewThreadInv ==
  ASSUME MachineInv, NEW n \in Nodes, StartNewThread(n)
  PROVE  MachineInv'
<1> DEFINE i == NewThread("Sleeping", n, DefaultPriority, NoMessage)
<1>1. i \in ThreadInfos
  BY DEF NewThread, ThreadInfos, DefaultPriority
<1> HIDE DEF i
<1>2. /\ next_thread_id <= MaxThreads
      /\ next_thread_id' = next_thread_id + 1
      /\ thr' = [thr EXCEPT ![next_thread_id] = i]
      /\ time' = [time EXCEPT ![n] = Clock(n)]
      /\ UNCHANGED <<idle, cur, gate, queue, cpusblocked, busVars, ctlVars>>
  BY DEF StartNewThread, i
<1>3. /\ thr' \in [ThreadIds -> ThreadInfos]
      /\ next_thread_id' \in 1 .. MaxThreads + 1
      /\ LaterThreads'
      /\ \A t \in ThreadIds : thr'[t] = IF t = next_thread_id THEN i ELSE thr[t]
  BY <1>1, <1>2, FreshThread
<1>4. time' \in [Nodes -> Nat]
  BY <1>2, ClockType DEF MachineInv, TypeOK
<1>5. TypeOK'
  BY <1>2, <1>3, <1>4 DEF MachineInv, TypeOK, busVars, ctlVars
<1>6. CurrentThread'
  <2>1. cur[curcpu] # next_thread_id /\ cur[curcpu] \in ThreadIds
    BY Executing, Costs DEF StartNewThread, ThreadIds, MachineInv, TypeOK
  <2>2. QED
    BY <1>2, <1>3, <2>1 DEF CurrentThread, MachineInv, Alive, ctlVars
<1>7. UniqueIds'
  BY <1>2 DEF MachineInv, UniqueIds, busVars
<1>8. QED
  BY <1>3, <1>5, <1>6, <1>7 DEF MachineInv

\* The response to the call m, which the current thread executed.
LEMMA ResponseType ==
  ASSUME MachineInv, Executes, nextmesid < 2 * MaxMes, NEW m \in Messages
  PROVE  /\ Response(m) \in Messages
         /\ Response(m).id = nextmesid + 1
         /\ Response(m).kind = "response"
         /\ Response(m).call = m.call
         /\ Response(m).from = curcpu
         /\ Response(m).to = {m.from}
         /\ Response(m).thread = m.thread
         /\ Response(m).time = Clock(curcpu) + Duration(BUSBetween(curcpu, m.from))
<1>1. nextmesid + 1 \in MesIds
  BY Costs DEF MachineInv, TypeOK, MesIds
<1>2. /\ Clock(curcpu) \in Nat /\ thr[cur[curcpu]].prio \in Nat /\ curcpu \in Nodes
  BY Executing DEF ThreadInfos
<1>3. Clock(curcpu) + Duration(BUSBetween(curcpu, m.from)) \in Nat
  BY <1>2, DurationType
<1>4. {m.from} \in SUBSET Nodes
  BY DEF Messages
<1>5. Response(m) \in Messages
  BY <1>1, <1>2, <1>3, <1>4 DEF Response, Messages
<1>6. QED
  BY <1>5 DEF Response, Messages

LEMMA SuccessInv ==
  ASSUME MachineInv, Success
  PROVE  MachineInv'
<1> DEFINE t == cur[curcpu]
           m == thr[t].serves
           b == BUSBetween(curcpu, m.from)
           r == [id |-> nextmesid + 1, time |-> Clock(curcpu)]
           none == NewThread("None", VCPU, DefaultPriority, NoMessage)
<1>1. /\ curcpu \in Nodes /\ t \in ThreadIds /\ thr[t] \in ThreadInfos /\ time[curcpu] \in Nat
      /\ Clock(curcpu) \in Nat /\ b \in Buses /\ none \in ThreadInfos
  BY Executing, Costs DEF Success, BUSBetween, Buses, NewThread, ThreadInfos, DefaultPriority
<1>2. /\ time' = [time EXCEPT ![curcpu] = SwapOut(curcpu, time[curcpu])]
      /\ thr' = IF t = DebugThread THEN thr ELSE [thr EXCEPT ![t] = none]
      /\ turn' = [at |-> IF t = DebugThread THEN "done" ELSE "sched"]
      /\ UNCHANGED <<idle, cur, gate, queue, next_thread_id, cpusblocked, curcpu, swaptime>>
  BY DEF Success
<1>3. UniqueIds' /\ /\ mes' \in [Buses -> SUBSET Messages] /\ nextmesid' \in 0 .. 2 * MaxMes
                    /\ waiting' \in [Buses -> Seq(Requests)] /\ btime' \in [Buses -> Nat]
                    /\ lastuse' = lastuse
  <2>1. CASE UNCHANGED busVars
    BY <2>1 DEF MachineInv, TypeOK, UniqueIds, busVars
  <2>2. CASE /\ IF m = NoMessage THEN FALSE ELSE m.thread # NoThread
             /\ nextmesid < 2 * MaxMes
             /\ nextmesid' = nextmesid + 1
             /\ waiting' = [waiting EXCEPT ![b] = InsertByTime(@, r)]
             /\ mes' = [mes EXCEPT ![b] = @ \cup {Response(m)}]
             /\ btime' = [btime EXCEPT ![b] = StepBUSTimeBack(b, Clock(curcpu))]
             /\ UNCHANGED lastuse
    <3>1. m \in Messages
      BY <1>1, <2>2 DEF ThreadInfos
    <3>2. Response(m) \in Messages /\ Response(m).id = nextmesid + 1
      BY <2>2, <3>1, ResponseType DEF Success
    <3>3. UniqueIds' /\ mes' \in [Buses -> SUBSET Messages]
      BY <1>1, <2>2, <3>2, FreshMessage DEF MachineInv
    <3>4. nextmesid' \in 0 .. 2 * MaxMes /\ r \in Requests
      BY <1>1, <2>2, Costs DEF MachineInv, TypeOK, MesIds, Requests
    <3>5. InsertByTime(waiting[b], r) \in Seq(Requests)
      BY <1>1, <3>4, InsertByTimeType DEF MachineInv, TypeOK
    <3>6. StepBUSTimeBack(b, Clock(curcpu)) \in Nat
      BY <1>1, StepBUSTimeBackType DEF MachineInv
    <3>7. waiting' \in [Buses -> Seq(Requests)] /\ btime' \in [Buses -> Nat]
      BY <2>2, <3>5, <3>6 DEF MachineInv, TypeOK
    <3>8. QED
      BY <2>2, <3>3, <3>4, <3>7
  <2>3. QED
    BY <2>1, <2>2 DEF Success
<1>4. /\ thr' \in [ThreadIds -> ThreadInfos]
      /\ \A u \in ThreadIds : thr'[u] = IF u = t /\ t # DebugThread THEN none ELSE thr[u]
  BY <1>1, <1>2 DEF MachineInv, TypeOK
<1>5. TypeOK'
  <2>1. time' \in [Nodes -> Nat]
    BY <1>1, <1>2, SwapOutType DEF MachineInv, TypeOK
  <2>2. turn' \in Turns
    BY <1>2 DEF Turns
  <2>3. thr' \in [ThreadIds -> ThreadInfos]
    BY <1>4
  <2>4. QED
    BY <1>2, <1>3, <2>1, <2>2, <2>3 DEF MachineInv, TypeOK
<1>6. CurrentThread'
  BY <1>2 DEF CurrentThread
<1>7. LaterThreads'
  <2>1. next_thread_id' = next_thread_id
    BY <1>2
  <2>2. none.status = "None" /\ none.serves = NoMessage
    BY DEF NewThread
  <2>3. QED
    BY <1>4, <2>1, <2>2, Costs DEF MachineInv, LaterThreads
<1>8. QED
  BY <1>3, <1>5, <1>6, <1>7 DEF MachineInv

-----------------------------------------------------------------------------
(* The steps of the scheduler.                                               *)

LEMMA EndSliceInv ==
  ASSUME MachineInv, EndSlice
  PROVE  MachineInv'
<1>1. turn' = [at |-> "sched"] /\ UNCHANGED <<cpuVars, thrVars, busVars, curcpu, swaptime>>
  BY DEF EndSlice
<1>2. turn' \in Turns /\ turn'.at # "run"
  BY <1>1 DEF Turns
<1>3. QED
  BY <1>1, <1>2 DEF MachineInv, TypeOK, CurrentThread, LaterThreads, UniqueIds, cpuVars, thrVars, busVars

LEMMA CPUIdlesInv ==
  ASSUME MachineInv, NEW c \in Nodes, CPUIdles(c)
  PROVE  MachineInv'
<1>1. Clock(c) + StepSize \in Nat
  BY ClockType, Costs DEF MachineInv
<1>2. idle' \in [Nodes -> Nat]
  BY <1>1 DEF CPUIdles, MachineInv, TypeOK
<1>3. QED
  BY <1>2 DEF CPUIdles, MachineInv, TypeOK, CurrentThread, LaterThreads, UniqueIds, Alive, thrVars,
              busVars, ctlVars

\* In a finite set there is an element for which a measure is greatest: a smallest
\* set without one would lose its last element.
LEMMA GreatestMeasure ==
  ASSUME NEW S, IsFiniteSet(S), S # {}, NEW f \in [S -> Nat]
  PROVE  \E x \in S : \A y \in S : f[y] <= f[x]
<1> DEFINE Greatest(X, x) == \A y \in X : f[y] <= f[x]
           Bad == {X \in SUBSET S : X # {} /\ \A x \in X : ~Greatest(X, x)}
<1>1. SUFFICES ASSUME Bad # {} PROVE FALSE
  OBVIOUS
<1>2. \A X \in SUBSET S : IsFiniteSet(X) /\ Cardinality(X) \in Nat
  BY FS_Subset, FS_CardinalityType
<1>3. PICK X \in Bad : \A Y \in Bad : Cardinality(X) <= Cardinality(Y)
  <2>1. [X \in Bad |-> Cardinality(X)] \in [Bad -> Nat]
    BY <1>2
  <2>2. PICK X \in Bad : \A Y \in Bad : [Z \in Bad |-> Cardinality(Z)][X] <= [Z \in Bad |-> Cardinality(Z)][Y]
    BY <1>1, <2>1, LeastMeasure
  <2>3. QED
    BY <2>2
<1>4. PICK x \in X : TRUE
  OBVIOUS
<1>5. Cardinality(X \ {x}) < Cardinality(X)
  <2>1. X \in SUBSET S /\ X \ {x} \in SUBSET S
    OBVIOUS
  <2>2. Cardinality(X \ {x}) = Cardinality(X) - 1
    BY <1>2, <1>4, <2>1, FS_RemoveElement
  <2>3. QED
    BY <1>2, <2>1, <2>2
<1>6. X \ {x} \notin Bad
  <2>1. Cardinality(X) \in Nat /\ Cardinality(X \ {x}) \in Nat
    <3>1. X \in SUBSET S /\ X \ {x} \in SUBSET S
      OBVIOUS
    <3>2. QED
      BY <1>2, <3>1
  <2>2. ~ (Cardinality(X) <= Cardinality(X \ {x}))
    BY <1>5, <2>1
  <2>3. QED
    BY <1>3, <2>2
<1>7. CASE X \ {x} = {}
  <2>1. Greatest(X, x)
    BY <1>4, <1>7
  <2>2. QED
    BY <1>4, <2>1
<1>8. CASE X \ {x} # {}
  <2>1. PICK y \in X \ {x} : Greatest(X \ {x}, y)
    BY <1>6, <1>8
  <2>2. f[x] \in Nat /\ f[y] \in Nat /\ \A z \in X : f[z] \in Nat
    OBVIOUS
  <2>3. Greatest(X, x) \/ Greatest(X, y)
    BY <2>1, <2>2
  <2>4. QED
    BY <1>4, <2>1, <2>3
<1>9. QED
  BY <1>7, <1>8

LEMMA FirstOpType ==
  ASSUME NEW c \in Nodes, OpsWithMessages(c) # {}
  PROVE  FirstOp(c) \in Ops /\ queue[c][FirstOp(c)] # <<>>
<1> DEFINE ops == OpsWithMessages(c)
           best == {op \in ops : \A o \in ops : OpPrio[o] <= OpPrio[op]}
<1>1. ops \in SUBSET Ops /\ \A op \in ops : queue[c][op] # <<>>
  BY DEF OpsWithMessages
<1> HIDE DEF ops
<1>2. IsFiniteSet(Ops) /\ OpPrio \in [Ops -> Nat] /\ \A op \in Ops : Rank[op] \in Nat
  BY ViceAssumption
<1>3. best # {}
  <2>1. IsFiniteSet(ops) /\ ops # {}
    BY <1>1, <1>2, FS_Subset DEF ops
  <2>2. [op \in ops |-> OpPrio[op]] \in [ops -> Nat]
    BY <1>1, <1>2
  <2>3. PICK x \in ops : \A y \in ops : [op \in ops |-> OpPrio[op]][y] <= [op \in ops |-> OpPrio[op]][x]
    BY <2>1, <2>2, GreatestMeasure
  <2>4. QED
    BY <2>3
<1>4. PICK x \in best : \A y \in best : Rank[x] <= Rank[y]
  <2>1. [op \in best |-> Rank[op]] \in [best -> Nat]
    BY <1>1, <1>2
  <2>2. PICK x \in best : \A y \in best : [op \in best |-> Rank[op]][x] <= [op \in best |-> Rank[op]][y]
    BY <1>3, <2>1, LeastMeasure
  <2>3. QED
    BY <2>2
<1>5. FirstOp(c) \in best
  BY <1>4 DEF FirstOp, ops
<1>6. QED
  BY <1>1, <1>5

LEMMA RunMessageInv ==
  ASSUME MachineInv, NEW c \in Nodes, RunMessage(c)
  PROVE  MachineInv'
<1> DEFINE op == FirstOp(c)
           m == Head(queue[c][op])
           i == NewThread("Running", c, OpPrio[op], m)
<1>1. op \in Ops /\ queue[c][op] # <<>> /\ queue[c][op] \in Seq(Messages)
  <2>1. op \in Ops /\ queue[c][op] # <<>>
    BY FirstOpType DEF RunMessage, AnyMessages
  <2> HIDE DEF op
  <2>2. QED
    BY <2>1 DEF MachineInv, TypeOK
<1> HIDE DEF op
<1>2. m \in Messages /\ Tail(queue[c][op]) \in Seq(Messages)
  BY <1>1, HeadTailProperties
<1>3. i \in ThreadInfos /\ i.status = "Running" /\ i.cpu = c
  BY <1>1, <1>2, ViceAssumption DEF NewThread, ThreadInfos
<1> HIDE DEF m, i
<1>4. /\ next_thread_id <= MaxThreads
      /\ next_thread_id' = next_thread_id + 1
      /\ queue' = [queue EXCEPT ![c][op] = Tail(@)]
      /\ thr' = [thr EXCEPT ![next_thread_id] = i]
      /\ time' = [time EXCEPT ![c] = MaxVal(SwapOut(c, @), idle[c])]
      /\ cur' = [cur EXCEPT ![c] = next_thread_id]
      /\ curcpu' = c
      /\ swaptime' = CPUSwap(c)
      /\ turn' = [at |-> "run"]
      /\ UNCHANGED <<idle, gate, cpusblocked, busVars>>
  BY DEF RunMessage, op, m, i
<1>5. /\ next_thread_id \in ThreadIds
      /\ thr' \in [ThreadIds -> ThreadInfos]
      /\ next_thread_id' \in 1 .. MaxThreads + 1
      /\ LaterThreads'
      /\ \A t \in ThreadIds : thr'[t] = IF t = next_thread_id THEN i ELSE thr[t]
  BY <1>3, <1>4, FreshThread
<1>6. TypeOK'
  <2>1. time' \in [Nodes -> Nat]
    BY <1>4, ClockType, SwapOutType DEF MachineInv, TypeOK, MaxVal
  <2>2. queue' \in [Nodes -> [Ops -> Seq(Messages)]]
    BY <1>1, <1>2, <1>4 DEF MachineInv, TypeOK
  <2>3. cur' \in [Nodes -> ThreadIds \cup {NoThread}]
    BY <1>4, <1>5 DEF MachineInv, TypeOK
  <2>4. swaptime' \in Nat /\ turn' \in Turns
    BY <1>4, SwapsType DEF MachineInv, Turns
  <2>5. thr' \in [ThreadIds -> ThreadInfos] /\ next_thread_id' \in 1 .. MaxThreads + 1
    BY <1>5
  <2>6. curcpu' = c /\ UNCHANGED <<idle, gate, cpusblocked, busVars>>
    BY <1>4
  <2>7. QED
    BY <2>1, <2>2, <2>3, <2>4, <2>5, <2>6 DEF MachineInv, TypeOK, busVars
<1>7. CurrentThread'
  <2>1. cur'[curcpu'] = next_thread_id /\ curcpu' = c
    BY <1>4 DEF MachineInv, TypeOK
  <2>2. QED
    BY <1>3, <1>5, <2>1 DEF CurrentThread, Alive
<1>8. UniqueIds'
  BY <1>4 DEF MachineInv, UniqueIds, busVars
<1>9. QED
  BY <1>5, <1>6, <1>7, <1>8 DEF MachineInv

LEMMA RunThreadInv ==
  ASSUME MachineInv, NEW c \in Nodes, RunThread(c)
  PROVE  MachineInv'
<1>1. /\ curcpu' = c /\ swaptime' = CPUSwap(c)
      /\ SelAndRunThread(thr, c, time[c], cpusblocked \ {c})
      /\ UNCHANGED <<gate, queue, next_thread_id, busVars>>
  BY DEF RunThread
<1>2. thr \in InfosType /\ time[c] \in Nat /\ swaptime' \in Nat /\ cpusblocked \ {c} \in SUBSET Nodes
  BY <1>1, SwapsType DEF MachineInv, TypeOK, InfosType
<1>3. /\ Selects(thr, c, cpusblocked \ {c})
      /\ \E u \in Nat : u >= time[c] /\ time' = [time EXCEPT ![c] = u]
  BY <1>1, <1>2, SelAndRunThreadSelects DEF MachineInv
<1>4. time' \in [Nodes -> Nat]
  BY <1>3 DEF MachineInv, TypeOK
<1>5. Selects(thr, curcpu', cpusblocked \ {c}) /\ curcpu' \in Nodes
  BY <1>1, <1>3
<1>6. QED
  BY <1>1, <1>2, <1>4, <1>5, SelectsInv

LEMMA CPUWaitsInv ==
  ASSUME MachineInv, NEW c \in Nodes, CPUWaits(c)
  PROVE  MachineInv'
<1>1. turn' \in Turns /\ turn'.at # "run"
  BY DEF CPUWaits, Turns
<1>2. idle' \in [Nodes -> Nat]
  BY ClockType, Costs DEF CPUWaits, MachineInv, TypeOK
<1>3. swaptime' \in Nat
  BY SwapsType DEF CPUWaits, MachineInv
<1>4. /\ curcpu' = c /\ cpusblocked' = cpusblocked \cup {c}
      /\ UNCHANGED <<time, cur, gate, queue, thr, next_thread_id, busVars>>
  BY DEF CPUWaits
<1>5. QED
  BY <1>1, <1>2, <1>3, <1>4
     DEF MachineInv, TypeOK, CurrentThread, LaterThreads, UniqueIds, busVars

LEMMA BUSTurnInv ==
  ASSUME MachineInv, NEW b \in Buses, BUSTurn(b)
  PROVE  MachineInv'
<1> DEFINE s == SwapTime(btime, b, Smallest(CPUClock))
<1>1. /\ turn.at = "sched"
      /\ UNCHANGED <<cpuVars, thrVars, lastuse, waiting, mes, nextmesid, curcpu, swaptime>>
      /\ \/ btime' = [btime EXCEPT ![b] = @ + StepSize] /\ turn' = turn
         \/ btime' = btime /\ turn' = [at |-> "bus", bus |-> b, newt |-> btime[b], swapt |-> s]
  BY DEF BUSTurn
<1>2. s \in Nat /\ btime[b] \in Nat
  <2>1. s \in Nat
    BY SwapsType DEF MachineInv
  <2>2. QED
    BY <2>1 DEF MachineInv, TypeOK
<1> HIDE DEF s
<1>3. btime' \in [Buses -> Nat]
  <2>1. btime' = [btime EXCEPT ![b] = @ + StepSize] \/ btime' = btime
    BY <1>1
  <2>2. btime[b] + StepSize \in Nat
    BY <1>2, Costs
  <2>3. QED
    BY <2>1, <2>2 DEF MachineInv, TypeOK
<1>4. turn' \in Turns /\ turn'.at # "run"
  <2>1. CASE turn' = turn
    BY <1>1, <2>1 DEF MachineInv, TypeOK
  <2>2. CASE turn' = [at |-> "bus", bus |-> b, newt |-> btime[b], swapt |-> s]
    BY <1>2, <2>2 DEF Turns
  <2>3. QED
    BY <1>1, <2>1, <2>2
<1>5. UNCHANGED <<cpuVars, thrVars, lastuse, waiting, mes, nextmesid, curcpu, swaptime>>
  BY <1>1
<1>6. QED
  BY <1>3, <1>4, <1>5
     DEF MachineInv, TypeOK, CurrentThread, LaterThreads, UniqueIds, cpuVars, thrVars

\* What is known of the message that is transmitted, and when.
LEMMA Transmitting ==
  ASSUME MachineInv, Transmit
  PROVE  LET b == turn.bus
             m == FindFirstMessage(mes[b])
             n == Cardinality(Requested(b, m))
         IN  /\ b \in Buses /\ turn.newt \in Nat /\ turn.swapt \in Nat
             /\ turn = [at |-> "bus", bus |-> b, newt |-> turn.newt, swapt |-> turn.swapt]
             /\ m \in mes[b] /\ m \in Messages
             /\ waiting[b] \in Seq(Requests) /\ n \in 0 .. Len(waiting[b])
             /\ TimeOfRequests(b, m) \in Nat
             /\ TimeOfRequests(b, m) >= IF n = 0 THEN turn.newt ELSE lastuse[b]
<1> DEFINE b == turn.bus
           m == FindFirstMessage(mes[b])
           n == Cardinality(Requested(b, m))
<1>1. /\ b \in Buses /\ turn.newt \in Nat /\ turn.swapt \in Nat
      /\ turn = [at |-> "bus", bus |-> b, newt |-> turn.newt, swapt |-> turn.swapt]
  BY DEF Transmit, MachineInv, TypeOK, Turns
<1> HIDE DEF b
<1>2. m \in mes[b] /\ m \in Messages
  <2>1. mes[b] \in SUBSET Messages /\ mes[b] # {}
    BY <1>1 DEF Transmit, MachineInv, TypeOK, b
  <2>2. \A k, l \in mes[b] : k.id = l.id => k = l
    BY <1>1 DEF MachineInv, UniqueIds
  <2>3. m \in mes[b]
    BY <2>1, <2>2, FirstMessage
  <2>4. QED
    BY <2>1, <2>3
<1> HIDE DEF m
<1>3. waiting[b] \in Seq(Requests) /\ lastuse[b] \in Nat \cup {-1}
  BY <1>1 DEF MachineInv, TypeOK
<1>4. DOMAIN waiting[b] = 1 .. Len(waiting[b]) /\ Len(waiting[b]) \in Nat
  BY <1>3, LenProperties
<1>5. n \in 0 .. Len(waiting[b])
  <2>1. Requested(b, m) \in SUBSET (1 .. Len(waiting[b]))
    BY <1>4 DEF Requested
  <2>2. QED
    BY <1>4, <2>1, CountType
<1> HIDE DEF n
<1>6. ASSUME n # 0 PROVE waiting[b][n].time \in Nat
  <2>1. waiting[b][n] \in Requests
    BY <1>3, <1>4, <1>5, <1>6, ElementOfSeq
  <2>2. QED
    BY <2>1 DEF Requests
<1>7. /\ TimeOfRequests(b, m) \in Nat
      /\ TimeOfRequests(b, m) >= IF n = 0 THEN turn.newt ELSE lastuse[b]
  <2>1. TimeOfRequests(b, m) = IF n = 0 THEN turn.newt ELSE MaxVal(waiting[b][n].time, lastuse[b])
    BY DEF TimeOfRequests, n
  <2>2. QED
    BY <1>1, <1>3, <1>6, <2>1 DEF MaxVal
<1>8. QED
  BY <1>1, <1>2, <1>3, <1>5, <1>7 DEF b, m, n

\* Removing a message from a bus.
LEMMA MessageRemoved ==
  ASSUME TypeOK, UniqueIds, NEW b \in Buses, NEW m,
         nextmesid' = nextmesid, mes' = [mes EXCEPT ![b] = @ \ {m}]
  PROVE  UniqueIds' /\ mes' \in [Buses -> SUBSET Messages]
<1>1. \A d \in Buses : mes'[d] \in SUBSET mes[d]
  BY DEF TypeOK
<1>2. UniqueIds'
  BY <1>1 DEF UniqueIds
<1>3. QED
  BY <1>2 DEF TypeOK

-----------------------------------------------------------------------------
(* Where messages are: on the buses, in the queues of the nodes and with the *)
(* threads that execute them.                                                *)

Served == {thr[t].serves : t \in Serving}

AllMessages == OnBuses \cup (UNION {Queued(n) : n \in Nodes}) \cup Served

\* The thread that awaits the response to a message has been started.
KnownThreads == \A m \in AllMessages : m.thread < next_thread_id

LEMMA MessageTypes ==
  ASSUME TypeOK
  PROVE  /\ OnBuses \subseteq Messages
         /\ \A n \in Nodes : Queued(n) \subseteq Messages
         /\ Served \subseteq Messages
         /\ AllMessages \subseteq Messages
<1>1. OnBuses \subseteq Messages
  BY DEF OnBuses, TypeOK
<1>2. ASSUME NEW n \in Nodes, NEW m \in Queued(n) PROVE m \in Messages
  <2>1. PICK op \in Ops : m \in {queue[n][op][k] : k \in DOMAIN queue[n][op]}
    BY DEF Queued
  <2>2. queue[n][op] \in Seq(Messages)
    BY DEF TypeOK
  <2>3. QED
    BY <2>1, <2>2, LenProperties, ElementOfSeq
<1>3. Served \subseteq Messages
  BY DEF Served, Serving, TypeOK, ThreadInfos
<1>4. ASSUME NEW m \in AllMessages PROVE m \in Messages
  <2>1. m \in OnBuses \/ m \in Served \/ \E n \in Nodes : m \in Queued(n)
    BY DEF AllMessages
  <2>2. QED
    BY <1>1, <1>2, <1>3, <2>1
<1>5. QED
  BY <1>1, <1>2, <1>3, <1>4

LEMMA PutOnBus ==
  ASSUME TypeOK, NEW b \in Buses, NEW m, mes' = [mes EXCEPT ![b] = @ \cup {m}]
  PROVE  OnBuses' = OnBuses \cup {m}
<1>1. \A d \in Buses : mes'[d] = IF d = b THEN mes[d] \cup {m} ELSE mes[d]
  BY DEF TypeOK
<1>2. ASSUME NEW x PROVE x \in OnBuses' <=> x \in OnBuses \cup {m}
  BY <1>1 DEF OnBuses
<1>3. QED
  BY <1>2

LEMMA TakenFromBus ==
  ASSUME TypeOK, UniqueIds, NEW b \in Buses, NEW m \in mes[b], mes' = [mes EXCEPT ![b] = @ \ {m}]
  PROVE  OnBuses' = OnBuses \ {m}
<1>1. \A d \in Buses : mes'[d] = IF d = b THEN mes[d] \ {m} ELSE mes[d]
  BY DEF TypeOK
<1>2. \A d \in Buses : m \in mes[d] => d = b
  BY DEF UniqueIds
<1>3. ASSUME NEW x PROVE x \in OnBuses' <=> x \in OnBuses \ {m}
  BY <1>1, <1>2 DEF OnBuses
<1>4. QED
  BY <1>3

LEMMA PutInQueue ==
  ASSUME TypeOK, NEW n \in Nodes, NEW op \in Ops, NEW m \in Messages,
         NEW q, q = [queue[n] EXCEPT ![op] = InsertByTime(@, m)], queue'[n] = q
  PROVE  q \in [Ops -> Seq(Messages)] /\ Queued(n)' = Queued(n) \cup {m}
<1>1. queue[n] \in [Ops -> Seq(Messages)] /\ queue[n][op] \in Seq(Messages)
  BY DEF TypeOK
<1>2. InsertByTime(queue[n][op], m) \in Seq(Messages)
  BY <1>1, InsertByTimeType
<1>3. \A o \in Ops : q[o] = IF o = op THEN InsertByTime(queue[n][op], m) ELSE queue[n][o]
  BY <1>1
<1>4. q \in [Ops -> Seq(Messages)]
  BY <1>1, <1>2
<1>5. Elements(InsertByTime(queue[n][op], m)) = Elements(queue[n][op]) \cup {m}
  BY <1>1, InsertByTimeElements
<1>6. \A x : /\ x \in Queued(n) <=> \E o \in Ops : x \in Elements(queue[n][o])
             /\ x \in Queued(n)' <=> \E o \in Ops : x \in Elements(q[o])
  BY DEF Queued, Elements
<1>7. \A o \in Ops : Elements(q[o]) = IF o = op THEN Elements(queue[n][o]) \cup {m} ELSE Elements(queue[n][o])
  BY <1>3, <1>5
<1>8. ASSUME NEW x PROVE x \in Queued(n)' <=> x \in Queued(n) \cup {m}
  BY <1>6, <1>7
<1>9. QED
  BY <1>4, <1>8

LEMMA TakenFromQueue ==
  ASSUME TypeOK, NEW n \in Nodes, NEW op \in Ops, queue[n][op] # <<>>,
         queue' = [queue EXCEPT ![n][op] = Tail(@)]
  PROVE  /\ Head(queue[n][op]) \in Queued(n)
         /\ Queued(n) = Queued(n)' \cup {Head(queue[n][op])}
         /\ \A c \in Nodes : c # n => Queued(c)' = Queued(c)
<1> DEFINE s == queue[n][op]
           l == Len(s)
<1>1. queue[n] \in [Ops -> Seq(Messages)] /\ s \in Seq(Messages)
  BY DEF TypeOK
<1>2. /\ Tail(s) \in Seq(Messages) /\ Len(Tail(s)) = l - 1 /\ \A i \in 1 .. l - 1 : Tail(s)[i] = s[i + 1]
      /\ l \in Nat /\ l # 0 /\ Head(s) = s[1] /\ DOMAIN s = 1 .. l /\ DOMAIN Tail(s) = 1 .. l - 1
  <2>1. l \in Nat /\ l # 0 /\ DOMAIN s = 1 .. l
    BY <1>1, LenProperties, EmptySeq
  <2>2. Tail(s) \in Seq(Messages) /\ Len(Tail(s)) = l - 1 /\ \A i \in 1 .. Len(Tail(s)) : Tail(s)[i] = s[i + 1]
    BY <1>1, HeadTailProperties
  <2>3. DOMAIN Tail(s) = 1 .. l - 1
    BY <2>2, LenProperties
  <2>4. QED
    BY <2>1, <2>2, <2>3
<1> HIDE DEF s, l
<1>3. Elements(s) = Elements(Tail(s)) \cup {Head(s)}
  <2>1. ASSUME NEW i \in 1 .. l PROVE s[i] \in Elements(Tail(s)) \cup {Head(s)}
    <3>1. CASE i = 1
      BY <1>2, <3>1 DEF Elements
    <3>2. CASE i # 1
      <4>1. i - 1 \in 1 .. l - 1 /\ Tail(s)[i - 1] = s[i]
        BY <1>2, <3>2
      <4>2. QED
        BY <1>2, <4>1 DEF Elements
    <3>3. QED
      BY <3>1, <3>2
  <2>2. ASSUME NEW i \in 1 .. l - 1 PROVE Tail(s)[i] \in Elements(s)
    <3>1. i + 1 \in 1 .. l /\ Tail(s)[i] = s[i + 1]
      BY <1>2
    <3>2. QED
      BY <1>2, <3>1 DEF Elements
  <2>3. Head(s) \in Elements(s)
    BY <1>2 DEF Elements
  <2>4. QED
    BY <1>2, <2>1, <2>2, <2>3 DEF Elements
<1>4. queue' = [queue EXCEPT ![n] = [queue[n] EXCEPT ![op] = Tail(s)]]
  BY DEF s
<1>5. \A c \in Nodes, o \in Ops : queue'[c][o] = IF c = n /\ o = op THEN Tail(s) ELSE queue[c][o]
  <2>1. /\ \A c \in Nodes : queue[c] \in [Ops -> Seq(Messages)]
        /\ \A c \in Nodes : queue'[c] = IF c = n THEN [queue[n] EXCEPT ![op] = Tail(s)] ELSE queue[c]
    BY <1>4 DEF TypeOK
  <2>2. ASSUME NEW c \in Nodes, NEW o \in Ops
        PROVE  queue'[c][o] = IF c = n /\ o = op THEN Tail(s) ELSE queue[c][o]
    <3>1. queue[n] \in [Ops -> Seq(Messages)] /\ queue'[n] = [queue[n] EXCEPT ![op] = Tail(s)]
      BY <2>1
    <3>2. [queue[n] EXCEPT ![op] = Tail(s)][o] = IF o = op THEN Tail(s) ELSE queue[n][o]
      BY <3>1
    <3>3. c # n => queue'[c] = queue[c]
      BY <2>1
    <3>4. CASE c = n
      <4>1. queue'[c][o] = [queue[n] EXCEPT ![op] = Tail(s)][o]
        BY <3>1, <3>4
      <4>2. QED
        BY <3>2, <3>4, <4>1
    <3>5. CASE c # n
      BY <3>3, <3>5
    <3>6. QED
      BY <3>4, <3>5
  <2>3. QED
    BY <2>2
<1>6. \A c \in Nodes : \A x : /\ x \in Queued(c) <=> \E o \in Ops : x \in Elements(queue[c][o])
                              /\ x \in Queued(c)' <=> \E o \in Ops : x \in Elements(queue'[c][o])
  BY DEF Queued, Elements
<1>7. \A o \in Ops : Elements(queue[n][o]) = IF o = op THEN Elements(queue'[n][o]) \cup {Head(s)}
                                             ELSE Elements(queue'[n][o])
  BY <1>3, <1>5 DEF s
<1>8. \A c \in Nodes : c # n => \A o \in Ops : Elements(queue'[c][o]) = Elements(queue[c][o])
  BY <1>5
<1>9. ASSUME NEW x PROVE x \in Queued(n) <=> x \in Queued(n)' \cup {Head(s)}
  BY <1>6, <1>7
<1>10. ASSUME NEW c \in Nodes, c # n PROVE Queued(c)' = Queued(c)
  <2>1. ASSUME NEW x PROVE x \in Queued(c) <=> x \in Queued(c)'
    BY <1>6, <1>8, <1>10
  <2>2. QED
    BY <2>1
<1>11. QED
  BY <1>9, <1>10 DEF s

\* Threads that execute the same messages on the same CPUs.
LEMMA SameServed ==
  ASSUME TypeOK, \A t \in ThreadIds : thr'[t].serves = thr[t].serves
  PROVE  Served' = Served /\ Serving' = Serving
BY DEF Served, Serving

LEMMA GiveBackType ==
  ASSUME TypeOK, NEW n \in Nodes, NEW t \in Nat
  PROVE  /\ GiveBack(n, t) \in Nat
         /\ time[n] < idle[n] => GiveBack(n, t) >= time[n]
BY ClockType DEF GiveBack, MaxVal

\* The CPUs that a message is delivered to are stepped back, within their idle time.
StepsBack(n, t) ==
  /\ time' = [time EXCEPT ![n] = IF @ < idle[n] THEN GiveBack(n, t) ELSE @]
  /\ idle' = [idle EXCEPT ![n] = GiveBack(n, t)]

LEMMA StepsBackType ==
  ASSUME TypeOK, NEW n \in Nodes, NEW t \in Nat, StepsBack(n, t)
  PROVE  /\ time' \in [Nodes -> Nat] /\ idle' \in [Nodes -> Nat]
         /\ \A c \in Nodes : time'[c] >= time[c]
<1>1. (IF time[n] < idle[n] THEN GiveBack(n, t) ELSE time[n]) \in Nat
  BY GiveBackType, ClockType
<1>2. (IF time[n] < idle[n] THEN GiveBack(n, t) ELSE time[n]) >= time[n]
  BY GiveBackType, ClockType
<1>3. time' \in [Nodes -> Nat] /\ idle' \in [Nodes -> Nat]
  BY <1>1, GiveBackType DEF StepsBack, TypeOK
<1>4. ASSUME NEW c \in Nodes PROVE time'[c] >= time[c]
  <2>1. time'[c] = IF c = n THEN (IF time[n] < idle[n] THEN GiveBack(n, t) ELSE time[n]) ELSE time[c]
    BY DEF StepsBack, TypeOK
  <2>2. QED
    BY <1>2, <2>1, ClockType
<1>5. QED
  BY <1>3, <1>4

\* What the delivery of a response, a call and a broadcast changes.
Resumed(m) == [thr EXCEPT ![m.thread].status = "Running", ![m.thread].awaits = 0]

DeliversResponse(m, t) ==
  /\ m.kind = "response"
  /\ thr' = Resumed(m)
  /\ \E n \in m.to : StepsBack(n, t)
  /\ queue' = queue

DeliversCall(m, t) ==
  /\ m.kind = "call"
  /\ \E n \in m.to :
       /\ queue' = [queue EXCEPT ![n][m.op] = InsertByTime(@, m)]
       /\ StepsBack(n, t)
  /\ thr' = thr

DeliversBroadcast(m) ==
  /\ m.kind = "broadcast"
  /\ queue' = [n \in Nodes |->
                 IF n \in m.to THEN [queue[n] EXCEPT ![m.op] = InsertByTime(@, m)] ELSE queue[n]]
  /\ UNCHANGED <<thr, time, idle>>

LEMMA DeliverCases ==
  ASSUME NEW m \in Messages, NEW t, Deliver(m, t)
  PROVE  DeliversResponse(m, t) \/ DeliversCall(m, t) \/ DeliversBroadcast(m)
<1>1. m.kind \in {"call", "broadcast", "response"}
  BY DEF Messages
<1>2. CASE m.kind = "response"
  BY <1>2 DEF Deliver, DeliversResponse, StepsBack, Resumed
<1>3. CASE m.kind = "call"
  BY <1>3 DEF Deliver, DeliversCall, StepsBack
<1>4. CASE m.kind = "broadcast"
  BY <1>4 DEF Deliver, DeliversBroadcast
<1>5. QED
  BY <1>1, <1>2, <1>3, <1>4

LEMMA ResumedThreads ==
  ASSUME TypeOK, NEW m \in Messages
  PROVE  /\ Resumed(m) \in [ThreadIds -> ThreadInfos]
         /\ \A t \in ThreadIds :
              Resumed(m)[t] = IF t = m.thread THEN [thr[t] EXCEPT !.status = "Running", !.awaits = 0]
                              ELSE thr[t]
<1>1. \A t \in ThreadIds : thr[t] \in ThreadInfos
  BY DEF TypeOK
<1>2. \A t \in ThreadIds : [thr[t] EXCEPT !.status = "Running", !.awaits = 0] \in ThreadInfos
  BY <1>1 DEF ThreadInfos
<1>3. DOMAIN thr = ThreadIds /\ thr = [t \in ThreadIds |-> thr[t]]
  BY DEF TypeOK
<1>4. \A t \in ThreadIds :
        Resumed(m)[t] = IF t = m.thread THEN [thr[t] EXCEPT !.status = "Running", !.awaits = 0] ELSE thr[t]
  BY <1>1, <1>3 DEF Resumed, ThreadInfos
<1>5. Resumed(m) = [t \in ThreadIds |->
                      IF t = m.thread THEN [thr[t] EXCEPT !.status = "Running", !.awaits = 0] ELSE thr[t]]
  BY <1>1, <1>3, <1>4 DEF Resumed, ThreadInfos
<1>6. QED
  BY <1>1, <1>2, <1>4, <1>5

\* The queues after a message was put in those of the nodes it is for.
LEMMA DeliveredQueues ==
  ASSUME TypeOK, NEW m \in Messages, NEW t,
         DeliversCall(m, t) \/ DeliversBroadcast(m)
  PROVE  /\ queue' \in [Nodes -> [Ops -> Seq(Messages)]]
         /\ \E S \in SUBSET m.to :
              /\ m.kind = "broadcast" => S = m.to
              /\ m.kind = "call" => S # {}
              /\ \A n \in Nodes : queue'[n] = IF n \in S THEN [queue[n] EXCEPT ![m.op] = InsertByTime(@, m)]
                                                       ELSE queue[n]
              /\ \A n \in Nodes : Queued(n)' = IF n \in S THEN Queued(n) \cup {m} ELSE Queued(n)
<1>1. m.op \in Ops /\ m.to \in SUBSET Nodes
  BY DEF Messages
<1>2. PICK S \in SUBSET m.to :
        /\ m.kind = "broadcast" => S = m.to
        /\ m.kind = "call" => S # {}
        /\ queue' = [n \in Nodes |-> IF n \in S THEN [queue[n] EXCEPT ![m.op] = InsertByTime(@, m)]
                                     ELSE queue[n]]
  <2>1. CASE DeliversCall(m, t)
    <3>1. PICK n \in m.to : queue' = [queue EXCEPT ![n][m.op] = InsertByTime(@, m)]
      BY <2>1 DEF DeliversCall
    <3>2. queue' = [c \in Nodes |-> IF c \in {n} THEN [queue[c] EXCEPT ![m.op] = InsertByTime(@, m)]
                                    ELSE queue[c]]
      BY <1>1, <3>1 DEF TypeOK
    <3>3. {n} \in SUBSET m.to /\ m.kind = "call"
      BY <2>1 DEF DeliversCall
    <3>4. QED
      BY <3>2, <3>3
  <2>2. CASE DeliversBroadcast(m)
    BY <2>2 DEF DeliversBroadcast
  <2>3. QED
    BY <2>1, <2>2
<1>3. ASSUME NEW n \in Nodes
      PROVE  /\ queue'[n] = IF n \in S THEN [queue[n] EXCEPT ![m.op] = InsertByTime(@, m)] ELSE queue[n]
             /\ queue'[n] \in [Ops -> Seq(Messages)]
             /\ Queued(n)' = IF n \in S THEN Queued(n) \cup {m} ELSE Queued(n)
  <2>1. queue'[n] = IF n \in S THEN [queue[n] EXCEPT ![m.op] = InsertByTime(@, m)] ELSE queue[n]
    BY <1>2
  <2>2. CASE n \in S
    <3>1. queue'[n] = [queue[n] EXCEPT ![m.op] = InsertByTime(@, m)]
      BY <2>1, <2>2
    <3>2. queue'[n] \in [Ops -> Seq(Messages)] /\ Queued(n)' = Queued(n) \cup {m}
      BY <1>1, <3>1, PutInQueue
    <3>3. QED
      BY <2>1, <2>2, <3>2
  <2>3. CASE n \notin S
    <3>1. queue'[n] = queue[n]
      BY <2>1, <2>3
    <3>2. queue'[n] \in [Ops -> Seq(Messages)] /\ Queued(n)' = Queued(n)
      BY <3>1 DEF TypeOK, Queued
    <3>3. QED
      BY <2>1, <2>3, <3>2
  <2>4. QED
    BY <2>2, <2>3
<1>4. queue' \in [Nodes -> [Ops -> Seq(Messages)]]
  BY <1>2, <1>3
<1>5. QED
  BY <1>2, <1>3, <1>4

\* What a turn of ProcessBUS's loop changes, in the terms of its LET.
TransmitFacts(b, m, n, done) ==
  /\ turn.bus = b /\ b \in Buses
  /\ m = FindFirstMessage(mes[b]) /\ m \in mes[b] /\ m \in Messages
  /\ n = Cardinality(Requested(b, m)) /\ n \in 0 .. Len(waiting[b])
  /\ waiting[b] \in Seq(Requests)
  /\ done \in Nat /\ done = MaxVal(TimeOfRequests(b, m), m.time) + Duration(b)
  /\ waiting' = [waiting EXCEPT ![b] = SubSeq(@, n + 1, Len(@))]
  /\ lastuse' = [lastuse EXCEPT ![b] = TimeOfRequests(b, m) + Duration(b)]
  /\ TimeOfRequests(b, m) \in Nat
  /\ TimeOfRequests(b, m) >= IF n = 0 THEN turn.newt ELSE lastuse[b]
  /\ mes' = [mes EXCEPT ![b] = @ \ {m}]
  /\ turn.at = "bus" /\ turn'.at = "bus" /\ turn'.bus = b /\ turn'.newt = done /\ turn' \in Turns
  /\ UNCHANGED <<cur, gate, next_thread_id, cpusblocked, btime, nextmesid, curcpu, swaptime>>
  /\ DeliversResponse(m, done) \/ DeliversCall(m, done) \/ DeliversBroadcast(m)

LEMMA TransmitSteps ==
  ASSUME MachineInv, Transmit
  PROVE  \E b, m, n, done : TransmitFacts(b, m, n, done)
<1> DEFINE b == turn.bus
           m == FindFirstMessage(mes[b])
           n == Cardinality(Requested(b, m))
           newt == TimeOfRequests(b, m)
           done == MaxVal(newt, m.time) + Duration(b)
<1>1. /\ b \in Buses /\ turn.newt \in Nat /\ turn.swapt \in Nat
      /\ turn = [at |-> "bus", bus |-> b, newt |-> turn.newt, swapt |-> turn.swapt]
      /\ m \in mes[b] /\ m \in Messages
      /\ waiting[b] \in Seq(Requests) /\ n \in 0 .. Len(waiting[b])
      /\ newt \in Nat
      /\ newt >= IF n = 0 THEN turn.newt ELSE lastuse[b]
  BY Transmitting
<1>2. /\ waiting' = [waiting EXCEPT ![b] = SubSeq(@, n + 1, Len(@))]
      /\ lastuse' = [lastuse EXCEPT ![b] = newt + Duration(b)]
      /\ mes' = [mes EXCEPT ![b] = @ \ {m}]
      /\ Deliver(m, done)
      /\ turn' = [turn EXCEPT !.newt = done]
      /\ UNCHANGED <<cur, gate, next_thread_id, cpusblocked, btime, nextmesid, curcpu, swaptime>>
  BY DEF Transmit
<1>3. m.time \in Nat /\ Duration(b) \in Nat
  BY <1>1, DurationType DEF Messages
<1> HIDE DEF newt
<1>4. done \in Nat
  BY <1>1, <1>3 DEF MaxVal
<1> HIDE DEF done, b, m, n
<1>5. DeliversResponse(m, done) \/ DeliversCall(m, done) \/ DeliversBroadcast(m)
  BY <1>1, <1>2, DeliverCases
<1>6. turn' = [at |-> "bus", bus |-> b, newt |-> done, swapt |-> turn.swapt]
  <2>1. [[at |-> "bus", bus |-> b, newt |-> turn.newt, swapt |-> turn.swapt] EXCEPT !.newt = done] =
          [at |-> "bus", bus |-> b, newt |-> done, swapt |-> turn.swapt]
    OBVIOUS
  <2>2. QED
    BY <1>1, <1>2, <2>1
<1>7. turn' \in Turns /\ turn'.at = "bus" /\ turn'.bus = b /\ turn'.newt = done /\ turn.at = "bus"
  <2>1. turn.at = "bus"
    BY DEF Transmit
  <2>2. QED
    BY <1>1, <1>4, <1>6, <2>1 DEF Turns
<1>8. TransmitFacts(b, m, n, done)
  BY <1>1, <1>2, <1>4, <1>5, <1>7 DEF TransmitFacts, b, m, n, newt, done
<1>9. QED
  BY <1>8

LEMMA TransmitInv ==
  ASSUME MachineInv, KnownThreads, Transmit
  PROVE  MachineInv'
<1>1. PICK b, m, n, done : TransmitFacts(b, m, n, done)
  BY TransmitSteps
<1>2. UniqueIds' /\ mes' \in [Buses -> SUBSET Messages]
  BY <1>1, MessageRemoved DEF TransmitFacts, MachineInv
<1>3. waiting' \in [Buses -> Seq(Requests)]
  <2>1. \A i \in n + 1 .. Len(waiting[b]) : waiting[b][i] \in Requests
    BY <1>1, LenProperties, ElementOfSeq DEF TransmitFacts
  <2>2. SubSeq(waiting[b], n + 1, Len(waiting[b])) \in Seq(Requests)
    <3>1. n + 1 \in Int /\ Len(waiting[b]) \in Int
      BY <1>1, LenProperties DEF TransmitFacts
    <3>2. QED
      BY <2>1, <3>1, SubSeqProperties
  <2>3. QED
    BY <1>1, <2>2 DEF TransmitFacts, MachineInv, TypeOK
<1>4. lastuse' \in [Buses -> Nat \cup {-1}]
  <2>1. TimeOfRequests(b, m) + Duration(b) \in Nat
    BY <1>1, DurationType DEF TransmitFacts
  <2>2. QED
    BY <1>1, <2>1 DEF TransmitFacts, MachineInv, TypeOK
<1>5. m \in Messages /\ m \in AllMessages /\ m.to \in SUBSET Nodes /\ done \in Nat
  BY <1>1 DEF TransmitFacts, AllMessages, OnBuses, Messages
<1>6. time' \in [Nodes -> Nat] /\ idle' \in [Nodes -> Nat]
  <2>1. CASE \E c \in m.to : StepsBack(c, done)
    BY <1>5, <2>1, StepsBackType DEF MachineInv
  <2>2. CASE UNCHANGED <<time, idle>>
    BY <2>2 DEF MachineInv, TypeOK
  <2>3. QED
    BY <1>1, <2>1, <2>2 DEF TransmitFacts, DeliversResponse, DeliversCall, DeliversBroadcast
<1>7. /\ queue' \in [Nodes -> [Ops -> Seq(Messages)]]
      /\ thr' = thr \/ thr' = Resumed(m)
  <2>1. CASE DeliversResponse(m, done)
    BY <2>1 DEF DeliversResponse, MachineInv, TypeOK
  <2>2. CASE DeliversCall(m, done) \/ DeliversBroadcast(m)
    BY <1>5, <2>2, DeliveredQueues DEF DeliversCall, DeliversBroadcast, MachineInv
  <2>3. QED
    BY <1>1, <2>1, <2>2 DEF TransmitFacts
<1>8. /\ thr' \in [ThreadIds -> ThreadInfos]
      /\ \A t \in ThreadIds : thr'[t].serves = thr[t].serves /\ (t # m.thread => thr'[t] = thr[t])
  <2>1. CASE thr' = thr
    BY <2>1 DEF MachineInv, TypeOK
  <2>2. CASE thr' = Resumed(m)
    <3>1. thr' \in [ThreadIds -> ThreadInfos]
      BY <1>5, <2>2, ResumedThreads DEF MachineInv
    <3>2. \A t \in ThreadIds :
            thr'[t] = IF t = m.thread THEN [thr[t] EXCEPT !.status = "Running", !.awaits = 0]
                      ELSE thr[t]
      BY <1>5, <2>2, ResumedThreads DEF MachineInv
    <3>3. \A t \in ThreadIds : thr[t] \in ThreadInfos
      BY DEF MachineInv, TypeOK
    <3>4. \A i \in ThreadInfos : [i EXCEPT !.status = "Running", !.awaits = 0].serves = i.serves
      BY DEF ThreadInfos
    <3>5. QED
      BY <3>1, <3>2, <3>3, <3>4
  <2>3. QED
    BY <1>7, <2>1, <2>2
<1>9. TypeOK'
  <2>1. thr' \in [ThreadIds -> ThreadInfos] /\ queue' \in [Nodes -> [Ops -> Seq(Messages)]]
    BY <1>7, <1>8
  <2>2. turn' \in Turns /\ UNCHANGED <<cur, gate, next_thread_id, cpusblocked, btime, nextmesid, curcpu, swaptime>>
    BY <1>1 DEF TransmitFacts
  <2>3. QED
    BY <1>2, <1>3, <1>4, <1>6, <2>1, <2>2 DEF MachineInv, TypeOK
<1>10. CurrentThread'
  <2>1. turn'.at # "run"
    BY <1>1 DEF TransmitFacts
  <2>2. QED
    BY <2>1 DEF CurrentThread
<1>11. LaterThreads'
  <2>1. m.thread < next_thread_id /\ next_thread_id' = next_thread_id
    BY <1>1, <1>5 DEF KnownThreads, TransmitFacts
  <2>2. m.thread \in Int /\ next_thread_id \in Int /\ \A t \in ThreadIds : t \in Int
    BY <1>5, Costs DEF Messages, MachineInv, TypeOK, ThreadIds, NoThread
  <2>3. \A t \in ThreadIds : t >= next_thread_id => thr'[t] = thr[t]
    BY <1>8, <2>1, <2>2
  <2>4. thr'[DebugThread].serves = NoMessage
    BY <1>8, Costs DEF MachineInv, LaterThreads
  <2>5. QED
    BY <2>1, <2>3, <2>4 DEF MachineInv, LaterThreads
<1>12. QED
  BY <1>2, <1>9, <1>10, <1>11 DEF MachineInv

LEMMA EndOfBUSTurnInv ==
  ASSUME MachineInv, EndOfBUSTurn
  PROVE  MachineInv'
<1>1. turn.bus \in Buses /\ turn.newt \in Nat
  BY DEF EndOfBUSTurn, MachineInv, TypeOK, Turns
<1>2. btime' \in [Buses -> Nat]
  BY <1>1 DEF EndOfBUSTurn, MachineInv, TypeOK
<1>3. turn' \in Turns /\ turn'.at # "run"
  BY DEF EndOfBUSTurn, Turns
<1>4. UNCHANGED <<cpuVars, thrVars, lastuse, waiting, mes, nextmesid, curcpu, swaptime>>
  BY DEF EndOfBUSTurn
<1>5. QED
  BY <1>2, <1>3, <1>4
     DEF MachineInv, TypeOK, CurrentThread, LaterThreads, UniqueIds, cpuVars, thrVars

-----------------------------------------------------------------------------
(* How messages move in a step.                                              *)

LEMMA MessagesStay ==
  ASSUME TypeOK, mes' = mes, queue' = queue, \A t \in ThreadIds : thr'[t].serves = thr[t].serves
  PROVE  /\ OnBuses' = OnBuses
         /\ \A n \in Nodes : Queued(n)' = Queued(n)
         /\ Served' = Served
         /\ AllMessages' = AllMessages
<1>1. OnBuses' = OnBuses /\ \A n \in Nodes : Queued(n)' = Queued(n)
  BY DEF OnBuses, Queued
<1>2. Served' = Served
  BY SameServed
<1>3. QED
  BY <1>1, <1>2 DEF AllMessages

\* The threads after SelAndRunThread: no thread begins or ends.
LEMMA SelectsServes ==
  ASSUME NEW info \in InfosType, NEW c \in Nodes, NEW blocked, Selects(info, c, blocked)
  PROVE  \A t \in ThreadIds : /\ thr'[t].serves = info[t].serves
                              /\ thr'[t].cpu = info[t].cpu
                              /\ thr'[t].awaits = info[t].awaits
                              /\ thr'[t].status = "SyncOp" <=> info[t].status = "SyncOp"
<1>1. CASE thr' = info
  BY <1>1
<1>2. ASSUME NEW n \in ThreadsInTurn(info, c), info[n].status # "SyncOp",
             thr' = [info EXCEPT ![n].status = "Running"]
      PROVE  \A t \in ThreadIds : /\ thr'[t].serves = info[t].serves
                                  /\ thr'[t].cpu = info[t].cpu
                                  /\ thr'[t].awaits = info[t].awaits
                                  /\ thr'[t].status = "SyncOp" <=> info[t].status = "SyncOp"
  <2>1. n \in ThreadIds /\ \A t \in ThreadIds : info[t] \in ThreadInfos
    BY DEF ThreadsInTurn, InfosType
  <2>2. \A t \in ThreadIds : thr'[t] = IF t = n THEN [info[t] EXCEPT !.status = "Running"] ELSE info[t]
    BY <1>2, <2>1 DEF InfosType
  <2>3. QED
    BY <1>2, <2>1, <2>2 DEF ThreadInfos
<1>3. QED
  BY <1>1, <1>2 DEF Selects

-----------------------------------------------------------------------------
(* What a step does to the messages, of five kinds.                          *)

\* No message moves: all but the instructions and turns below.
Quiet ==
  /\ UNCHANGED <<mes, queue, nextmesid>>
  /\ next_thread_id' \in Nat /\ next_thread_id' >= next_thread_id
  /\ \A t \in ThreadIds :
       /\ thr'[t].serves = thr[t].serves
       /\ thr'[t].status = "SyncOp" <=> thr[t].status = "SyncOp"
       /\ thr[t].status = "SyncOp" => thr'[t].awaits = thr[t].awaits
       /\ thr[t].serves # NoMessage => thr'[t].cpu = thr[t].cpu

LEMMA QuietThreads ==
  ASSUME MachineInv, UNCHANGED <<mes, queue, nextmesid, thr>>,
         next_thread_id' = next_thread_id
  PROVE  Quiet
<1>1. next_thread_id \in Nat /\ next_thread_id >= next_thread_id
  BY Costs DEF MachineInv, TypeOK
<1>2. QED
  BY <1>1 DEF Quiet

LEMMA LocalCallQuiet ==
  ASSUME MachineInv, LocalCall
  PROVE  Quiet
<1> DEFINE t == IncrAbsTime(curcpu, time[curcpu], GuardTime)
           info == [thr EXCEPT ![cur[curcpu]].status = "Blocked"]
<1>1. /\ cur[curcpu] \in ThreadIds /\ thr[cur[curcpu]] \in ThreadInfos /\ curcpu \in Nodes
      /\ thr[cur[curcpu]].status # "SyncOp" /\ t \in Nat
  BY Executing, IncrAbsTimeType, Costs DEF LocalCall, MachineInv
<1>2. /\ UNCHANGED <<mes, queue, nextmesid>> /\ next_thread_id' = next_thread_id
  BY DEF LocalCall, busVars
<1>3. next_thread_id \in Nat /\ next_thread_id >= next_thread_id
  BY Costs DEF MachineInv, TypeOK
<1>4. CASE thr' = thr
  BY <1>2, <1>4, QuietThreads
<1>5. CASE SelAndRunThread(info, curcpu, t, cpusblocked)
  <2>1. [thr[cur[curcpu]] EXCEPT !.status = "Blocked"] \in ThreadInfos
    BY <1>1 DEF ThreadInfos
  <2>2. info = [thr EXCEPT ![cur[curcpu]] = [thr[cur[curcpu]] EXCEPT !.status = "Blocked"]]
    OBVIOUS
  <2>3. info \in InfosType
    BY <1>1, <2>1, <2>2 DEF MachineInv, TypeOK, InfosType
  <2>4. \A u \in ThreadIds : /\ info[u].serves = thr[u].serves
                             /\ info[u].cpu = thr[u].cpu
                             /\ info[u].awaits = thr[u].awaits
                             /\ info[u].status = "SyncOp" <=> thr[u].status = "SyncOp"
    BY <1>1, <2>2 DEF MachineInv, TypeOK, ThreadInfos
  <2> HIDE DEF info, t
  <2>5. Selects(info, curcpu, cpusblocked)
    BY <1>1, <1>5, <2>3, SelAndRunThreadSelects DEF MachineInv
  <2>6. \A u \in ThreadIds : /\ thr'[u].serves = info[u].serves
                             /\ thr'[u].cpu = info[u].cpu
                             /\ thr'[u].awaits = info[u].awaits
                             /\ thr'[u].status = "SyncOp" <=> info[u].status = "SyncOp"
    BY <1>1, <2>3, <2>5, SelectsServes
  <2>7. QED
    BY <1>2, <1>3, <2>4, <2>6 DEF Quiet
<1>6. QED
  BY <1>4, <1>5 DEF LocalCall

LEMMA RunThreadQuiet ==
  ASSUME MachineInv, NEW c \in Nodes, RunThread(c)
  PROVE  Quiet
<1>1. /\ SelAndRunThread(thr, c, time[c], cpusblocked \ {c})
      /\ UNCHANGED <<mes, queue, nextmesid>> /\ next_thread_id' = next_thread_id
  BY DEF RunThread, busVars
<1>2. thr \in InfosType /\ time[c] \in Nat
  BY DEF MachineInv, TypeOK, InfosType
<1>3. Selects(thr, c, cpusblocked \ {c})
  BY <1>1, <1>2, SelAndRunThreadSelects DEF MachineInv
<1>4. \A u \in ThreadIds : /\ thr'[u].serves = thr[u].serves
                           /\ thr'[u].cpu = thr[u].cpu
                           /\ thr'[u].awaits = thr[u].awaits
                           /\ thr'[u].status = "SyncOp" <=> thr[u].status = "SyncOp"
  BY <1>2, <1>3, SelectsServes
<1>5. next_thread_id \in Nat /\ next_thread_id >= next_thread_id
  BY Costs DEF MachineInv, TypeOK
<1>6. QED
  BY <1>1, <1>4, <1>5 DEF Quiet

LEMMA StartNewThreadQuiet ==
  ASSUME MachineInv, NEW n \in Nodes, StartNewThread(n)
  PROVE  Quiet
<1> DEFINE i == NewThread("Sleeping", n, DefaultPriority, NoMessage)
<1>1. i \in ThreadInfos /\ i.serves = NoMessage /\ i.status # "SyncOp"
  BY DEF NewThread, ThreadInfos, DefaultPriority
<1> HIDE DEF i
<1>2. /\ next_thread_id <= MaxThreads
      /\ next_thread_id' = next_thread_id + 1
      /\ thr' = [thr EXCEPT ![next_thread_id] = i]
      /\ UNCHANGED <<mes, queue, nextmesid>>
  BY DEF StartNewThread, i, busVars
<1>3. next_thread_id \in ThreadIds /\ \A t \in ThreadIds : thr'[t] = IF t = next_thread_id THEN i ELSE thr[t]
  BY <1>1, <1>2, FreshThread
<1>4. /\ next_thread_id \in Nat
      /\ thr[next_thread_id].serves = NoMessage /\ thr[next_thread_id].status = "None"
  BY <1>3 DEF MachineInv, LaterThreads, ThreadIds
<1>5. next_thread_id' \in Nat /\ next_thread_id' >= next_thread_id
  BY <1>2, <1>4
<1>6. QED
  BY <1>1, <1>2, <1>3, <1>4, <1>5 DEF Quiet

\* A call is put on a bus, and its caller awaits the answer of a synchronous one.
Sends(m) ==
  /\ m \in Messages /\ m.id = nextmesid + 1 /\ m.call = m.id /\ nextmesid' = nextmesid + 1
  /\ \/ m.kind = "call" /\ \E n \in Nodes : m.to = {n}
     \/ m.kind = "broadcast" /\ m.thread = NoThread
  /\ OnBuses' = IF m.to = {} THEN OnBuses ELSE OnBuses \cup {m}
  /\ queue' = queue
  /\ next_thread_id' = next_thread_id
  /\ m.thread # NoThread => m.thread < next_thread_id /\ thr[m.thread].status # "SyncOp"
  /\ \A t \in ThreadIds :
       /\ thr'[t].serves = thr[t].serves
       /\ thr'[t].cpu = thr[t].cpu
       /\ t = m.thread => thr'[t].status = "SyncOp" /\ thr'[t].awaits = m.id
       /\ t # m.thread => thr'[t] = thr[t]

LEMMA RemoteCallSends ==
  ASSUME MachineInv, NEW n \in Nodes, NEW op \in Ops, RemoteCall(n, op)
  PROVE  Sends(NewCall("call", op, {n}))
<1> DEFINE m == NewCall("call", op, {n})
           b == BUSBetween(curcpu, n)
           t == cur[curcpu]
<1>1. /\ m \in Messages /\ m.id = nextmesid + 1 /\ m.call = nextmesid + 1
      /\ m.kind = "call" /\ m.to = {n}
      /\ m.thread = IF op \in SyncOps THEN t ELSE NoThread
  BY NewCallType DEF RemoteCall
<1>2. /\ t \in ThreadIds /\ thr[t] \in ThreadInfos /\ t < next_thread_id
      /\ thr[t].status # "SyncOp"
  BY Executing DEF RemoteCall
<1>3. b \in Buses
  BY DEF BUSBetween, Buses
<1> HIDE DEF m, b
<1>4. /\ nextmesid' = nextmesid + 1
      /\ mes' = [mes EXCEPT ![b] = @ \cup {m}]
      /\ thr' = IF op \in SyncOps
                THEN [thr EXCEPT ![t].status = "SyncOp", ![t].awaits = m.id]
                ELSE thr
      /\ queue' = queue /\ next_thread_id' = next_thread_id
  BY DEF RemoteCall, m, b, cpuVars
<1>5. OnBuses' = OnBuses \cup {m}
  BY <1>3, <1>4, PutOnBus DEF MachineInv
<1> HIDE DEF t
<1>6. \A u \in ThreadIds :
        /\ thr'[u].serves = thr[u].serves
        /\ thr'[u].cpu = thr[u].cpu
        /\ u = m.thread => thr'[u].status = "SyncOp" /\ thr'[u].awaits = m.id
        /\ u # m.thread => thr'[u] = thr[u]
  <2>1. CASE op \in SyncOps
    <3>1. thr' = [thr EXCEPT ![t] = [thr[t] EXCEPT !.status = "SyncOp", !.awaits = m.id]]
      BY <1>2, <1>4, <2>1 DEF MachineInv, TypeOK, ThreadInfos
    <3>2. QED
      BY <1>1, <1>2, <2>1, <3>1 DEF MachineInv, TypeOK, ThreadInfos
  <2>2. CASE op \notin SyncOps
    BY <1>1, <1>4, <2>2, Costs
  <2>3. QED
    BY <2>1, <2>2
<1>7. m.to # {}
  BY <1>1
<1>8. Sends(m)
  BY <1>1, <1>2, <1>4, <1>5, <1>6, <1>7 DEF Sends
<1>9. QED
  BY <1>8 DEF m

LEMMA BroadcastSends ==
  ASSUME MachineInv, NEW op \in Ops, Broadcast(op)
  PROVE  Sends(NewCall("broadcast", op, CPUs \ {curcpu}))
<1> DEFINE m == NewCall("broadcast", op, CPUs \ {curcpu})
           b == IF curcpu = VCPU THEN VBUS ELSE BUS
<1>1. /\ m \in Messages /\ m.id = nextmesid + 1 /\ m.call = nextmesid + 1
      /\ m.kind = "broadcast" /\ m.thread = NoThread
  <2>1. CPUs \ {curcpu} \in SUBSET Nodes
    BY DEF Nodes
  <2>2. op \notin SyncOps
    BY ViceAssumption DEF Broadcast
  <2>3. QED
    BY <2>1, <2>2, NewCallType DEF Broadcast
<1>2. b \in Buses
  BY DEF Buses
<1> HIDE DEF m, b
<1>3. /\ nextmesid' = nextmesid + 1
      /\ mes' = IF m.to = {} THEN mes ELSE [mes EXCEPT ![b] = @ \cup {m}]
      /\ queue' = queue /\ next_thread_id' = next_thread_id /\ thr' = thr
  BY DEF Broadcast, m, b, cpuVars, thrVars
<1>4. OnBuses' = IF m.to = {} THEN OnBuses ELSE OnBuses \cup {m}
  <2>1. CASE m.to = {}
    BY <1>3, <2>1 DEF OnBuses
  <2>2. CASE m.to # {}
    BY <1>2, <1>3, <2>2, PutOnBus DEF MachineInv
  <2>3. QED
    BY <2>1, <2>2
<1>5. \A t \in ThreadIds : t # m.thread /\ thr'[t] = thr[t]
  BY <1>1, <1>3, Costs
<1>6. Sends(m)
  BY <1>1, <1>3, <1>4, <1>5 DEF Sends
<1>7. QED
  BY <1>6 DEF m

\* A new thread t on node c begins to execute the first message of a queue.
Starts(c, op, m, t) ==
  /\ c \in Nodes /\ op \in Ops /\ queue[c][op] # <<>> /\ m = Head(queue[c][op])
  /\ queue' = [queue EXCEPT ![c][op] = Tail(@)]
  /\ UNCHANGED <<mes, nextmesid>>
  /\ t = next_thread_id /\ t \in ThreadIds /\ next_thread_id' = t + 1
  /\ thr[t].serves = NoMessage /\ thr[t].status # "SyncOp"
  /\ thr'[t].serves = m /\ thr'[t].cpu = c /\ thr'[t].status # "SyncOp"
  /\ \A u \in ThreadIds \ {t} : thr'[u] = thr[u]

LEMMA RunMessageStarts ==
  ASSUME MachineInv, NEW c \in Nodes, RunMessage(c)
  PROVE  Starts(c, FirstOp(c), Head(queue[c][FirstOp(c)]), next_thread_id)
<1> DEFINE op == FirstOp(c)
           m == Head(queue[c][op])
           i == NewThread("Running", c, OpPrio[op], m)
<1>1. op \in Ops /\ queue[c][op] # <<>> /\ queue[c][op] \in Seq(Messages)
  <2>1. op \in Ops /\ queue[c][op] # <<>>
    BY FirstOpType DEF RunMessage, AnyMessages
  <2> HIDE DEF op
  <2>2. QED
    BY <2>1 DEF MachineInv, TypeOK
<1> HIDE DEF op
<1>2. m \in Messages
  BY <1>1, HeadTailProperties
<1>3. i \in ThreadInfos /\ i.status = "Running" /\ i.cpu = c /\ i.serves = m
  BY <1>1, <1>2, ViceAssumption DEF NewThread, ThreadInfos
<1> HIDE DEF i
<1>4. /\ next_thread_id <= MaxThreads
      /\ next_thread_id' = next_thread_id + 1
      /\ queue' = [queue EXCEPT ![c][op] = Tail(@)]
      /\ thr' = [thr EXCEPT ![next_thread_id] = i]
      /\ UNCHANGED <<mes, nextmesid>>
  BY DEF RunMessage, op, i, busVars
<1>5. /\ next_thread_id \in ThreadIds
      /\ \A t \in ThreadIds : thr'[t] = IF t = next_thread_id THEN i ELSE thr[t]
  BY <1>3, <1>4, FreshThread
<1>6. thr[next_thread_id].serves = NoMessage /\ thr[next_thread_id].status = "None"
  BY <1>5 DEF MachineInv, LaterThreads, ThreadIds
<1>7. Starts(c, op, m, next_thread_id)
  BY <1>1, <1>3, <1>4, <1>5, <1>6 DEF Starts
<1>8. QED
  BY <1>7 DEF op, m

\* The thread t comes to the end of the call m, and answers it when it is awaited.
Returns(t, m) ==
  /\ t \in ThreadIds /\ m = thr[t].serves /\ m \in Messages /\ thr[t].status # "SyncOp"
  /\ thr[t].cpu \in Nodes
  /\ queue' = queue
  /\ next_thread_id' = next_thread_id
  /\ thr'[t].serves = NoMessage /\ thr'[t].status # "SyncOp"
  /\ \A u \in ThreadIds \ {t} : thr'[u] = thr[u]
  /\ \/ m.thread = NoThread /\ UNCHANGED <<mes, nextmesid>>
     \/ /\ m.thread # NoThread
        /\ nextmesid' = nextmesid + 1
        /\ \E r \in Messages :
             /\ r.id = nextmesid + 1 /\ r.kind = "response" /\ r.call = m.call
             /\ r.from = thr[t].cpu /\ r.thread = m.thread
             /\ OnBuses' = OnBuses \cup {r}

LEMMA SuccessReturns ==
  ASSUME MachineInv, Success
  PROVE  Quiet \/ \E t, m : Returns(t, m)
<1> DEFINE t == cur[curcpu]
           m == thr[t].serves
           b == BUSBetween(curcpu, m.from)
           none == NewThread("None", VCPU, DefaultPriority, NoMessage)
<1>1. /\ t \in ThreadIds /\ thr[t] \in ThreadInfos /\ thr[t].status # "SyncOp"
      /\ thr[t].cpu = curcpu /\ curcpu \in Nodes /\ b \in Buses
  BY Executing DEF Success, BUSBetween, Buses
<1>2. /\ thr' = IF t = DebugThread THEN thr ELSE [thr EXCEPT ![t] = none]
      /\ queue' = queue /\ next_thread_id' = next_thread_id
      /\ Executes
  BY DEF Success
<1>3. none.serves = NoMessage /\ none.status = "None"
  BY DEF NewThread
<1>4. \A u \in ThreadIds : thr'[u] = IF u = t /\ t # DebugThread THEN none ELSE thr[u]
  BY <1>1, <1>2 DEF MachineInv, TypeOK
<1>5. next_thread_id \in Nat /\ next_thread_id >= next_thread_id
  BY Costs DEF MachineInv, TypeOK
<1>6. CASE m = NoMessage
  <2>1. UNCHANGED <<mes, nextmesid>>
    BY <1>6 DEF Success, busVars
  <2> HIDE DEF none
  <2>2. QED
    BY <1>1, <1>2, <1>3, <1>4, <1>5, <1>6, <2>1 DEF Quiet
<1>7. CASE m # NoMessage
  <2>1. m \in Messages /\ t # DebugThread
    BY <1>1, <1>7 DEF ThreadInfos, MachineInv, LaterThreads
  <2>2. thr'[t] = none /\ \A u \in ThreadIds \ {t} : thr'[u] = thr[u]
    BY <1>1, <1>4, <2>1
  <2>3. \/ m.thread = NoThread /\ UNCHANGED <<mes, nextmesid>>
        \/ /\ m.thread # NoThread
           /\ nextmesid < 2 * MaxMes
           /\ nextmesid' = nextmesid + 1
           /\ mes' = [mes EXCEPT ![b] = @ \cup {Response(m)}]
    BY <1>7 DEF Success, busVars
  <2> HIDE DEF none, m, t, b
  <2>4. CASE m.thread = NoThread /\ UNCHANGED <<mes, nextmesid>>
    <3>1. Returns(t, m)
      BY <1>1, <1>2, <1>3, <2>1, <2>2, <2>4 DEF Returns, m
    <3>2. QED
      BY <3>1
  <2>5. CASE /\ m.thread # NoThread
             /\ nextmesid < 2 * MaxMes
             /\ nextmesid' = nextmesid + 1
             /\ mes' = [mes EXCEPT ![b] = @ \cup {Response(m)}]
    <3>1. /\ Response(m) \in Messages /\ Response(m).id = nextmesid + 1
          /\ Response(m).kind = "response" /\ Response(m).call = m.call
          /\ Response(m).from = thr[t].cpu /\ Response(m).thread = m.thread
      BY <1>1, <1>2, <2>1, <2>5, ResponseType
    <3>2. OnBuses' = OnBuses \cup {Response(m)}
      BY <1>1, <2>5, PutOnBus DEF MachineInv
    <3>3. Returns(t, m)
      BY <1>1, <1>2, <1>3, <2>1, <2>2, <2>5, <3>1, <3>2 DEF Returns, m
    <3>4. QED
      BY <3>3
  <2>6. QED
    BY <2>3, <2>4, <2>5
<1>8. QED
  BY <1>6, <1>7

\* The call m is put in the queues of the nodes S.
Spreads(m, S) ==
  /\ m.kind = "broadcast" => S = m.to
  /\ m.kind = "call" => S # {}
  /\ \A n \in Nodes : queue'[n] = IF n \in S THEN [queue[n] EXCEPT ![m.op] = InsertByTime(@, m)]
                                  ELSE queue[n]
  /\ \A n \in Nodes : Queued(n)' = IF n \in S THEN Queued(n) \cup {m} ELSE Queued(n)

\* The bus delivers the message m: a response to the thread that awaits it, a call
\* to nodes it was made to.
Delivers(m) ==
  /\ m \in OnBuses /\ m \in Messages
  /\ OnBuses' = OnBuses \ {m}
  /\ nextmesid' = nextmesid /\ next_thread_id' = next_thread_id
  /\ \/ /\ m.kind = "response"
        /\ queue' = queue
        /\ \A t \in ThreadIds :
             /\ thr'[t].serves = thr[t].serves
             /\ thr'[t].cpu = thr[t].cpu
             /\ t = m.thread => thr'[t].status = "Running"
             /\ t # m.thread => thr'[t] = thr[t]
     \/ /\ m.kind # "response"
        /\ thr' = thr
        /\ \E S \in SUBSET m.to : Spreads(m, S)

LEMMA TransmitDelivers ==
  ASSUME MachineInv, Transmit
  PROVE  \E m : Delivers(m)
<1>1. PICK b, m, n, done : TransmitFacts(b, m, n, done)
  BY TransmitSteps
<1>2. /\ m \in Messages /\ m \in OnBuses
      /\ nextmesid' = nextmesid /\ next_thread_id' = next_thread_id
  BY <1>1 DEF TransmitFacts, OnBuses
<1>3. OnBuses' = OnBuses \ {m}
  BY <1>1, TakenFromBus DEF TransmitFacts, MachineInv
<1>4. CASE DeliversResponse(m, done)
  <2>1. m.kind = "response" /\ queue' = queue /\ thr' = Resumed(m)
    BY <1>4 DEF DeliversResponse
  <2>2. \A t \in ThreadIds :
          thr'[t] = IF t = m.thread THEN [thr[t] EXCEPT !.status = "Running", !.awaits = 0]
                    ELSE thr[t]
    BY <1>2, <2>1, ResumedThreads DEF MachineInv
  <2>3. \A t \in ThreadIds : thr[t] \in ThreadInfos
    BY DEF MachineInv, TypeOK
  <2>4. \A i \in ThreadInfos : /\ [i EXCEPT !.status = "Running", !.awaits = 0].serves = i.serves
                               /\ [i EXCEPT !.status = "Running", !.awaits = 0].cpu = i.cpu
                               /\ [i EXCEPT !.status = "Running", !.awaits = 0].status = "Running"
    <3> TAKE i \in ThreadInfos
    <3>1. {"status", "awaits", "serves", "cpu"} \subseteq DOMAIN i
      BY DEF ThreadInfos
    <3>2. QED
      BY <3>1
  <2>5. \A t \in ThreadIds : /\ thr'[t].serves = thr[t].serves
                             /\ thr'[t].cpu = thr[t].cpu
                             /\ t = m.thread => thr'[t].status = "Running"
                             /\ t # m.thread => thr'[t] = thr[t]
    <3> TAKE t \in ThreadIds
    <3>1. CASE t = m.thread
      <4>1. thr'[t] = [thr[t] EXCEPT !.status = "Running", !.awaits = 0]
        BY <2>2, <3>1
      <4>2. thr[t] \in ThreadInfos
        BY <2>3
      <4>3. QED
        BY <2>4, <3>1, <4>1, <4>2
    <3>2. CASE t # m.thread
      <4>1. thr'[t] = thr[t]
        BY <2>2, <3>2
      <4>2. QED
        BY <3>2, <4>1
    <3>3. QED
      BY <3>1, <3>2
  <2>6. QED
    BY <1>2, <1>3, <2>1, <2>5 DEF Delivers
<1>5. CASE DeliversCall(m, done) \/ DeliversBroadcast(m)
  <2>1. m.kind # "response" /\ thr' = thr
    BY <1>5 DEF DeliversCall, DeliversBroadcast
  <2>2. \E S \in SUBSET m.to :
          /\ m.kind = "broadcast" => S = m.to
          /\ m.kind = "call" => S # {}
          /\ \A c \in Nodes : queue'[c] = IF c \in S THEN [queue[c] EXCEPT ![m.op] = InsertByTime(@, m)]
                                          ELSE queue[c]
          /\ \A c \in Nodes : Queued(c)' = IF c \in S THEN Queued(c) \cup {m} ELSE Queued(c)
    BY <1>2, <1>5, DeliveredQueues DEF MachineInv
  <2>3. \E S \in SUBSET m.to : Spreads(m, S)
    BY <2>2 DEF Spreads
  <2>4. Delivers(m)
    BY <1>2, <1>3, <2>1, <2>3 DEF Delivers
  <2>5. QED
    BY <2>4
<1>6. QED
  BY <1>1, <1>4, <1>5 DEF TransmitFacts

LEMMA StepKinds ==
  ASSUME MachineInv, [Next]_vars
  PROVE  \/ Quiet
         \/ \E m : Sends(m)
         \/ \E c, op, m, t : Starts(c, op, m, t)
         \/ \E t, m : Returns(t, m)
         \/ \E m : Delivers(m)
<1>1. CASE UNCHANGED vars
  BY <1>1, QuietThreads DEF vars
<1>2. ASSUME NEW d \in Durations, Work(d) PROVE Quiet
  BY <1>2, QuietThreads DEF Work, thrVars, busVars
<1>3. ASSUME NEW v \in BOOLEAN, SetGate(v) PROVE Quiet
  BY <1>3, QuietThreads DEF SetGate, thrVars, busVars
<1>4. ASSUME NEW c \in Nodes, CPUIdles(c) PROVE Quiet
  BY <1>4, QuietThreads DEF CPUIdles, thrVars, busVars
<1>5. ASSUME NEW c \in Nodes, CPUWaits(c) PROVE Quiet
  BY <1>5, QuietThreads DEF CPUWaits, busVars
<1>6. ASSUME NEW b \in Buses, BUSTurn(b) PROVE Quiet
  BY <1>6, QuietThreads DEF BUSTurn, thrVars, cpuVars
<1>7. CASE EndSlice
  BY <1>7, QuietThreads DEF EndSlice, thrVars, cpuVars, busVars
<1>8. CASE EndOfBUSTurn
  BY <1>8, QuietThreads DEF EndOfBUSTurn, thrVars, cpuVars
<1>9. CASE Instruction
  BY <1>2, <1>3, <1>9, LocalCallQuiet, RemoteCallSends, BroadcastSends, StartNewThreadQuiet, SuccessReturns
     DEF Instruction
<1>10. CASE Scheduler
  BY <1>4, <1>5, <1>6, <1>7, <1>8, <1>10, RunMessageStarts, RunThreadQuiet, TransmitDelivers
     DEF Scheduler
<1>11. QED
  BY <1>1, <1>9, <1>10 DEF Next

-----------------------------------------------------------------------------
(* The messages after a step of each kind.                                   *)

LEMMA QuietMessages ==
  ASSUME TypeOK, Quiet
  PROVE  /\ OnBuses' = OnBuses
         /\ \A n \in Nodes : Queued(n)' = Queued(n)
         /\ Served' = Served /\ Serving' = Serving
         /\ AllMessages' = AllMessages
BY MessagesStay, SameServed DEF Quiet

LEMMA SendsMessages ==
  ASSUME TypeOK, NEW m, Sends(m)
  PROVE  /\ \A n \in Nodes : Queued(n)' = Queued(n)
         /\ Served' = Served /\ Serving' = Serving
         /\ AllMessages' \subseteq AllMessages \cup {m}
<1>1. Served' = Served /\ Serving' = Serving
  BY SameServed DEF Sends
<1>2. \A n \in Nodes : Queued(n)' = Queued(n)
  BY DEF Sends, Queued
<1>3. OnBuses' \subseteq OnBuses \cup {m}
  BY DEF Sends
<1>4. QED
  BY <1>1, <1>2, <1>3 DEF AllMessages

LEMMA StartsMessages ==
  ASSUME TypeOK, NEW c, NEW op, NEW m, NEW t, Starts(c, op, m, t)
  PROVE  /\ OnBuses' = OnBuses
         /\ m \in Queued(c) /\ m \in Messages
         /\ Queued(c) = Queued(c)' \cup {m}
         /\ \A n \in Nodes : n # c => Queued(n)' = Queued(n)
         /\ Serving' = Serving \cup {t} /\ t \notin Serving
         /\ Served' = Served \cup {m}
         /\ AllMessages' \subseteq AllMessages
<1>1. OnBuses' = OnBuses
  BY DEF Starts, OnBuses
<1>2. /\ m \in Queued(c)
      /\ Queued(c) = Queued(c)' \cup {m}
      /\ \A n \in Nodes : n # c => Queued(n)' = Queued(n)
  BY TakenFromQueue DEF Starts
<1>3. m \in Messages /\ m # NoMessage
  BY <1>2, MessageTypes, NoMessageAssumption DEF Starts
<1>4. Serving' = Serving \cup {t} /\ t \notin Serving
  BY <1>3 DEF Starts, Serving
<1>5. Served' = Served \cup {m}
  <2>1. \A u \in Serving : thr'[u] = thr[u] /\ u \in Serving'
    BY <1>4 DEF Starts, Serving
  <2>2. thr'[t].serves = m /\ t \in Serving'
    BY <1>4 DEF Starts
  <2>3. ASSUME NEW x PROVE x \in Served' <=> x \in Served \cup {m}
    BY <1>4, <2>1, <2>2 DEF Served
  <2>4. QED
    BY <2>3
<1>6. \A n \in Nodes : Queued(n)' \subseteq Queued(n)
  BY <1>2
<1>7. c \in Nodes
  BY DEF Starts
<1>8. AllMessages' \subseteq AllMessages
  BY <1>1, <1>2, <1>5, <1>6, <1>7 DEF AllMessages
<1>9. QED
  BY <1>1, <1>2, <1>3, <1>4, <1>5, <1>8

LEMMA ReturnsMessages ==
  ASSUME TypeOK, NEW t, NEW m, Returns(t, m)
  PROVE  /\ \A n \in Nodes : Queued(n)' = Queued(n)
         /\ t \in Serving /\ m \in Served /\ Serving' = Serving \ {t}
         /\ \A u \in Serving' : thr'[u] = thr[u]
         /\ Served' \subseteq Served
<1>1. \A n \in Nodes : Queued(n)' = Queued(n)
  BY DEF Returns, Queued
<1>2. t \in Serving /\ m \in Served
  BY NoMessageAssumption DEF Returns, Serving, Served
<1>3. Serving' = Serving \ {t}
  BY DEF Returns, Serving
<1>4. \A u \in Serving' : thr'[u] = thr[u] /\ u \in Serving
  BY <1>3 DEF Returns, Serving
<1>5. Served' \subseteq Served
  BY <1>4 DEF Served
<1>6. QED
  BY <1>1, <1>2, <1>3, <1>4, <1>5

LEMMA DeliversMessages ==
  ASSUME TypeOK, NEW m, Delivers(m)
  PROVE  /\ Served' = Served /\ Serving' = Serving
         /\ \A n \in Nodes : Queued(n)' \subseteq Queued(n) \cup {m} /\ Queued(n) \subseteq Queued(n)'
         /\ AllMessages' \subseteq AllMessages
<1>1. Served' = Served /\ Serving' = Serving
  BY SameServed DEF Delivers
<1>2. \A n \in Nodes : Queued(n)' \subseteq Queued(n) \cup {m} /\ Queued(n) \subseteq Queued(n)'
  <2>1. CASE queue' = queue
    <3>1. \A n \in Nodes : Queued(n)' = Queued(n)
      BY <2>1 DEF Queued
    <3>2. QED
      BY <3>1
  <2>2. CASE \E S \in SUBSET m.to : Spreads(m, S)
    <3>1. \A n \in Nodes : Queued(n)' = Queued(n) \cup {m} \/ Queued(n)' = Queued(n)
      BY <2>2 DEF Spreads
    <3>2. QED
      BY <3>1
  <2>3. QED
    BY <2>1, <2>2 DEF Delivers
<1>3. AllMessages' \subseteq AllMessages
  BY <1>1, <1>2 DEF AllMessages, Delivers
<1>4. QED
  BY <1>1, <1>2, <1>3

\* No message tells of a thread that has not begun.
LEMMA KnownThreadsInv ==
  ASSUME MachineInv, KnownThreads, [Next]_vars
  PROVE  KnownThreads'
<1>1. TypeOK
  BY DEF MachineInv
<1>2. next_thread_id \in Int /\ \A m \in Messages : m.thread \in Int
  BY <1>1, Costs DEF TypeOK, Messages, ThreadIds, NoThread
<1>3. \A m \in AllMessages : m.thread < next_thread_id /\ m.thread \in Int
  BY <1>1, <1>2, MessageTypes DEF KnownThreads
<1>4. CASE Quiet
  BY <1>1, <1>2, <1>3, <1>4, QuietMessages DEF KnownThreads, Quiet
<1>5. ASSUME NEW m, Sends(m) PROVE KnownThreads'
  <2>1. AllMessages' \subseteq AllMessages \cup {m} /\ next_thread_id' = next_thread_id
    BY <1>1, <1>5, SendsMessages DEF Sends
  <2>2. m.thread < next_thread_id
    BY <1>2, <1>5 DEF Sends, NoThread, MachineInv, LaterThreads
  <2>3. QED
    BY <1>3, <2>1, <2>2 DEF KnownThreads
<1>6. ASSUME NEW c, NEW op, NEW m, NEW t, Starts(c, op, m, t) PROVE KnownThreads'
  <2>1. AllMessages' \subseteq AllMessages
    BY <1>1, <1>6, StartsMessages
  <2>2. next_thread_id' = next_thread_id + 1
    BY <1>6 DEF Starts
  <2>3. QED
    BY <1>2, <1>3, <2>1, <2>2 DEF KnownThreads
<1>7. ASSUME NEW t, NEW m, Returns(t, m) PROVE KnownThreads'
  <2>1. /\ \A n \in Nodes : Queued(n)' = Queued(n)
        /\ m \in Served /\ Served' \subseteq Served
        /\ next_thread_id' = next_thread_id
    BY <1>1, <1>7, ReturnsMessages DEF Returns
  <2>2. \A k \in OnBuses' : k \in OnBuses \/ k.thread = m.thread
    BY <1>7 DEF Returns, OnBuses
  <2>3. \A k \in AllMessages' : k \in AllMessages \/ k.thread = m.thread
    BY <2>1, <2>2 DEF AllMessages
  <2>4. m \in AllMessages
    BY <2>1 DEF AllMessages
  <2>5. QED
    BY <1>3, <2>1, <2>3, <2>4 DEF KnownThreads
<1>8. ASSUME NEW m, Delivers(m) PROVE KnownThreads'
  BY <1>1, <1>3, <1>8, DeliversMessages DEF KnownThreads, Delivers
<1>9. QED
  BY <1>4, <1>5, <1>6, <1>7, <1>8, StepKinds

LEMMA InitKnownThreads == Init => KnownThreads
<1> SUFFICES ASSUME Init PROVE KnownThreads
  OBVIOUS
<1>1. OnBuses = {}
  BY DEF Init, OnBuses
<1>2. \A n \in Nodes : Queued(n) = {}
  BY DEF Init, Queued
<1>3. Served = {}
  BY DEF Init, Served, Serving, NewThread
<1>4. QED
  BY <1>1, <1>2, <1>3 DEF KnownThreads, AllMessages

\* MachineInv is kept by every step.
LEMMA NextMachineInv ==
  ASSUME MachineInv, KnownThreads, [Next]_vars
  PROVE  MachineInv'
<1>1. CASE UNCHANGED vars
  BY <1>1 DEF MachineInv, TypeOK, CurrentThread, LaterThreads, UniqueIds, Alive, vars
<1>2. CASE Instruction
  BY <1>2, WorkInv, SetGateInv, LocalCallInv, RemoteCallInv, BroadcastInv, StartNewThreadInv, SuccessInv
     DEF Instruction
<1>3. CASE Scheduler
  BY <1>3, EndSliceInv, CPUIdlesInv, RunMessageInv, RunThreadInv, CPUWaitsInv, BUSTurnInv, TransmitInv,
     EndOfBUSTurnInv DEF Scheduler
<1>4. QED
  BY <1>1, <1>2, <1>3 DEF Next

\* The conjunction that is inductive: MachineInv needs KnownThreads where a
\* response wakes its thread.
THEOREM MachineIsSound == Spec => [](MachineInv /\ KnownThreads)
<1>1. Init => MachineInv /\ KnownThreads
  BY InitMachineInv, InitKnownThreads
<1>2. MachineInv /\ KnownThreads /\ [Next]_vars => (MachineInv /\ KnownThreads)'
  BY NextMachineInv, KnownThreadsInv
<1>3. QED
  BY <1>1, <1>2, PTL DEF Spec

\* Every variable of the CPUs, the threads and the buses keeps its type: clocks
\* that the interpreter steps back (StepCPUTimeBack, StepBUSTimeBack) never become
\* negative, and curthread_m is a thread of the scheduler's map.
THEOREM TypeCorrect == Spec => []TypeOK
<1>1. MachineInv => TypeOK
  BY DEF MachineInv
<1>2. QED
  BY <1>1, MachineIsSound, PTL

-----------------------------------------------------------------------------
(* The clocks, the requests and the logs: no message is transmitted before   *)
(* its request, the log of a bus is in the order of time, and the work of a  *)
(* CPU is not undone.                                                        *)

-----------------------------------------------------------------------------
(* What a step does to the buses.                                            *)

BusesStay ==
  /\ UNCHANGED <<waiting, mes, lastuse, btime>>
  /\ turn' = turn \/ (turn.at # "bus" /\ turn'.at # "bus")

\* The message m and its request r are put on the bus b.
PutsRequest(b, m, r) ==
  /\ b \in Buses /\ m \in Messages /\ r \in Requests /\ r.id = m.id /\ r.time <= m.time
  /\ waiting' = [waiting EXCEPT ![b] = InsertByTime(@, r)]
  /\ mes' = [mes EXCEPT ![b] = @ \cup {m}]
  /\ btime' = [btime EXCEPT ![b] = StepBUSTimeBack(b, r.time)]
  /\ lastuse' = lastuse
  /\ turn.at # "bus" /\ turn'.at # "bus"

\* A broadcast is put on the bus b at time t.
PutsBroadcast(b, t) ==
  /\ b \in Buses /\ t \in Nat
  /\ \A d \in Buses : mes[d] \subseteq mes'[d]
  /\ waiting' = waiting
  /\ btime' = [btime EXCEPT ![b] = StepBUSTimeBack(b, t)]
  /\ lastuse' = lastuse
  /\ turn.at # "bus" /\ turn'.at # "bus"

LEMMA RemoteCallPuts ==
  ASSUME MachineInv, NEW n \in Nodes, NEW op \in Ops, RemoteCall(n, op)
  PROVE  \E b, m, r : PutsRequest(b, m, r)
<1> DEFINE m == NewCall("call", op, {n})
           b == BUSBetween(curcpu, n)
           r == [id |-> m.id, time |-> m.time]
<1>1. /\ m \in Messages /\ m.id \in MesIds /\ m.time \in Nat
  BY NewCallType, Executing DEF RemoteCall
<1>2. r \in Requests /\ r.id = m.id /\ r.time = m.time /\ r.time <= m.time
  BY <1>1 DEF Requests
<1>3. b \in Buses
  BY DEF BUSBetween, Buses
<1>4. turn.at # "bus" /\ turn' = turn
  BY DEF RemoteCall, Executes, ctlVars
<1>5. /\ waiting' = [waiting EXCEPT ![b] = InsertByTime(@, r)]
      /\ mes' = [mes EXCEPT ![b] = @ \cup {m}]
      /\ btime' = [btime EXCEPT ![b] = StepBUSTimeBack(b, m.time)]
      /\ lastuse' = lastuse
  BY DEF RemoteCall
<1> HIDE DEF b, m, r
<1>6. PutsRequest(b, m, r)
  BY <1>1, <1>2, <1>3, <1>4, <1>5 DEF PutsRequest
<1>7. QED
  BY <1>6

LEMMA BroadcastPuts ==
  ASSUME MachineInv, NEW op \in Ops, Broadcast(op)
  PROVE  \E b, t : PutsBroadcast(b, t)
<1> DEFINE m == NewCall("broadcast", op, CPUs \ {curcpu})
           b == IF curcpu = VCPU THEN VBUS ELSE BUS
<1>1. m.time \in Nat
  <2>1. CPUs \ {curcpu} \in SUBSET Nodes
    BY DEF Nodes
  <2>2. QED
    BY <2>1, NewCallType, Executing DEF Broadcast
<1>2. b \in Buses
  BY DEF Buses
<1>3. turn.at # "bus" /\ turn' = turn /\ lastuse' = lastuse /\ waiting' = waiting
  BY DEF Broadcast, Executes, ctlVars
<1>4. /\ mes' = IF m.to = {} THEN mes ELSE [mes EXCEPT ![b] = @ \cup {m}]
      /\ btime' = [btime EXCEPT ![b] = StepBUSTimeBack(b, m.time)]
  BY DEF Broadcast
<1> HIDE DEF b, m
<1>5. \A d \in Buses : mes[d] \subseteq mes'[d]
  BY <1>4 DEF MachineInv, TypeOK
<1>6. PutsBroadcast(b, m.time)
  BY <1>1, <1>2, <1>3, <1>4, <1>5 DEF PutsBroadcast
<1>7. QED
  BY <1>6

LEMMA SuccessPuts ==
  ASSUME MachineInv, Success
  PROVE  BusesStay \/ \E b, m, r : PutsRequest(b, m, r)
<1> DEFINE t == cur[curcpu]
           m == thr[t].serves
           b == BUSBetween(curcpu, m.from)
           r == [id |-> nextmesid + 1, time |-> Clock(curcpu)]
<1>1. /\ t \in ThreadIds /\ thr[t] \in ThreadInfos /\ b \in Buses /\ Clock(curcpu) \in Nat
  BY Executing DEF Success, BUSBetween, Buses
<1>2. turn.at # "bus" /\ turn'.at # "bus" /\ Executes
  BY DEF Success, Executes
<1>3. CASE UNCHANGED busVars
  BY <1>2, <1>3 DEF BusesStay, busVars
<1>4. CASE /\ IF m = NoMessage THEN FALSE ELSE m.thread # NoThread
           /\ nextmesid < 2 * MaxMes
           /\ waiting' = [waiting EXCEPT ![b] = InsertByTime(@, r)]
           /\ mes' = [mes EXCEPT ![b] = @ \cup {Response(m)}]
           /\ btime' = [btime EXCEPT ![b] = StepBUSTimeBack(b, Clock(curcpu))]
           /\ UNCHANGED lastuse
  <2>1. m \in Messages
    BY <1>1, <1>4 DEF ThreadInfos
  <2> HIDE DEF m, t
  <2>2. /\ Response(m) \in Messages /\ Response(m).id = nextmesid + 1
        /\ Response(m).time = Clock(curcpu) + Duration(b)
    BY <1>2, <1>4, <2>1, ResponseType DEF b
  <2>3. r.time <= Response(m).time
    BY <1>1, <2>2, DurationType
  <2>4. r \in Requests /\ r.id = Response(m).id /\ r.time = Clock(curcpu)
    <3>1. nextmesid + 1 \in MesIds
      BY <2>2 DEF Messages
    <3>2. QED
      BY <1>1, <2>2, <3>1 DEF Requests
  <2> HIDE DEF b, r
  <2>5. PutsRequest(b, Response(m), r)
    BY <1>1, <1>2, <1>4, <2>2, <2>3, <2>4 DEF PutsRequest
  <2>6. QED
    BY <2>5
<1>5. QED
  BY <1>3, <1>4 DEF Success

LEMMA SelAndRunThreadTurn ==
  ASSUME TypeOK, NEW info \in InfosType, NEW c \in Nodes, NEW t \in Nat, NEW blocked,
         SelAndRunThread(info, c, t, blocked)
  PROVE  turn'.at # "bus"
BY SelAndRunThreadSelects DEF Selects

LEMMA LocalCallStays ==
  ASSUME MachineInv, LocalCall
  PROVE  BusesStay
<1> DEFINE t == IncrAbsTime(curcpu, time[curcpu], GuardTime)
           info == [thr EXCEPT ![cur[curcpu]].status = "Blocked"]
<1>1. /\ cur[curcpu] \in ThreadIds /\ thr[cur[curcpu]] \in ThreadInfos /\ curcpu \in Nodes
      /\ t \in Nat
  BY Executing, IncrAbsTimeType, Costs DEF LocalCall, MachineInv
<1>2. UNCHANGED <<waiting, mes, lastuse, btime>> /\ turn.at # "bus"
  BY DEF LocalCall, busVars, Executes
<1>3. CASE turn' = turn
  BY <1>2, <1>3 DEF BusesStay
<1>4. CASE SelAndRunThread(info, curcpu, t, cpusblocked)
  <2>1. [thr[cur[curcpu]] EXCEPT !.status = "Blocked"] \in ThreadInfos
    BY <1>1 DEF ThreadInfos
  <2>2. info = [thr EXCEPT ![cur[curcpu]] = [thr[cur[curcpu]] EXCEPT !.status = "Blocked"]]
    OBVIOUS
  <2>3. info \in InfosType
    BY <1>1, <2>1, <2>2 DEF MachineInv, TypeOK, InfosType
  <2> HIDE DEF info, t
  <2>4. turn'.at # "bus"
    BY <1>1, <1>4, <2>3, SelAndRunThreadTurn DEF MachineInv
  <2>5. QED
    BY <1>2, <2>4 DEF BusesStay
<1>5. QED
  BY <1>3, <1>4 DEF LocalCall

LEMMA RunThreadStays ==
  ASSUME MachineInv, NEW c \in Nodes, RunThread(c)
  PROVE  BusesStay
<1>1. /\ SelAndRunThread(thr, c, time[c], cpusblocked \ {c})
      /\ UNCHANGED <<waiting, mes, lastuse, btime>> /\ turn.at # "bus"
  BY DEF RunThread, CPUTurn, busVars
<1>2. thr \in InfosType /\ time[c] \in Nat
  BY DEF MachineInv, TypeOK, InfosType
<1>3. turn'.at # "bus"
  BY <1>1, <1>2, SelAndRunThreadTurn DEF MachineInv
<1>4. QED
  BY <1>1, <1>3 DEF BusesStay

LEMMA BusKinds ==
  ASSUME MachineInv, [Next]_vars
  PROVE  \/ BusesStay
         \/ \E b, m, r : PutsRequest(b, m, r)
         \/ \E b, t : PutsBroadcast(b, t)
         \/ \E b \in Buses : BUSTurn(b)
         \/ Transmit
         \/ EndOfBUSTurn
<1>1. CASE UNCHANGED vars
  BY <1>1 DEF vars, BusesStay
<1>2. ASSUME NEW d \in Durations, Work(d) PROVE BusesStay
  BY <1>2 DEF Work, busVars, ctlVars, BusesStay
<1>3. ASSUME NEW v \in BOOLEAN, SetGate(v) PROVE BusesStay
  BY <1>3 DEF SetGate, busVars, ctlVars, BusesStay
<1>4. ASSUME NEW n \in Nodes, StartNewThread(n) PROVE BusesStay
  BY <1>4 DEF StartNewThread, busVars, ctlVars, BusesStay
<1>5. CASE EndSlice
  BY <1>5 DEF EndSlice, busVars, BusesStay
<1>6. ASSUME NEW c \in Nodes, CPUIdles(c) PROVE BusesStay
  BY <1>6 DEF CPUIdles, busVars, ctlVars, BusesStay
<1>7. ASSUME NEW c \in Nodes, CPUWaits(c) PROVE BusesStay
  BY <1>7 DEF CPUWaits, CPUTurn, busVars, BusesStay
<1>8. ASSUME NEW c \in Nodes, RunMessage(c) PROVE BusesStay
  BY <1>8 DEF RunMessage, CPUTurn, busVars, BusesStay
<1>9. CASE Instruction
  BY <1>2, <1>3, <1>4, <1>9, LocalCallStays, RemoteCallPuts, BroadcastPuts, SuccessPuts DEF Instruction
<1>10. CASE Scheduler
  BY <1>5, <1>6, <1>7, <1>8, <1>10, RunThreadStays DEF Scheduler
<1>11. QED
  BY <1>1, <1>9, <1>10 DEF Next

-----------------------------------------------------------------------------
(* Requests come first.                                                      *)

RequestsInOrder == \A b \in Buses : OrderedByTime(waiting[b])

\* Every request in "s" belongs to a message in "ms" that is not due before it.
Belong(s, ms) ==
  \A i \in DOMAIN s : \E m \in ms : m.id = s[i].id /\ m.time >= s[i].time

LEMMA BelongToBuses == RequestsComeFirst <=> \A b \in Buses : Belong(waiting[b], mes[b])
BY DEF RequestsComeFirst, Belong

LEMMA BelongElements ==
  ASSUME NEW s, NEW ms
  PROVE  Belong(s, ms) <=> \A r \in Elements(s) : \E m \in ms : m.id = r.id /\ m.time >= r.time
BY DEF Belong, Elements

LEMMA PutsRequestInOrder ==
  ASSUME TypeOK, RequestsInOrder, RequestsComeFirst, NEW b, NEW m, NEW r, PutsRequest(b, m, r)
  PROVE  RequestsInOrder' /\ RequestsComeFirst'
<1>1. /\ b \in Buses /\ r \in Requests /\ r.id = m.id /\ m.time >= r.time
      /\ waiting[b] \in Seq(Requests) /\ \A x \in Requests : x.time \in Nat
  BY DEF PutsRequest, TypeOK, Requests, Messages
<1>2. \A d \in Buses : waiting'[d] = IF d = b THEN InsertByTime(waiting[d], r) ELSE waiting[d]
  BY DEF PutsRequest, TypeOK
<1>3. \A d \in Buses : mes'[d] = IF d = b THEN mes[d] \cup {m} ELSE mes[d]
  BY DEF PutsRequest, TypeOK
<1>4. OrderedByTime(InsertByTime(waiting[b], r))
  BY <1>1, InsertByTimeOrder DEF RequestsInOrder
<1>5. RequestsInOrder'
  BY <1>2, <1>4 DEF RequestsInOrder
<1>6. Elements(InsertByTime(waiting[b], r)) = Elements(waiting[b]) \cup {r}
  BY <1>1, InsertByTimeElements
<1>7. Belong(InsertByTime(waiting[b], r), mes[b] \cup {m})
  <2>1. \A x \in Elements(waiting[b]) : \E k \in mes[b] : k.id = x.id /\ k.time >= x.time
    BY <1>1, BelongToBuses, BelongElements
  <2>2. \A x \in Elements(InsertByTime(waiting[b], r)) :
          \E k \in mes[b] \cup {m} : k.id = x.id /\ k.time >= x.time
    BY <1>1, <1>6, <2>1
  <2>3. QED
    BY <2>2, BelongElements
<1>8. \A d \in Buses : Belong(waiting'[d], mes'[d])
  BY <1>2, <1>3, <1>7, BelongToBuses
<1>9. QED
  BY <1>5, <1>8, BelongToBuses DEF RequestsComeFirst, Belong

\* The requests that Transmit logs are those in front, up to the time of the message.
LEMMA RequestedInFront ==
  ASSUME TypeOK, RequestsInOrder, NEW b \in Buses, NEW m \in Messages
  PROVE  Requested(b, m) = 1 .. Cardinality(Requested(b, m))
<1> DEFINE n == Len(waiting[b])
<1>1. waiting[b] \in Seq(Requests) /\ n \in Nat /\ DOMAIN waiting[b] = 1 .. n
  BY LenProperties DEF TypeOK
<1>2. \A i \in 1 .. n : waiting[b][i].time \in Nat
  <2>1. \A i \in 1 .. n : waiting[b][i] \in Requests
    BY <1>1, ElementOfSeq
  <2>2. QED
    BY <2>1 DEF Requests
<1>3. m.time \in Nat
  BY DEF Messages
<1>4. \A i, j \in 1 .. n : j <= i => waiting[b][j].time <= waiting[b][i].time
  BY <1>1 DEF RequestsInOrder, OrderedByTime
<1> HIDE DEF n
<1>5. Requested(b, m) = {i \in 1 .. n : waiting[b][i].time <= m.time}
  BY <1>1 DEF Requested
<1>6. \A i \in Requested(b, m), j \in 1 .. n : j <= i => j \in Requested(b, m)
  BY <1>2, <1>3, <1>4, <1>5
<1>7. Requested(b, m) \in SUBSET (1 .. n)
  BY <1>5
<1>8. QED
  BY <1>1, <1>6, <1>7, ClosedToTheFront

LEMMA TransmitInOrder ==
  ASSUME MachineInv, RequestsInOrder, RequestsComeFirst, Transmit
  PROVE  RequestsInOrder' /\ RequestsComeFirst'
<1>1. PICK b, m, n, done : TransmitFacts(b, m, n, done)
  BY TransmitSteps
<1>2. /\ b \in Buses /\ m \in Messages /\ m.time \in Nat
      /\ n = Cardinality(Requested(b, m)) /\ n \in 0 .. Len(waiting[b])
      /\ waiting[b] \in Seq(Requests)
      /\ waiting' = [waiting EXCEPT ![b] = SubSeq(@, n + 1, Len(@))]
      /\ mes' = [mes EXCEPT ![b] = @ \ {m}]
  BY <1>1 DEF TransmitFacts, Messages
<1> DEFINE l == Len(waiting[b])
           rest == SubSeq(waiting[b], n + 1, l)
<1>3. /\ l \in Nat /\ n \in Nat /\ DOMAIN waiting[b] = 1 .. l
      /\ \A i \in 1 .. l : waiting[b][i] \in Requests /\ waiting[b][i].time \in Nat
  <2>1. l \in Nat /\ n \in Nat /\ DOMAIN waiting[b] = 1 .. l
    BY <1>2, LenProperties
  <2>2. \A i \in 1 .. l : waiting[b][i] \in Requests
    BY <1>2, ElementOfSeq
  <2>3. \A x \in Requests : x.time \in Nat
    BY DEF Requests
  <2>4. QED
    BY <2>1, <2>2, <2>3
<1>4. \A i \in 1 .. l : i > n => waiting[b][i].time > m.time
  <2>1. Requested(b, m) = 1 .. n
    BY <1>2, RequestedInFront DEF MachineInv
  <2>2. \A i \in 1 .. l : waiting[b][i].time <= m.time => i \in 1 .. n
    BY <1>3, <2>1 DEF Requested
  <2>3. QED
    BY <1>2, <1>3, <2>2
<1>5. /\ DOMAIN rest = 1 .. l - n
      /\ \A i \in 1 .. l - n : rest[i] = waiting[b][n + i] /\ n + i \in 1 .. l /\ n + i > n
  <2>1. l \in 0 .. l /\ n + 1 \in Int /\ n <= l
    BY <1>2, <1>3
  <2>2. \A i \in n + 1 .. l : waiting[b][i] \in Requests
    BY <1>3
  <2>3. /\ rest \in Seq(Requests)
        /\ Len(rest) = IF n + 1 <= l THEN l - (n + 1) + 1 ELSE 0
        /\ \A i \in 1 .. l - (n + 1) + 1 : rest[i] = waiting[b][n + 1 + i - 1]
    BY <1>3, <2>1, <2>2, SubSeqProperties
  <2>4. Len(rest) = l - n
    BY <1>3, <2>1, <2>3
  <2>5. l - (n + 1) + 1 = l - n /\ \A i \in 1 .. l - n : n + 1 + i - 1 = n + i /\ n + i \in 1 .. l /\ n + i > n
    BY <1>3
  <2> HIDE DEF rest
  <2>6. DOMAIN rest = 1 .. Len(rest)
    BY <2>3, LenProperties
  <2>7. \A i \in 1 .. l - n : rest[i] = waiting[b][n + i]
    BY <2>3, <2>5
  <2>8. QED
    BY <2>4, <2>5, <2>6, <2>7
<1> HIDE DEF rest, l
<1>6. /\ \A d \in Buses : waiting'[d] = IF d = b THEN rest ELSE waiting[d]
      /\ \A d \in Buses : mes'[d] = IF d = b THEN mes[d] \ {m} ELSE mes[d]
  BY <1>2 DEF MachineInv, TypeOK, rest, l
<1>7. OrderedByTime(rest)
  <2>1. \A i, j \in 1 .. l : i <= j => waiting[b][i].time <= waiting[b][j].time
    BY <1>2, <1>3 DEF RequestsInOrder, OrderedByTime
  <2>2. \A i, j \in 1 .. l - n : i <= j => n + i <= n + j
    BY <1>3
  <2>3. QED
    BY <1>5, <2>1, <2>2 DEF OrderedByTime
<1>8. Belong(rest, mes[b] \ {m})
  <2>1. ASSUME NEW i \in 1 .. l - n
        PROVE  \E k \in mes[b] \ {m} : k.id = rest[i].id /\ k.time >= rest[i].time
    <3>1. rest[i] = waiting[b][n + i] /\ n + i \in 1 .. l /\ n + i > n
      BY <1>5
    <3>2. PICK k \in mes[b] : k.id = waiting[b][n + i].id /\ k.time >= waiting[b][n + i].time
      BY <1>2, <1>3, <3>1 DEF RequestsComeFirst
    <3>3. waiting[b][n + i].time > m.time /\ waiting[b][n + i].time \in Nat
      BY <1>3, <1>4, <3>1
    <3>4. k.time \in Nat
      BY <1>2 DEF MachineInv, TypeOK, Messages
    <3>5. k # m
      BY <1>2, <3>2, <3>3, <3>4
    <3>6. QED
      BY <3>1, <3>2, <3>5
  <2>2. QED
    BY <1>5, <2>1 DEF Belong
<1>9. RequestsInOrder'
  BY <1>6, <1>7 DEF RequestsInOrder
<1>10. \A d \in Buses : Belong(waiting'[d], mes'[d])
  BY <1>6, <1>8, BelongToBuses
<1>11. QED
  BY <1>9, <1>10 DEF RequestsComeFirst, Belong

LEMMA NextInOrder ==
  ASSUME MachineInv, RequestsInOrder, RequestsComeFirst, [Next]_vars
  PROVE  RequestsInOrder' /\ RequestsComeFirst'
<1>1. CASE BusesStay
  BY <1>1 DEF BusesStay, RequestsInOrder, RequestsComeFirst
<1>2. ASSUME NEW b, NEW m, NEW r, PutsRequest(b, m, r) PROVE RequestsInOrder' /\ RequestsComeFirst'
  BY <1>2, PutsRequestInOrder DEF MachineInv
<1>3. ASSUME NEW b, NEW t, PutsBroadcast(b, t) PROVE RequestsInOrder' /\ RequestsComeFirst'
  <2>1. waiting' = waiting /\ \A d \in Buses : mes[d] \subseteq mes'[d]
    BY <1>3 DEF PutsBroadcast
  <2>2. QED
    BY <2>1 DEF RequestsInOrder, RequestsComeFirst
<1>4. ASSUME NEW b \in Buses, BUSTurn(b) PROVE RequestsInOrder' /\ RequestsComeFirst'
  BY <1>4 DEF BUSTurn, RequestsInOrder, RequestsComeFirst
<1>5. CASE EndOfBUSTurn
  BY <1>5 DEF EndOfBUSTurn, RequestsInOrder, RequestsComeFirst
<1>6. QED
  BY <1>1, <1>2, <1>3, <1>4, <1>5, TransmitInOrder, BusKinds

\* A request that is not logged yet belongs to a message that is on the same bus
\* and is not due before it, so that the loop of ProcessBUS always finds a first
\* message, and logs its request before it.
THEOREM RequestsAreFirst == Spec => []RequestsComeFirst
<1>1. Init => RequestsInOrder /\ RequestsComeFirst
  BY DEF Init, RequestsInOrder, RequestsComeFirst, OrderedByTime
<1>2. MachineInv /\ RequestsInOrder /\ RequestsComeFirst /\ [Next]_vars
        => RequestsInOrder' /\ RequestsComeFirst'
  BY NextInOrder
<1>3. QED
  BY <1>1, <1>2, MachineIsSound, PTL DEF Spec

-----------------------------------------------------------------------------
(* The log of a bus.                                                         *)

\* A bus was last used before its time, which is newt while it has its turn.
BusClock ==
  \A b \in Buses : lastuse[b] <= IF turn.at = "bus" /\ turn.bus = b THEN turn.newt ELSE btime[b]

LEMMA BusClockInit ==
  ASSUME Init
  PROVE  BusClock
<1>1. \A b \in Buses : lastuse[b] = -1 /\ btime[b] = 0
  BY DEF Init
<1>2. turn.at # "bus"
  BY DEF Init
<1>3. QED
  BY <1>1, <1>2 DEF BusClock

LEMMA SteppedBack ==
  ASSUME TypeOK, BusClock, NEW b \in Buses, NEW t \in Nat, turn.at # "bus", turn'.at # "bus",
         btime' = [btime EXCEPT ![b] = StepBUSTimeBack(b, t)], lastuse' = lastuse
  PROVE  BusClock'
<1>1. \A d \in Buses : lastuse[d] \in Nat \cup {-1} /\ btime[d] \in Nat /\ lastuse[d] <= btime[d]
  BY DEF TypeOK, BusClock
<1>2. lastuse[b] <= StepBUSTimeBack(b, t)
  BY <1>1 DEF StepBUSTimeBack
<1>3. \A d \in Buses : btime'[d] = IF d = b THEN StepBUSTimeBack(b, t) ELSE btime[d]
  BY DEF TypeOK
<1>4. QED
  BY <1>1, <1>2, <1>3 DEF BusClock

LEMMA TransmitBusClock ==
  ASSUME MachineInv, BusClock, Transmit
  PROVE  BusClock' /\ \A b \in Buses : lastuse'[b] >= lastuse[b]
<1>1. PICK b, m, n, done : TransmitFacts(b, m, n, done)
  BY TransmitSteps
<1> DEFINE newt == TimeOfRequests(b, m)
<1>2. /\ b \in Buses /\ m.time \in Nat /\ n \in Nat /\ newt \in Nat /\ Duration(b) \in Nat
      /\ newt >= IF n = 0 THEN turn.newt ELSE lastuse[b]
      /\ done = MaxVal(newt, m.time) + Duration(b)
  BY <1>1, DurationType, LenProperties DEF TransmitFacts, Messages
<1>3. turn.at = "bus" /\ turn.bus = b /\ turn'.at = "bus" /\ turn'.bus = b /\ turn'.newt = done
  BY <1>1 DEF TransmitFacts
<1>4. lastuse' = [lastuse EXCEPT ![b] = newt + Duration(b)] /\ btime' = btime
  BY <1>1 DEF TransmitFacts
<1> HIDE DEF newt
<1>5. \A d \in Buses : lastuse[d] \in Nat \cup {-1} /\ btime[d] \in Nat
  BY DEF MachineInv, TypeOK
<1>6. lastuse[b] <= turn.newt /\ \A d \in Buses : d # b => lastuse[d] <= btime[d]
  BY <1>2, <1>3 DEF BusClock
<1>7. turn.newt \in Nat
  BY <1>1, Transmitting
<1>8. newt >= lastuse[b]
  BY <1>2, <1>5, <1>6, <1>7
<1>9. newt + Duration(b) >= lastuse[b] /\ newt + Duration(b) <= done
  BY <1>2, <1>5, <1>8 DEF MaxVal
<1>10. \A d \in Buses : lastuse'[d] = IF d = b THEN newt + Duration(b) ELSE lastuse[d]
  BY <1>4 DEF MachineInv, TypeOK
<1>11. \A d \in Buses : lastuse'[d] >= lastuse[d]
  BY <1>5, <1>9, <1>10
<1>12. BusClock'
  BY <1>3, <1>4, <1>6, <1>9, <1>10 DEF BusClock
<1>13. QED
  BY <1>11, <1>12

LEMMA NextBusClock ==
  ASSUME MachineInv, BusClock, [Next]_vars
  PROVE  BusClock' /\ \A b \in Buses : lastuse'[b] >= lastuse[b]
<1>1. \A b \in Buses : lastuse[b] \in Int /\ btime[b] \in Nat
  BY DEF MachineInv, TypeOK
<1>2. CASE lastuse' = lastuse /\ BusClock'
  BY <1>1, <1>2
<1>3. CASE BusesStay
  BY <1>1, <1>2, <1>3 DEF BusesStay, BusClock
<1>4. ASSUME NEW b, NEW m, NEW r, PutsRequest(b, m, r) PROVE BusClock' /\ lastuse' = lastuse
  BY <1>4, SteppedBack DEF PutsRequest, MachineInv, Requests
<1>5. ASSUME NEW b, NEW t, PutsBroadcast(b, t) PROVE BusClock' /\ lastuse' = lastuse
  BY <1>5, SteppedBack DEF PutsBroadcast, MachineInv
<1>6. ASSUME NEW b \in Buses, BUSTurn(b) PROVE BusClock' /\ lastuse' = lastuse
  <2> DEFINE s == SwapTime(btime, b, Smallest(CPUClock))
  <2>1. turn.at # "bus" /\ lastuse' = lastuse
    BY <1>6 DEF BUSTurn
  <2>2. \A d \in Buses : lastuse[d] <= btime[d]
    BY <2>1 DEF BusClock
  <2>3. CASE btime' = [btime EXCEPT ![b] = @ + StepSize] /\ turn' = turn
    <3>1. \A d \in Buses : btime'[d] = IF d = b THEN btime[d] + StepSize ELSE btime[d]
      BY <2>3 DEF MachineInv, TypeOK
    <3>2. \A d \in Buses : btime'[d] >= btime[d] /\ btime'[d] \in Nat
      BY <1>1, <3>1, Costs
    <3>3. \A d \in Buses : lastuse[d] <= btime'[d]
      BY <1>1, <2>2, <3>2
    <3>4. QED
      BY <2>1, <2>3, <3>3 DEF BusClock
  <2>4. CASE turn' = [at |-> "bus", bus |-> b, newt |-> btime[b], swapt |-> s] /\ btime' = btime
    <3>1. turn'.at = "bus" /\ turn'.bus = b /\ turn'.newt = btime[b]
      BY <2>4
    <3>2. QED
      BY <2>1, <2>2, <2>4, <3>1 DEF BusClock
  <2>5. QED
    BY <1>6, <2>3, <2>4 DEF BUSTurn
<1>7. CASE EndOfBUSTurn
  <2>1. /\ turn.at = "bus" /\ turn'.at = "sched" /\ lastuse' = lastuse
        /\ btime' = [btime EXCEPT ![turn.bus] = turn.newt]
    BY <1>7 DEF EndOfBUSTurn
  <2>2. \A d \in Buses : btime'[d] = IF d = turn.bus THEN turn.newt ELSE btime[d]
    BY <2>1 DEF MachineInv, TypeOK
  <2>3. BusClock'
    BY <2>1, <2>2 DEF BusClock
  <2>4. QED
    BY <1>2, <2>1, <2>3
<1>8. QED
  BY <1>2, <1>3, <1>4, <1>5, <1>6, <1>7, TransmitBusClock, BusKinds

\* The log of a bus is in the order of time: between turns StepBUSTimeBack never
\* takes the time of a bus back before its last use, and within a turn the
\* requests are logged after it.
THEOREM LogsAreOrdered == Spec => LogIsOrdered
<1>1. Init => BusClock
  BY BusClockInit
<1>2. MachineInv /\ BusClock /\ [Next]_vars => BusClock' /\ \A b \in Buses : lastuse'[b] >= lastuse[b]
  BY NextBusClock
<1>3. MachineInv /\ BusClock /\ [Next]_vars => BusClock' /\ [\A b \in Buses : lastuse'[b] >= lastuse[b]]_vars
  BY <1>2
<1>4. QED
  BY <1>1, <1>3, MachineIsSound, PTL DEF Spec, LogIsOrdered

-----------------------------------------------------------------------------
(* The work of a CPU.                                                        *)

\* The time of no CPU moves back.
Onward == \A c \in Nodes : time'[c] >= time[c]

LEMMA OneOnward ==
  ASSUME TypeOK, NEW c \in Nodes, NEW u \in Nat, u >= time[c], time' = [time EXCEPT ![c] = u]
  PROVE  Onward
<1>1. \A d \in Nodes : time[d] \in Nat /\ time'[d] = IF d = c THEN u ELSE time[d]
  BY DEF TypeOK
<1>2. QED
  BY <1>1 DEF Onward

LEMMA SameOnward ==
  ASSUME TypeOK, time' = time
  PROVE  Onward
BY DEF TypeOK, Onward

LEMMA LocalCallOnward ==
  ASSUME MachineInv, LocalCall
  PROVE  Onward
<1> DEFINE t == IncrAbsTime(curcpu, time[curcpu], GuardTime)
           info == [thr EXCEPT ![cur[curcpu]].status = "Blocked"]
<1>1. /\ cur[curcpu] \in ThreadIds /\ thr[cur[curcpu]] \in ThreadInfos /\ curcpu \in Nodes
      /\ t \in Nat /\ t >= time[curcpu] /\ time[curcpu] \in Nat
  BY Executing, IncrAbsTimeType, Costs DEF LocalCall, MachineInv
<1> HIDE DEF t
<1>2. CASE time' = [time EXCEPT ![curcpu] = t]
  BY <1>1, <1>2, OneOnward DEF MachineInv
<1>3. CASE SelAndRunThread(info, curcpu, t, cpusblocked)
  <2>1. [thr[cur[curcpu]] EXCEPT !.status = "Blocked"] \in ThreadInfos
    BY <1>1 DEF ThreadInfos
  <2>2. info = [thr EXCEPT ![cur[curcpu]] = [thr[cur[curcpu]] EXCEPT !.status = "Blocked"]]
    OBVIOUS
  <2>3. info \in InfosType
    BY <1>1, <2>1, <2>2 DEF MachineInv, TypeOK, InfosType
  <2> HIDE DEF info
  <2>4. PICK u \in Nat : u >= t /\ time' = [time EXCEPT ![curcpu] = u]
    BY <1>1, <1>3, <2>3, SelAndRunThreadSelects DEF MachineInv
  <2>5. u >= time[curcpu]
    BY <1>1, <2>4
  <2>6. QED
    BY <1>1, <2>4, <2>5, OneOnward DEF MachineInv
<1>4. QED
  BY <1>2, <1>3 DEF LocalCall, t

LEMMA RunThreadOnward ==
  ASSUME MachineInv, NEW c \in Nodes, RunThread(c)
  PROVE  Onward
<1>1. SelAndRunThread(thr, c, time[c], cpusblocked \ {c})
  BY DEF RunThread
<1>2. thr \in InfosType /\ time[c] \in Nat
  BY DEF MachineInv, TypeOK, InfosType
<1>3. PICK u \in Nat : u >= time[c] /\ time' = [time EXCEPT ![c] = u]
  BY <1>1, <1>2, SelAndRunThreadSelects DEF MachineInv
<1>4. QED
  BY <1>3, OneOnward DEF MachineInv

LEMMA RunMessageOnward ==
  ASSUME MachineInv, NEW c \in Nodes, RunMessage(c)
  PROVE  Onward
<1>1. /\ time[c] \in Nat /\ idle[c] \in Nat
      /\ SwapOut(c, time[c]) \in Nat /\ SwapOut(c, time[c]) >= time[c]
  BY ClockType, SwapOutType DEF MachineInv
<1> DEFINE u == MaxVal(SwapOut(c, time[c]), idle[c])
<1>2. u \in Nat /\ u >= time[c]
  BY <1>1 DEF MaxVal
<1>3. time' = [time EXCEPT ![c] = u]
  BY DEF RunMessage
<1> HIDE DEF u
<1>4. QED
  BY <1>2, <1>3, OneOnward DEF MachineInv

LEMMA TransmitOnward ==
  ASSUME MachineInv, Transmit
  PROVE  Onward
<1>1. PICK b, m, n, done : TransmitFacts(b, m, n, done)
  BY TransmitSteps
<1>2. done \in Nat /\ m.to \in SUBSET Nodes
  BY <1>1 DEF TransmitFacts, Messages
<1>3. CASE \E c \in m.to : StepsBack(c, done)
  BY <1>2, <1>3, StepsBackType DEF MachineInv, Onward
<1>4. CASE time' = time
  BY <1>4, SameOnward DEF MachineInv
<1>5. QED
  BY <1>1, <1>3, <1>4 DEF TransmitFacts, DeliversResponse, DeliversCall, DeliversBroadcast

LEMMA NextOnward ==
  ASSUME MachineInv, [Next]_vars
  PROVE  Onward
<1>1. TypeOK
  BY DEF MachineInv
<1>2. CASE UNCHANGED vars
  BY <1>1, <1>2, SameOnward DEF vars
<1>3. ASSUME NEW d \in Durations, Work(d) PROVE Onward
  <2>1. d \in Nat /\ curcpu \in Nodes /\ time[curcpu] \in Nat
    BY <1>3, ViceAssumption, Executing DEF Work
  <2>2. IncrAbsTime(curcpu, time[curcpu], d) \in Nat /\ IncrAbsTime(curcpu, time[curcpu], d) >= time[curcpu]
    BY <1>1, <2>1, IncrAbsTimeType
  <2>3. QED
    BY <1>1, <1>3, <2>1, <2>2, OneOnward DEF Work
<1>4. ASSUME NEW v \in BOOLEAN, SetGate(v) PROVE Onward
  BY <1>1, <1>4, SameOnward DEF SetGate
<1>5. ASSUME NEW n \in Nodes, NEW op \in Ops, RemoteCall(n, op) PROVE Onward
  BY <1>1, <1>5, SameOnward DEF RemoteCall, cpuVars
<1>6. ASSUME NEW op \in Ops, Broadcast(op) PROVE Onward
  BY <1>1, <1>6, SameOnward DEF Broadcast, cpuVars
<1>7. ASSUME NEW n \in Nodes, StartNewThread(n) PROVE Onward
  BY <1>1, <1>7, OneOnward, ClockType DEF StartNewThread
<1>8. CASE Success
  <2>1. curcpu \in Nodes /\ time[curcpu] \in Nat
    BY <1>8, Executing DEF Success
  <2>2. SwapOut(curcpu, time[curcpu]) \in Nat /\ SwapOut(curcpu, time[curcpu]) >= time[curcpu]
    BY <1>1, <2>1, SwapOutType
  <2>3. time' = [time EXCEPT ![curcpu] = SwapOut(curcpu, time[curcpu])]
    BY <1>8 DEF Success
  <2>4. QED
    BY <1>1, <2>1, <2>2, <2>3, OneOnward
<1>9. CASE EndSlice
  BY <1>1, <1>9, SameOnward DEF EndSlice, cpuVars
<1>10. ASSUME NEW c \in Nodes, CPUIdles(c) PROVE Onward
  BY <1>1, <1>10, SameOnward DEF CPUIdles
<1>11. ASSUME NEW c \in Nodes, CPUWaits(c) PROVE Onward
  BY <1>1, <1>11, SameOnward DEF CPUWaits
<1>12. ASSUME NEW b \in Buses, BUSTurn(b) PROVE Onward
  BY <1>1, <1>12, SameOnward DEF BUSTurn, cpuVars
<1>13. CASE EndOfBUSTurn
  BY <1>1, <1>13, SameOnward DEF EndOfBUSTurn, cpuVars
<1>14. CASE Instruction
  BY <1>3, <1>4, <1>5, <1>6, <1>7, <1>8, <1>14, LocalCallOnward DEF Instruction
<1>15. CASE Scheduler
  BY <1>9, <1>10, <1>11, <1>12, <1>13, <1>15, RunMessageOnward, RunThreadOnward, TransmitOnward
     DEF Scheduler
<1>16. QED
  BY <1>2, <1>14, <1>15 DEF Next

\* The time that a CPU has worked until never moves back, in any interleaving of
\* turns: StepCPUTimeBack gives back only what is idle time.
THEOREM WorkStaysDone == Spec => WorkIsNeverUndone
<1>1. MachineInv /\ [Next]_vars => [\A c \in Nodes : time'[c] >= time[c]]_vars
  BY NextOnward DEF Onward
<1>2. QED
  BY <1>1, MachineIsSound, PTL DEF Spec, WorkIsNeverUndone
=============================================================================
