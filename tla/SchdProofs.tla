----------------------------- MODULE SchdProofs -----------------------------
(***************************************************************************)
(* Theorems about the scheduler, for every program, configuration and      *)
(* number of threads.                                                      *)
(***************************************************************************)
EXTENDS Schd, SequenceTheorems, FiniteSetTheorems, WellFoundedInduction, TLAPS

-----------------------------------------------------------------------------
(* FindNextThread is well defined: a nonempty set of candidates has a first *)
(* one.  The orders are mapped to the naturals, whose least-element         *)
(* principle comes from the well-foundedness of <.                          *)

LessThan == {p \in Nat \X Nat : p[1] < p[2]}

LEMMA LessThanIsWellFounded == IsWellFoundedOn(LessThan, Nat)
<1>1. OpToRel(<, Nat) = LessThan
  BY DEF OpToRel, LessThan
<1>2. QED
  BY <1>1, NatLessThanWellFounded

LEMMA LeastElement ==
  ASSUME NEW S \in SUBSET Nat, S # {}
  PROVE  \E m \in S : \A k \in S : m <= k
<1>1. PICK m \in S : \A k \in S : ~ (<<k, m>> \in LessThan)
  BY LessThanIsWellFounded, WFMin, Zenon
<1>2. ASSUME NEW k \in S PROVE m <= k
  <2>1. m \in Nat /\ k \in Nat
    OBVIOUS
  <2>2. k < m => <<k, m>> \in LessThan
    BY <2>1 DEF LessThan
  <2>3. QED
    BY <1>1, <2>1, <2>2
<1>3. QED
  BY <1>2

\* The place of t in the list of SortSelectedThreads when c is current.
Place(c, t) == IF t > c THEN t ELSE t + MaxThreads

LEMMA RoundRobinFirst ==
  ASSUME NEW S \in SUBSET ThreadIds, S # {}, NEW c \in ThreadIds
  PROVE  \E t \in S : \A u \in S : RoundRobinBefore(c, t, u)
<1> DEFINE places == {Place(c, t) : t \in S}
<1>0. MaxThreads \in Nat
  BY SchdAssumption
<1>1. places \in SUBSET Nat /\ places # {}
  <2>1. \A t \in S : Place(c, t) \in Nat
    BY <1>0 DEF ThreadIds, Place
  <2>2. QED
    BY <2>1
<1>2. PICK m \in places : \A k \in places : m <= k
  BY <1>1, LeastElement
<1>3. PICK t \in S : Place(c, t) = m
  BY <1>2
<1>4. ASSUME NEW u \in S PROVE RoundRobinBefore(c, t, u)
  <2>1. Place(c, t) <= Place(c, u)
    BY <1>2, <1>3
  <2>2. t \in Int /\ u \in Int /\ c \in Int /\ t <= MaxThreads /\ u <= MaxThreads
        /\ t > 0 /\ u > 0 /\ MaxThreads \in Int
    BY <1>0 DEF ThreadIds
  <2>3. QED
    BY <2>1, <2>2 DEF Place, RoundRobinBefore
<1>5. QED
  BY <1>4

LEMMA FirstCandidate ==
  ASSUME NEW thr \in SUBSET ThreadIds, NEW inf \in [ThreadIds -> ThreadInfos],
         NEW c \in ThreadIds, NEW h, NEW iv, maxPriority \in Nat,
         Candidates(thr, inf, h, iv) # {}
  PROVE  LET n == FindNextThread(thr, inf, c, h, iv)
         IN  /\ n \in Candidates(thr, inf, h, iv)
             /\ \A u \in Candidates(thr, inf, h, iv) : Before(inf, c, n, u)
<1> DEFINE cands == Candidates(thr, inf, h, iv)
<1>1. cands \in SUBSET ThreadIds
  BY DEF Candidates
<1>2. \E t \in cands : \A u \in cands : Before(inf, c, t, u)
  <2>1. CASE ~PriorityBased
    BY <1>1, <2>1, RoundRobinFirst DEF Before
  <2>2. CASE PriorityBased
    <3> DEFINE below(t) == maxPriority - inf[t].priority
               levels == {below(t) : t \in cands}
    <3>1. \A t \in cands : inf[t].priority \in 1 .. maxPriority
      BY <2>2 DEF Candidates, Listed
    <3>2. levels \in SUBSET Nat /\ levels # {}
      BY <3>1
    <3>3. PICK m \in levels : \A k \in levels : m <= k
      BY <3>2, LeastElement
    <3> DEFINE top == {t \in cands : below(t) = m}
    <3>4. top \in SUBSET ThreadIds /\ top # {}
      BY <1>1, <3>3
    <3>5. PICK t \in top : \A u \in top : RoundRobinBefore(c, t, u)
      BY <3>4, RoundRobinFirst
    <3>6. ASSUME NEW u \in cands PROVE Before(inf, c, t, u)
      <4>1. below(t) <= below(u)
        BY <3>3
      <4>2. inf[t].priority >= inf[u].priority
        BY <3>1, <4>1
      <4>3. inf[t].priority = inf[u].priority => u \in top
        OBVIOUS
      <4>4. QED
        BY <2>2, <3>1, <3>5, <4>2, <4>3 DEF Before
    <3>7. QED
      BY <3>6
  <2>3. QED
    BY <2>1, <2>2
<1>3. QED
  BY <1>2 DEF FindNextThread

-----------------------------------------------------------------------------
(* MaxPriority is well defined: a priority map has finitely many entries.    *)

PriorityMaps == [Objs -> Nat \cup {NoEntry}]

LEMMA PriorityMapIsBounded ==
  ASSUME NEW pm \in PriorityMaps
  PROVE  \E b \in Nat : \A o \in Objs : pm[o] <= b
<1> DEFINE Bounded(X) == \E b \in Nat : \A o \in X : pm[o] <= b
           unbounded == {X \in SUBSET Objs : ~ Bounded(X)}
           sizes == {Cardinality(X) : X \in unbounded}
<1>1. \A X \in SUBSET Objs : IsFiniteSet(X)
  BY SchdAssumption, FS_Subset
<1>2. unbounded = {}
  <2> SUFFICES ASSUME unbounded # {} PROVE FALSE
    OBVIOUS
  <2>1. sizes \in SUBSET Nat /\ sizes # {}
    BY <1>1, FS_CardinalityType
  <2>2. PICK n \in sizes : \A k \in sizes : n <= k
    BY <2>1, LeastElement
  <2>3. PICK X \in unbounded : Cardinality(X) = n
    BY <2>2
  <2>4. X # {}
    <3>1. 0 \in Nat /\ \A o \in {} : pm[o] <= 0
      OBVIOUS
    <3>2. Bounded({})
      BY <3>1
    <3>3. QED
      BY <3>2
  <2>5. PICK x \in X : TRUE
    BY <2>4
  <2>6. Cardinality(X \ {x}) = n - 1 /\ n \in Nat
    BY <1>1, <2>1, <2>3, <2>5, FS_RemoveElement
  <2>7. X \ {x} \notin unbounded
    <3>1. ~ (n <= n - 1)
      BY <2>6
    <3>2. QED
      BY <2>2, <2>6, <3>1
  <2>8. PICK b \in Nat : \A o \in X \ {x} : pm[o] <= b
    BY <2>7
  <2>9. pm[x] \in Nat \cup {NoEntry}
    BY DEF PriorityMaps
  <2>10. PICK d \in Nat : b <= d /\ pm[x] <= d
    BY <2>9 DEF NoEntry
  <2>11. \A o \in X : pm[o] <= d
    BY <2>8, <2>10 DEF PriorityMaps, NoEntry
  <2>12. QED
    BY <2>11
<1>3. Objs \notin unbounded
  BY <1>2
<1>4. QED
  BY <1>3

LEMMA MaxPriorityIsMax ==
  ASSUME NEW pm \in PriorityMaps
  PROVE  /\ MaxPriority(pm) \in Nat
         /\ MaxPriority(pm) > DefaultPriority
         /\ \A o \in Objs : pm[o] < MaxPriority(pm)
<1>1. PICK b \in Nat : \A o \in Objs : pm[o] <= b
  BY PriorityMapIsBounded
<1> DEFINE entries == {DefaultPriority} \cup {pm[o] : o \in Objs}
           big == {v \in entries : v >= DefaultPriority}
           top == b + DefaultPriority
           gaps == {top - v : v \in big}
<1>2. \A v \in entries : v \in Int /\ v <= top
  BY <1>1 DEF DefaultPriority, NoEntry, PriorityMaps
<1>3. gaps \in SUBSET Nat
  BY <1>2 DEF DefaultPriority
<1>4. DefaultPriority \in big
  BY DEF DefaultPriority
<1>5. gaps # {}
  BY <1>4
<1>6. PICK g \in gaps : \A k \in gaps : g <= k
  BY <1>3, <1>5, LeastElement
<1>7. PICK m \in big : g = top - m
  BY <1>6
<1>8. \A v \in big : v <= m
  <2>1. \A v \in big : top - m <= top - v
    BY <1>6, <1>7
  <2>2. QED
    BY <1>2, <2>1 DEF DefaultPriority
<1>9. \A o \in Objs : pm[o] <= m
  <2>1. \A o \in Objs : pm[o] \in Int /\ (pm[o] \in big \/ pm[o] < DefaultPriority)
    <3>1. \A o \in Objs : pm[o] \in entries
      OBVIOUS
    <3>2. \A v \in entries : v \in Int /\ (v \in big \/ v < DefaultPriority)
      BY <1>2 DEF DefaultPriority
    <3> HIDE DEF entries, big
    <3>3. QED
      BY <3>1, <3>2
  <2>2. QED
    BY <1>2, <1>8, <2>1 DEF DefaultPriority
<1> DEFINE IsMax(v) == v >= DefaultPriority /\ \A o \in Objs : pm[o] <= v
<1>10. m \in entries /\ IsMax(m)
  BY <1>9
<1> HIDE DEF IsMax
<1>11. (CHOOSE v \in entries : IsMax(v)) \in entries /\ IsMax(CHOOSE v \in entries : IsMax(v))
  BY <1>10
<1>12. PICK n \in entries : IsMax(n) /\ MaxPriority(pm) = 1 + n
  BY <1>11 DEF MaxPriority, IsMax
<1>13. n \in Int /\ n >= DefaultPriority /\ \A o \in Objs : pm[o] <= n
  BY <1>2, <1>12 DEF IsMax
<1>14. \A o \in Objs : pm[o] \in Int
  BY DEF PriorityMaps, NoEntry
<1>15. QED
  BY <1>12, <1>13, <1>14 DEF DefaultPriority

-----------------------------------------------------------------------------
(* Types of the operators the actions are built from.                        *)

LEMMA EvaluatorType ==
  ASSUME NEW ev \in Evaluators
  PROVE  /\ IncInstrnum(ev) \in Evaluators
         /\ ResetSlice(ev) \in Evaluators
         /\ ev.calls \in Seq(Frames)
         /\ ev.calls # <<>> => /\ Top(ev) \in Frames
                               /\ PopFrame(ev) \in Evaluators
<1>1. IncInstrnum(ev) \in Evaluators /\ ResetSlice(ev) \in Evaluators
  BY DEF Evaluators, IncInstrnum, ResetSlice, PhaseMatchesCallee
<1>2. ev.calls \in Seq(Frames)
  BY DEF Evaluators
<1>3. ASSUME ev.calls # <<>>
      PROVE  Top(ev) \in Frames /\ PopFrame(ev) \in Evaluators
  <2>1. Len(ev.calls) \in Nat \ {0}
    BY <1>2, <1>3, EmptySeq, LenProperties
  <2>2. \A i \in 1 .. Len(ev.calls) : ev.calls[i] \in Frames
    BY <1>2, ElementOfSeq
  <2>3. SubSeq(ev.calls, 1, Len(ev.calls) - 1) \in Seq(Frames)
    BY <2>1, <2>2, SubSeqProperties
  <2>4. QED
    BY <2>1, <2>2, <2>3 DEF Evaluators, PopFrame, PhaseMatchesCallee, Top
<1>4. QED
  BY <1>1, <1>2, <1>3

LEMMA InitEvaluatorType ==
  \A phase \in {"body", "end"} : InitEvaluatorStatus(phase) \in Evaluators
<1>1. <<>> \in Seq(Frames)
  BY EmptySeq
<1>2. QED
  BY <1>1 DEF InitEvaluatorStatus, Evaluators, PhaseMatchesCallee, Phases

LEMMA ThreadInfoType ==
  /\ NoThread \in ThreadInfos
  /\ \A obj \in Objs \cup {NoObj}, status \in Statuses, phase \in {"body", "end"}, prio \in Nat :
       ThreadInfo(obj, status, phase, prio) \in ThreadInfos
<1>1. \A obj \in Objs \cup {NoObj}, status \in Statuses, phase \in {"body", "end"}, prio \in Nat :
        ThreadInfo(obj, status, phase, prio) \in ThreadInfos
  BY InitEvaluatorType DEF ThreadInfo, ThreadInfos
<1>2. QED
  BY <1>1 DEF NoThread, Statuses, DefaultPriority

HistoryType == [Objs -> [Ops -> Histories]]

LEMMA UpdateHistCountType ==
  ASSUME NEW h \in HistoryType, NEW c \in Calls, NEW kind
  PROVE  UpdateHistCount(h, c, kind) \in HistoryType
<1>1. c.obj \in Objs /\ c.op \in Ops
  BY DEF Calls
<1>2. Counted(h[c.obj][c.op], kind) \in Histories
  BY <1>1 DEF Counted, Histories, HistoryType
<1>3. QED
  BY <1>1, <1>2 DEF HistoryType, UpdateHistCount

InfoType == [ThreadIds -> ThreadInfos]

\* Leaving the operation on top of the call stack.
LEMMA ReturnType ==
  ASSUME NEW ev \in Evaluators, TopIsOp(ev), NEW h \in HistoryType
  PROVE  /\ PopFrame(IncInstrnum(ev)) \in Evaluators
         /\ PopFrame(ev) \in Evaluators
         /\ UpdateHistCount(h, Top(ev).call, "fin") \in HistoryType
<1>1. IncInstrnum(ev) \in Evaluators /\ IncInstrnum(ev).calls = ev.calls
  BY EvaluatorType DEF IncInstrnum, Evaluators
<1>2. ev.calls # <<>> /\ Top(ev).call # NoCall
  BY DEF TopIsOp
<1>3. Top(ev) \in Frames
  BY <1>2, EvaluatorType
<1>4. Top(ev).call \in Calls
  BY <1>2, <1>3 DEF Frames
<1>5. QED
  BY <1>1, <1>2, <1>4, EvaluatorType, UpdateHistCountType

LEMMA SwapOutCurrentType ==
  ASSUME TypeOK, NEW status \in Statuses, NEW on \in Calls \cup {NoCall},
         NEW ev \in Evaluators
  PROVE  SwapOutCurrent(status, on, ev) \in InfoType
<1>1. info[curthread] \in ThreadInfos
  BY DEF TypeOK
<1>2. [info[curthread] EXCEPT !.status = status, !.on = on, !.stackeval = ev] \in ThreadInfos
  BY <1>1 DEF ThreadInfos
<1>3. QED
  BY <1>2 DEF TypeOK, InfoType, SwapOutCurrent

\* The two outcomes of a switch: deadlock, or a candidate runs.
Deadlocks(inf) == session' = "deadlock" /\ info' = inf /\ UNCHANGED <<curthread, stkm>>

Runs(inf, n) ==
  /\ n \in ThreadIds
  /\ curthread' = n
  /\ info' = [inf EXCEPT ![n] = [@ EXCEPT !.status = "Running", !.on = NoCall]]
  /\ stkm' = ResetSlice(inf[n].stackeval)
  /\ UNCHANGED session

LEMMA SelAndRunThreadCases ==
  ASSUME TypeOK, NEW thr \in SUBSET ThreadIds, NEW inf \in InfoType,
         SelAndRunThread(thr, inf)
  PROVE  /\ threads' = thr
         /\ UNCHANGED <<next_thread_id, classPriorityMap, maxPriority, hist, ivar>>
         /\ \/ Candidates(thr, inf, hist, ivar) = {} /\ Deadlocks(inf)
            \/ \E n \in Candidates(thr, inf, hist, ivar) : Runs(inf, n)
<1> DEFINE n == FindNextThread(thr, inf, curthread, hist, ivar)
<1>1. CASE Candidates(thr, inf, hist, ivar) = {}
  BY <1>1 DEF SelAndRunThread, prioVars, Deadlocks
<1>2. CASE Candidates(thr, inf, hist, ivar) # {}
  <2>1. n \in Candidates(thr, inf, hist, ivar) /\ n \in ThreadIds
    BY <1>2, FirstCandidate DEF TypeOK, InfoType, Candidates
  <2>2. Runs(inf, n)
    BY <1>2, <2>1 DEF SelAndRunThread, Runs
  <2>3. threads' = thr /\ UNCHANGED <<next_thread_id, classPriorityMap, maxPriority, hist, ivar>>
    BY <1>2 DEF SelAndRunThread, prioVars
  <2> HIDE DEF n
  <2>4. QED
    BY <2>1, <2>2, <2>3
<1>3. QED
  BY <1>1, <1>2

LEMMA RunsInfo ==
  ASSUME NEW inf \in InfoType, NEW n, Runs(inf, n)
  PROVE  /\ n \in ThreadIds
         /\ info'[n].status = "Running"
         /\ \A t \in ThreadIds : t # n => info'[t] = inf[t]
         /\ \A t \in ThreadIds : /\ info'[t].priority = inf[t].priority
                                /\ info'[t].stackeval = inf[t].stackeval
<1>1. n \in ThreadIds /\ inf[n] \in ThreadInfos
  BY DEF Runs, InfoType
<1>2. info' = [inf EXCEPT ![n] = [inf[n] EXCEPT !.status = "Running", !.on = NoCall]]
  BY DEF Runs
<1>3. /\ info'[n] = [inf[n] EXCEPT !.status = "Running", !.on = NoCall]
      /\ \A t \in ThreadIds : t # n => info'[t] = inf[t]
  BY <1>1, <1>2 DEF InfoType
<1>4. QED
  BY <1>1, <1>3 DEF ThreadInfos

LEMMA SelAndRunThreadType ==
  ASSUME TypeOK, NEW thr \in SUBSET ThreadIds, NEW inf \in InfoType,
         SelAndRunThread(thr, inf)
  PROVE  TypeOK'
<1>0. /\ threads' \subseteq ThreadIds
      /\ UNCHANGED <<next_thread_id, classPriorityMap, maxPriority, hist, ivar>>
      /\ Deadlocks(inf) \/ \E n \in Candidates(thr, inf, hist, ivar) : Runs(inf, n)
  BY SelAndRunThreadCases, Zenon
<1>1. CASE Deadlocks(inf)
  BY <1>0, <1>1 DEF Deadlocks, TypeOK, InfoType, Sessions
<1>2. ASSUME NEW n, Runs(inf, n)
      PROVE  TypeOK'
  <2>1. inf[n] \in ThreadInfos
    BY <1>2 DEF Runs, InfoType
  <2>2. [inf[n] EXCEPT !.status = "Running", !.on = NoCall] \in ThreadInfos
    BY <2>1 DEF ThreadInfos, Statuses
  <2>3. info' \in InfoType
    BY <1>2, <2>2 DEF Runs, InfoType
  <2>4. stkm' \in Evaluators
    BY <1>2, <2>1, EvaluatorType DEF Runs, ThreadInfos
  <2>5. QED
    BY <1>0, <1>2, <2>3, <2>4 DEF Runs, TypeOK, InfoType
<1>3. QED
  BY <1>0, <1>1, <1>2

-----------------------------------------------------------------------------
(* Type correctness.                                                         *)

LEMMA InitialMaxPriorityType ==
  ASSUME NEW pm \in PriorityMaps
  PROVE  InitialMaxPriority(pm) \in Nat
BY MaxPriorityIsMax DEF InitialMaxPriority, DefaultPriority

LEMMA InitStateType ==
  ASSUME NEW t, NEW i, NEW c, NEW n, NEW m \in Nat, NEW e, NEW h, NEW v, NEW s,
         InitState(t, i, c, n, m, e, h, v, s)
  PROVE  /\ t \subseteq ThreadIds
         /\ i \in InfoType
         /\ c \in ThreadIds
         /\ n \in 1 .. MaxThreads + 1
         /\ e \in Evaluators
         /\ h \in HistoryType
         /\ v \in [Objs -> BOOLEAN]
         /\ s \in Sessions
<1>1. i \in InfoType
  BY ThreadInfoType DEF InitState, InfoType, Statuses
<1>2. e \in Evaluators
  BY InitEvaluatorType DEF InitState
<1>3. h \in HistoryType
  BY DEF InitState, HistoryType, Histories
<1>4. MaxThreads \in Nat \ {0}
  BY SchdAssumption
<1>5. t \subseteq ThreadIds /\ c \in ThreadIds /\ n \in 1 .. MaxThreads + 1
  BY <1>4 DEF InitState, ThreadIds, DebugThread
<1>6. v \in [Objs -> BOOLEAN] /\ s \in Sessions
  BY DEF InitState, Sessions
<1>7. QED
  BY <1>1, <1>2, <1>3, <1>5, <1>6

LEMMA InitTypeOK == Init => TypeOK
<1> SUFFICES ASSUME Init PROVE TypeOK
  OBVIOUS
<1>1. NoPriorityMap \in PriorityMaps /\ Priorities \subseteq PriorityMaps
  BY SchdAssumption DEF NoPriorityMap, PriorityMaps, NoEntry
<1>2. classPriorityMap \in PriorityMaps /\ maxPriority \in Nat
  BY <1>1, InitialMaxPriorityType DEF Init
<1>3. QED
  BY <1>2, InitStateType DEF Init, TypeOK, InfoType, HistoryType, PriorityMaps

LEMMA UserTypeOK == TypeOK /\ User => TypeOK'
<1> SUFFICES ASSUME TypeOK, User PROVE TypeOK'
  OBVIOUS
<1> USE DEF schdVars, prioVars
<1>1. CASE UserPrint
  <2>1. [call |-> NoCall, phase |-> stkm.phase, callee |-> stkm.callee] \in Frames
    BY DEF TypeOK, Evaluators, Frames, PhaseMatchesCallee
  <2>2. stkm.calls \in Seq(Frames)
    BY DEF TypeOK, Evaluators
  <2>3. Append(stkm.calls, [call |-> NoCall, phase |-> stkm.phase, callee |-> stkm.callee])
          \in Seq(Frames)
    BY <2>1, <2>2, AppendProperties
  <2>4. stkm' \in Evaluators
    BY <1>1, <2>3 DEF UserPrint, TypeOK, Evaluators, PhaseMatchesCallee, Phases
  <2>5. QED
    BY <1>1, <2>4 DEF UserPrint, TypeOK, Sessions
<1>2. CASE UserContinue
  BY <1>2, EvaluatorType DEF UserContinue, TypeOK, Sessions
<1>3. ASSUME NEW t \in ThreadIds, UserSelThread(t) PROVE TypeOK'
  <2>1. CASE curthread \in threads
    <3> DEFINE inf == SwapOutCurrent("Sleeping", NoCall, stkm)
    <3>1. inf \in InfoType
      BY SwapOutCurrentType DEF TypeOK, Statuses
    <3>2. inf[t] \in ThreadInfos
      BY <3>1 DEF InfoType
    <3>3. /\ info' = [inf EXCEPT ![t] = [@ EXCEPT !.status = "Running", !.on = NoCall]]
          /\ stkm' = inf[t].stackeval
          /\ curthread' = t
      BY <1>3, <2>1 DEF UserSelThread
    <3>4. [inf[t] EXCEPT !.status = "Running", !.on = NoCall] \in ThreadInfos
      BY <3>2 DEF ThreadInfos, Statuses
    <3>5. info' \in InfoType
      BY <3>1, <3>3, <3>4 DEF InfoType
    <3>6. stkm' \in Evaluators
      BY <3>2, <3>3 DEF ThreadInfos
    <3>7. UNCHANGED <<threads, next_thread_id, prioVars, hist, ivar, session>>
      BY <1>3, <2>1 DEF UserSelThread
    <3>8. QED
      BY <3>3, <3>5, <3>6, <3>7 DEF TypeOK, InfoType
  <2>2. CASE curthread \notin threads
    BY <1>3, <2>2 DEF UserSelThread, TypeOK, Sessions
  <2>3. QED
    BY <2>1, <2>2
<1>4. ASSUME NEW pm \in Priorities, UserPriorityFile(pm) PROVE TypeOK'
  <2>1. pm \in PriorityMaps
    BY SchdAssumption DEF PriorityMaps
  <2>2. MaxPriority(pm) \in Nat
    BY <2>1, MaxPriorityIsMax
  <2>3. DebugThread \in ThreadIds
    BY SchdAssumption DEF DebugThread, ThreadIds
  <2>4. [info[DebugThread] EXCEPT !.priority = MaxPriority(pm)] \in ThreadInfos
    BY <2>2, <2>3 DEF TypeOK, ThreadInfos
  <2>5. QED
    BY <1>4, <2>1, <2>2, <2>4 DEF UserPriorityFile, TypeOK, PriorityMaps
<1>5. CASE UserInit
  <2>1. classPriorityMap' \in PriorityMaps /\ maxPriority' \in Nat
    BY <1>5, InitialMaxPriorityType DEF UserInit, TypeOK, PriorityMaps
  <2>2. InitState(threads', info', curthread', next_thread_id', maxPriority', stkm', hist',
                  ivar', session')
    BY <1>5 DEF UserInit
  <2>3. /\ threads' \subseteq ThreadIds /\ info' \in InfoType /\ curthread' \in ThreadIds
        /\ next_thread_id' \in 1 .. MaxThreads + 1 /\ stkm' \in Evaluators
        /\ hist' \in HistoryType /\ ivar' \in [Objs -> BOOLEAN] /\ session' \in Sessions
    BY <2>1, <2>2, InitStateType
  <2>4. QED
    BY <2>1, <2>3 DEF TypeOK, InfoType, HistoryType, PriorityMaps
<1>6. QED
  BY <1>1, <1>2, <1>3, <1>4, <1>5 DEF User

LEMMA InstructionTypeOK == TypeOK /\ Instruction => TypeOK'
<1> SUFFICES ASSUME TypeOK, Instruction PROVE TypeOK'
  OBVIOUS
<1> USE DEF schdVars, prioVars
<1>0. /\ stkm \in Evaluators /\ IncInstrnum(stkm) \in Evaluators
      /\ hist \in HistoryType
  BY EvaluatorType DEF TypeOK, HistoryType
<1>1. ASSUME NEW c \in Calls, ExeGUARD(c) PROVE TypeOK'
  <2>1. hist' \in HistoryType
    BY <1>0, <1>1, UpdateHistCountType DEF ExeGUARD
  <2>2. stkm' \in Evaluators
    BY <1>0, <1>1, SchdAssumption DEF ExeGUARD, Evaluators, Phases, PhaseMatchesCallee
  <2>3. QED
    BY <1>1, <2>1, <2>2 DEF ExeGUARD, TypeOK, HistoryType
<1>2. CASE ExeCONTEXT
  <2>1. stkm' \in Evaluators
    BY <1>0, <1>2 DEF ExeCONTEXT, Evaluators, Phases, PhaseMatchesCallee, IncInstrnum
  <2>2. QED
    BY <1>2, <2>1 DEF ExeCONTEXT, TypeOK, Sessions
<1>3. CASE ExeAPPLY
  <2> DEFINE frame == [call |-> stkm.callee, phase |-> "body", callee |-> NoCall]
  <2>1. stkm.callee \in Calls /\ frame \in Frames
    BY <1>0, <1>3 DEF ExeAPPLY, Evaluators, Frames, PhaseMatchesCallee, Phases
  <2>2. IncInstrnum(stkm).calls \in Seq(Frames)
    BY <1>0, EvaluatorType
  <2>3. Append(IncInstrnum(stkm).calls, frame) \in Seq(Frames)
    BY <2>1, <2>2, AppendProperties
  <2>4. stkm' = [IncInstrnum(stkm) EXCEPT !.phase = "body", !.callee = NoCall,
                                          !.calls = Append(@, frame)]
    BY <1>3 DEF ExeAPPLY
  <2> HIDE DEF frame
  <2>5. stkm' \in Evaluators
    BY <1>0, <2>3, <2>4 DEF Evaluators, PhaseMatchesCallee, Phases
  <2>6. hist' \in HistoryType
    BY <1>0, <1>3, <2>1, UpdateHistCountType DEF ExeAPPLY
  <2>7. QED
    BY <1>3, <2>5, <2>6 DEF ExeAPPLY, TypeOK, HistoryType
<1>4. CASE ExeRETURN
  BY <1>0, <1>4, ReturnType DEF ExeRETURN, TypeOK, HistoryType
<1>5. CASE ExeEXIT
  <2>1. /\ PopFrame(stkm) \in Evaluators
        /\ UpdateHistCount(hist, Top(stkm).call, "fin") \in HistoryType
    BY <1>0, <1>5, ReturnType DEF ExeEXIT
  <2>2. /\ stkm' \in Evaluators
        /\ hist' \in HistoryType
    BY <1>5, <2>1, ReturnType DEF ExeEXIT
  <2>3. QED
    BY <1>5, <2>2 DEF ExeEXIT, TypeOK, HistoryType
<1>6. CASE ExeEOCL
  <2>1. stkm' \in Evaluators
    BY <1>0, <1>6 DEF ExeEOCL, Evaluators, Phases, PhaseMatchesCallee, IncInstrnum
  <2>2. QED
    BY <1>6, <2>1 DEF ExeEOCL, TypeOK
<1>7. CASE ExeASSIGN
  BY <1>0, <1>7 DEF ExeASSIGN, TypeOK
<1>8. ASSUME NEW o \in Objs, ExeSTART(o) PROVE TypeOK'
  <2>1. stkm' \in Evaluators
    BY <1>0, <1>8 DEF ExeSTART
  <2>2. ThreadInfo(o, "Sleeping", "body", SetThreadPriority(o)) \in ThreadInfos
    <3>1. SetThreadPriority(o) \in Nat
      BY DEF SetThreadPriority, TypeOK, DefaultPriority, NoEntry
    <3>2. QED
      BY <3>1, ThreadInfoType DEF Statuses
  <2>3. CASE o \notin ThreadObjs
    BY <1>8, <2>1, <2>3 DEF ExeSTART, TypeOK, Sessions
  <2>4. CASE o \in ThreadObjs
    <3>1. /\ next_thread_id \in ThreadIds
          /\ next_thread_id + 1 \in 1 .. MaxThreads + 1
      BY <1>8, <2>4, SchdAssumption DEF ExeSTART, TypeOK, ThreadIds
    <3>2. /\ info' = [info EXCEPT ![next_thread_id] =
                        ThreadInfo(o, "Sleeping", "body", SetThreadPriority(o))]
          /\ next_thread_id' = next_thread_id + 1
          /\ threads' = threads \cup {next_thread_id}
          /\ UNCHANGED <<curthread, session, prioVars, hist, ivar>>
      BY <1>8, <2>4 DEF ExeSTART
    <3>3. QED
      BY <2>1, <2>2, <3>1, <3>2 DEF TypeOK
  <2>5. QED
    BY <2>3, <2>4
<1>9. ASSUME NEW objs \in SUBSET Objs, ExeSTOPLIST(objs) PROVE TypeOK'
  <2>1. stkm' \in Evaluators
    BY <1>0, <1>9 DEF ExeSTOPLIST
  <2>2. PICK done \in SUBSET objs :
          /\ threads' = threads \ ThreadsOf(done)
          /\ info' = [t \in ThreadIds |-> IF t \in ThreadsOf(done) THEN NoThread ELSE info[t]]
          /\ session' \in Sessions
    BY <1>9 DEF ExeSTOPLIST, TypeOK, Sessions
  <2>3. info' \in InfoType
    BY <2>2, ThreadInfoType DEF TypeOK, InfoType
  <2>4. QED
    BY <1>9, <2>1, <2>2, <2>3 DEF ExeSTOPLIST, TypeOK, InfoType
<1>10. QED
  BY <1>1, <1>2, <1>3, <1>4, <1>5, <1>6, <1>7, <1>8, <1>9 DEF Instruction

LEMMA SchedulerTypeOK == TypeOK /\ Scheduler => TypeOK'
<1> SUFFICES ASSUME TypeOK, Scheduler PROVE TypeOK'
  OBVIOUS
<1> USE DEF schdVars, prioVars
<1>1. CASE HandleGuard
  <2> DEFINE ev == [stkm EXCEPT !.guard = FALSE]
  <2>1. ev \in Evaluators /\ ev.callee \in Calls \cup {NoCall}
    BY DEF TypeOK, Evaluators, PhaseMatchesCallee
  <2>2. CASE NoPermis(stkm.callee) \/ RunGuard(hist, ivar, stkm.callee)
    BY <1>1, <2>1, <2>2 DEF HandleGuard, TypeOK
  <2>3. CASE ~ (NoPermis(stkm.callee) \/ RunGuard(hist, ivar, stkm.callee))
    <3>1. SwapOutCurrent("Blocked", stkm.callee, ev) \in InfoType
      BY <2>1, SwapOutCurrentType DEF Statuses
    <3>2. SelAndRunThread(threads, SwapOutCurrent("Blocked", stkm.callee, ev))
      BY <1>1, <2>3 DEF HandleGuard
    <3>3. QED
      BY <3>1, <3>2, SelAndRunThreadType DEF TypeOK
  <2>4. QED
    BY <2>2, <2>3
<1>2. CASE HandleEndOfSlice
  <2>1. SwapOutCurrent("MaxReached", NoCall, stkm) \in InfoType
    BY SwapOutCurrentType DEF Statuses, TypeOK
  <2>2. QED
    BY <1>2, <2>1, SelAndRunThreadType DEF HandleEndOfSlice, TypeOK
<1>3. CASE HandleDebugSuccess
  <2>1. CASE stkm.calls = <<>>
    BY <1>3, <2>1 DEF HandleDebugSuccess, TypeOK, Sessions
  <2>2. CASE stkm.calls # <<>>
    <3> DEFINE f == Top(stkm)
               ev == [PopFrame(stkm) EXCEPT !.phase = f.phase, !.callee = f.callee]
    <3>1. f \in Frames /\ PopFrame(stkm) \in Evaluators
      BY <2>2, EvaluatorType DEF TypeOK
    <3>2. stkm' = ev /\ info' = [info EXCEPT ![curthread] = [@ EXCEPT !.stackeval = ev]]
          /\ session' = "idle"
      BY <1>3, <2>2 DEF HandleDebugSuccess
    <3> HIDE DEF f
    <3>3. ev \in Evaluators
      BY <3>1 DEF Evaluators, Frames, PhaseMatchesCallee
    <3> HIDE DEF ev
    <3>4. [info[curthread] EXCEPT !.stackeval = ev] \in ThreadInfos
      BY <3>3 DEF TypeOK, ThreadInfos
    <3>5. QED
      BY <1>3, <3>2, <3>3, <3>4 DEF HandleDebugSuccess, TypeOK, Sessions
  <2>3. QED
    BY <2>1, <2>2
<1>4. CASE HandleThreadSuccess
  <2>1. CASE curthread \in threads
    <3>1. [info EXCEPT ![curthread] = NoThread] \in InfoType
      BY ThreadInfoType DEF TypeOK, InfoType
    <3>2. QED
      BY <1>4, <2>1, <3>1, SelAndRunThreadType DEF HandleThreadSuccess, TypeOK
  <2>2. CASE curthread \notin threads
    BY <1>4, <2>2 DEF HandleThreadSuccess, TypeOK, Sessions
  <2>3. QED
    BY <2>1, <2>2
<1>5. QED
  BY <1>1, <1>2, <1>3, <1>4 DEF Scheduler

LEMMA NextTypeOK == TypeOK /\ [Next]_vars => TypeOK'
<1>1. TypeOK /\ UNCHANGED vars => TypeOK'
  BY DEF TypeOK, vars
<1>2. QED
  BY <1>1, InstructionTypeOK, SchedulerTypeOK, UserTypeOK DEF Next

\* The scheduler's data, the evaluators and the history counters keep their
\* types for every program, configuration and sequence of user commands.
THEOREM TypeCorrect == Spec => []TypeOK
  BY InitTypeOK, NextTypeOK, PTL DEF Spec

-----------------------------------------------------------------------------
(* What a step of EvalScheduler does to the threads.                         *)

\* The map the scheduler selects from differs from the one before the step only
\* in the entry of the current thread, which was saved behind a guard or at the
\* end of its slice, or it has been removed at its end.
SwappedOut(thr, inf) ==
  /\ \/ thr = threads
     \/ thr = threads \ {curthread} /\ stkm.phase = "end" /\ curthread # DebugThread
  /\ \A t \in thr \ {curthread} : inf[t] = info[t]
  /\ curthread \in thr =>
       /\ inf[curthread].priority = info[curthread].priority
       /\ inf[curthread].stackeval = [stkm EXCEPT !.guard = FALSE]
       /\ \/ inf[curthread].status = "Blocked" /\ inf[curthread].on = stkm.callee
          \/ inf[curthread].status = "MaxReached" /\ EndOfSliceReached(stkm)

\* The thread keeps the machine: it proceeds behind a true predicate, or an
\* answer or an error ends the evaluation.
Proceeds ==
  /\ UNCHANGED <<info, session>>
  /\ stkm' = [stkm EXCEPT !.guard = FALSE]
  /\ RunGuard(hist, ivar, stkm.callee)

Answers ==
  /\ curthread = DebugThread /\ stkm.phase = "end"
  /\ session' = "idle"
  /\ stkm.calls # <<>>
  /\ stkm' = [PopFrame(stkm) EXCEPT !.phase = Top(stkm).phase, !.callee = Top(stkm).callee]
  /\ info' = [info EXCEPT ![curthread] = [@ EXCEPT !.stackeval = stkm']]

Fails ==
  /\ \/ curthread = DebugThread /\ stkm.calls = <<>>
     \/ curthread \notin threads
  /\ session' = "interror"
  /\ UNCHANGED <<info, stkm>>

KeepsMachine ==
  /\ UNCHANGED <<threads, curthread, next_thread_id, classPriorityMap, maxPriority, hist, ivar>>
  /\ session = "running"
  /\ Proceeds \/ Answers \/ Fails

LEMMA KeepsMachineInfo ==
  ASSUME TypeOK, KeepsMachine
  PROVE  /\ session' \in {"running", "idle", "interror"}
         /\ \A t \in threads : /\ info'[t].status = info[t].status
                               /\ info'[t].priority = info[t].priority
<1>1. info \in InfoType /\ threads \subseteq ThreadIds
  BY DEF TypeOK, InfoType
<1>2. CASE Proceeds \/ Fails
  BY <1>2 DEF KeepsMachine, Proceeds, Fails
<1>3. CASE Answers
  BY <1>1, <1>3 DEF Answers, InfoType, ThreadInfos
<1>4. QED
  BY <1>2, <1>3 DEF KeepsMachine

LEMMA SwapOutCurrentIsSwappedOut ==
  ASSUME TypeOK, NEW status \in Statuses, NEW on \in Calls \cup {NoCall}, NEW ev \in Evaluators,
         ev = [stkm EXCEPT !.guard = FALSE],
         \/ status = "Blocked" /\ on = stkm.callee
         \/ status = "MaxReached" /\ EndOfSliceReached(stkm)
  PROVE  SwappedOut(threads, SwapOutCurrent(status, on, ev))
<1>1. info[curthread] \in ThreadInfos
  BY DEF TypeOK
<1>2. QED
  BY <1>1 DEF SwappedOut, SwapOutCurrent, TypeOK, ThreadInfos

LEMMA SchedulerSteps ==
  ASSUME TypeOK, Scheduler
  PROVE  \/ KeepsMachine
         \/ \E thr \in SUBSET threads, inf \in InfoType :
              SwappedOut(thr, inf) /\ SelAndRunThread(thr, inf)
<1> USE DEF schdVars, prioVars
<1>1. CASE HandleGuard
  <2> DEFINE ev == [stkm EXCEPT !.guard = FALSE]
             inf == SwapOutCurrent("Blocked", stkm.callee, ev)
  <2>1. CASE NoPermis(stkm.callee) \/ RunGuard(hist, ivar, stkm.callee)
    <3>1. NoPermis(stkm.callee) => RunGuard(hist, ivar, stkm.callee)
      BY DEF NoPermis, RunGuard
    <3>2. QED
      BY <1>1, <2>1, <3>1 DEF HandleGuard, KeepsMachine, Proceeds
  <2>2. CASE ~ (NoPermis(stkm.callee) \/ RunGuard(hist, ivar, stkm.callee))
    <3>1. ev \in Evaluators /\ stkm.callee \in Calls \cup {NoCall} /\ "Blocked" \in Statuses
      BY DEF TypeOK, Evaluators, PhaseMatchesCallee, Statuses
    <3>2. inf \in InfoType /\ SwappedOut(threads, inf)
      BY <3>1, SwapOutCurrentType, SwapOutCurrentIsSwappedOut
    <3>3. SelAndRunThread(threads, inf)
      BY <1>1, <2>2 DEF HandleGuard
    <3>4. QED
      BY <3>2, <3>3
  <2>3. QED
    BY <2>1, <2>2
<1>2. CASE HandleEndOfSlice
  <2> DEFINE inf == SwapOutCurrent("MaxReached", NoCall, stkm)
  <2>1. /\ stkm \in Evaluators /\ stkm = [stkm EXCEPT !.guard = FALSE]
        /\ EndOfSliceReached(stkm) /\ "MaxReached" \in Statuses
    BY <1>2 DEF HandleEndOfSlice, TypeOK, Evaluators, Statuses
  <2>2. inf \in InfoType /\ SwappedOut(threads, inf)
    BY <2>1, SwapOutCurrentType, SwapOutCurrentIsSwappedOut
  <2>3. SelAndRunThread(threads, inf)
    BY <1>2 DEF HandleEndOfSlice
  <2>4. QED
    BY <2>2, <2>3
<1>3. CASE HandleDebugSuccess
  <2>1. CASE stkm.calls = <<>>
    BY <1>3, <2>1 DEF HandleDebugSuccess, KeepsMachine, Fails
  <2>2. CASE stkm.calls # <<>>
    BY <1>3, <2>2 DEF HandleDebugSuccess, KeepsMachine, Answers
  <2>3. QED
    BY <2>1, <2>2
<1>4. CASE HandleThreadSuccess
  <2> DEFINE inf == [info EXCEPT ![curthread] = NoThread]
  <2>1. CASE curthread \in threads
    <3>1. inf \in InfoType
      BY ThreadInfoType DEF TypeOK, InfoType
    <3>2. SwappedOut(threads \ {curthread}, inf)
      BY <1>4 DEF SwappedOut, TypeOK, HandleThreadSuccess
    <3>3. SelAndRunThread(threads \ {curthread}, inf)
      BY <1>4, <2>1 DEF HandleThreadSuccess
    <3>4. QED
      BY <3>1, <3>2, <3>3
  <2>2. CASE curthread \notin threads
    BY <1>4, <2>2 DEF HandleThreadSuccess, KeepsMachine, Fails
  <2>3. QED
    BY <2>1, <2>2
<1>5. QED
  BY <1>1, <1>2, <1>3, <1>4 DEF Scheduler

-----------------------------------------------------------------------------
(* Deadlock.                                                                 *)

\* Either the lists do not depend on priorities, or every entry of a priority
\* file is at least 1 and, when files are loaded during a session, no file has
\* entries beyond the maximum that another one sets.
SoundPriorities ==
  PriorityBased =>
    /\ \A pm \in Priorities : \A o \in Objs : pm[o] # 0
    /\ "priorityfile" \in UserCmds =>
         \A pm, qm \in Priorities : \A o \in Objs : pm[o] <= MaxPriority(qm)

FilePriorities == {DefaultPriority} \cup {pm[o] : pm \in Priorities, o \in Objs}

\* Every thread is in one of the lists SortTheThreads makes.
PrioritiesListed ==
  PriorityBased =>
    /\ DefaultPriority <= maxPriority
    /\ \A o \in Objs : classPriorityMap[o] # 0 /\ classPriorityMap[o] <= maxPriority
    /\ \A t \in threads : info[t].priority \in 1 .. maxPriority
    /\ \A o \in Objs : classPriorityMap[o] \in FilePriorities \cup {NoEntry}
    /\ \A t \in threads \ {DebugThread} : info[t].priority \in FilePriorities

LEMMA InitialPrioritiesListed ==
  ASSUME PriorityBased, NEW pm \in PriorityMaps
  PROVE  /\ DefaultPriority <= InitialMaxPriority(pm)
         /\ \A o \in Objs : pm[o] <= InitialMaxPriority(pm)
<1>1. CASE pm = NoPriorityMap
  BY <1>1 DEF InitialMaxPriority, NoPriorityMap, NoEntry, DefaultPriority
<1>2. CASE pm # NoPriorityMap
  <2>1. InitialMaxPriority(pm) = MaxPriority(pm)
    BY <1>2 DEF InitialMaxPriority
  <2>2. \A o \in Objs : pm[o] \in Int
    BY DEF PriorityMaps, NoEntry
  <2>3. QED
    BY <2>1, <2>2, MaxPriorityIsMax DEF DefaultPriority
<1>3. QED
  BY <1>1, <1>2

LEMMA InitPrioritiesListed ==
  ASSUME SoundPriorities, Init
  PROVE  PrioritiesListed
<1> SUFFICES ASSUME PriorityBased PROVE PrioritiesListed
  BY DEF PrioritiesListed
<1>1. classPriorityMap \in PriorityMaps /\ \A o \in Objs : classPriorityMap[o] # 0
  BY SchdAssumption DEF Init, SoundPriorities, NoPriorityMap, PriorityMaps, NoEntry
<1>2. /\ DefaultPriority <= maxPriority /\ maxPriority \in Nat
      /\ \A o \in Objs : classPriorityMap[o] <= maxPriority
  BY <1>1, InitialPrioritiesListed, InitialMaxPriorityType DEF Init
<1>3. \A t \in threads : info[t].priority = maxPriority
  <2>1. threads = {DebugThread} /\ DebugThread \in ThreadIds
    BY SchdAssumption DEF Init, InitState, DebugThread, ThreadIds
  <2>2. QED
    BY <2>1 DEF Init, InitState, ThreadInfo
<1>4. \A o \in Objs : classPriorityMap[o] \in FilePriorities \cup {NoEntry}
  BY DEF Init, FilePriorities, NoPriorityMap
<1>5. threads \ {DebugThread} = {}
  BY DEF Init, InitState
<1>6. QED
  BY <1>1, <1>2, <1>3, <1>4, <1>5 DEF PrioritiesListed, DefaultPriority

LEMMA PrioritiesListedStep ==
  ASSUME TypeOK, SoundPriorities, PrioritiesListed, [Next]_vars
  PROVE  PrioritiesListed'
<1> SUFFICES ASSUME PriorityBased PROVE PrioritiesListed'
  BY DEF PrioritiesListed
<1> USE DEF schdVars, prioVars
<1> DEFINE SameThreads ==
             /\ UNCHANGED <<classPriorityMap, maxPriority>>
             /\ threads' \subseteq threads
             /\ \A t \in threads' : info'[t].priority = info[t].priority
<1>1. ASSUME SameThreads PROVE PrioritiesListed'
  BY <1>1 DEF PrioritiesListed
<1>2. CASE UNCHANGED vars
  BY <1>1, <1>2 DEF vars
<1>3. CASE Instruction
  <2>1. ASSUME UNCHANGED <<threads, info, classPriorityMap, maxPriority>>
        PROVE  PrioritiesListed'
    BY <1>1, <2>1
  <2>2. ASSUME NEW c \in Calls, ExeGUARD(c) PROVE PrioritiesListed'
    BY <2>1, <2>2 DEF ExeGUARD
  <2>3. CASE ExeCONTEXT \/ ExeAPPLY \/ ExeRETURN \/ ExeEXIT \/ ExeEOCL \/ ExeASSIGN
    BY <2>1, <2>3 DEF ExeCONTEXT, ExeAPPLY, ExeRETURN, ExeEXIT, ExeEOCL, ExeASSIGN
  <2>4. ASSUME NEW o \in Objs, ExeSTART(o) PROVE PrioritiesListed'
    <3>1. CASE o \notin ThreadObjs
      BY <2>1, <2>4, <3>1 DEF ExeSTART
    <3>2. CASE o \in ThreadObjs
      <4> DEFINE new == ThreadInfo(o, "Sleeping", "body", SetThreadPriority(o))
      <4>1. /\ info' = [info EXCEPT ![next_thread_id] = new]
            /\ threads' = threads \cup {next_thread_id}
            /\ UNCHANGED <<classPriorityMap, maxPriority>>
        BY <2>4, <3>2 DEF ExeSTART
      <4>2. new.priority \in 1 .. maxPriority
        BY DEF PrioritiesListed, TypeOK, ThreadInfo, SetThreadPriority, DefaultPriority, NoEntry
      <4>3. new.priority \in FilePriorities
        <5>1. DefaultPriority \in FilePriorities
          BY DEF FilePriorities
        <5>2. QED
          BY <5>1 DEF PrioritiesListed, ThreadInfo, SetThreadPriority
      <4>4. ASSUME NEW t \in threads'
            PROVE  /\ info'[t].priority \in 1 .. maxPriority
                   /\ t # DebugThread => info'[t].priority \in FilePriorities
        <5>1. t \in ThreadIds
          BY <2>4, <3>2, <4>1, SchdAssumption DEF ExeSTART, TypeOK, ThreadIds
        <5> HIDE DEF new
        <5>2. QED
          BY <4>1, <4>2, <4>3, <5>1 DEF PrioritiesListed, TypeOK
      <4>5. QED
        BY <4>1, <4>4 DEF PrioritiesListed
    <3>3. QED
      BY <3>1, <3>2
  <2>5. ASSUME NEW objs \in SUBSET Objs, ExeSTOPLIST(objs) PROVE PrioritiesListed'
    <3>1. PICK done \in SUBSET objs :
            /\ threads' = threads \ ThreadsOf(done)
            /\ info' = [t \in ThreadIds |-> IF t \in ThreadsOf(done) THEN NoThread ELSE info[t]]
      BY <2>5 DEF ExeSTOPLIST
    <3>2. SameThreads
      BY <2>5, <3>1 DEF ExeSTOPLIST, TypeOK
    <3>3. QED
      BY <1>1, <3>2
  <2>6. QED
    BY <1>3, <2>2, <2>3, <2>4, <2>5 DEF Instruction
<1>4. CASE Scheduler
  <2>1. CASE KeepsMachine
    BY <1>1, <2>1, KeepsMachineInfo DEF KeepsMachine
  <2>2. ASSUME NEW thr \in SUBSET threads, NEW inf \in InfoType,
               SwappedOut(thr, inf), SelAndRunThread(thr, inf)
        PROVE  PrioritiesListed'
    <3>1. \A t \in thr : inf[t].priority = info[t].priority
      BY <2>2 DEF SwappedOut
    <3>2. thr \in SUBSET ThreadIds
      BY DEF TypeOK
    <3>3. /\ threads' = thr /\ UNCHANGED <<classPriorityMap, maxPriority>>
          /\ Deadlocks(inf) \/ \E n : Runs(inf, n)
      BY <2>2, <3>2, SelAndRunThreadCases
    <3>4. \A t \in thr : info'[t].priority = inf[t].priority
      BY <3>2, <3>3, RunsInfo DEF Deadlocks
    <3>5. QED
      BY <1>1, <3>1, <3>3, <3>4
  <2>3. QED
    BY <1>4, <2>1, <2>2, SchedulerSteps
<1>5. CASE User
  <2>1. CASE UserPrint \/ UserContinue
    BY <1>1, <2>1 DEF UserPrint, UserContinue
  <2>2. ASSUME NEW t \in ThreadIds, UserSelThread(t) PROVE PrioritiesListed'
    <3>1. CASE curthread \in threads
      <4> DEFINE inf == SwapOutCurrent("Sleeping", NoCall, stkm)
      <4>1. info' = [inf EXCEPT ![t] = [@ EXCEPT !.status = "Running", !.on = NoCall]]
        BY <2>2, <3>1 DEF UserSelThread
      <4>2. \A u \in ThreadIds : inf[u].priority = info[u].priority
        BY DEF SwapOutCurrent, TypeOK, ThreadInfos
      <4>3. inf \in InfoType
        BY SwapOutCurrentType DEF TypeOK, Statuses
      <4> HIDE DEF inf
      <4>4. \A u \in ThreadIds : info'[u].priority = inf[u].priority
        BY <4>1, <4>3 DEF InfoType, ThreadInfos
      <4>5. SameThreads
        BY <2>2, <4>2, <4>4 DEF UserSelThread, TypeOK
      <4>6. QED
        BY <1>1, <4>5
    <3>2. CASE curthread \notin threads
      BY <1>1, <2>2, <3>2 DEF UserSelThread
    <3>3. QED
      BY <3>1, <3>2
  <2>3. ASSUME NEW pm \in Priorities, UserPriorityFile(pm) PROVE PrioritiesListed'
    <3>1. /\ pm \in PriorityMaps /\ "priorityfile" \in UserCmds
          /\ classPriorityMap' = pm /\ maxPriority' = MaxPriority(pm) /\ threads' = threads
          /\ info' = [info EXCEPT ![DebugThread] = [@ EXCEPT !.priority = MaxPriority(pm)]]
      BY <2>3, SchdAssumption DEF UserPriorityFile, PriorityMaps
    <3>2. /\ MaxPriority(pm) \in Nat /\ MaxPriority(pm) > DefaultPriority
          /\ \A o \in Objs : pm[o] < MaxPriority(pm)
      BY <3>1, MaxPriorityIsMax
    <3>3. \A o \in Objs : pm[o] \in Int /\ pm[o] # 0
      BY <3>1 DEF SoundPriorities, PriorityMaps, NoEntry
    <3>4. \A q \in FilePriorities : q <= MaxPriority(pm)
      BY <3>1, <3>2 DEF FilePriorities, SoundPriorities, DefaultPriority
    <3>5. \A o \in Objs : pm[o] \in FilePriorities
      BY DEF FilePriorities
    <3>6. ASSUME NEW t \in threads
          PROVE  /\ info'[t].priority \in 1 .. MaxPriority(pm)
                 /\ t # DebugThread => info'[t].priority \in FilePriorities
      <4>1. t \in ThreadIds /\ info[t] \in ThreadInfos
        BY DEF TypeOK
      <4>2. CASE t = DebugThread
        <5>1. info'[t].priority = MaxPriority(pm)
          BY <3>1, <4>1, <4>2 DEF TypeOK, ThreadInfos
        <5>2. QED
          BY <3>2, <4>2, <5>1 DEF DefaultPriority
      <4>3. CASE t # DebugThread
        <5>1. info'[t] = info[t]
          BY <3>1, <4>1, <4>3 DEF TypeOK
        <5>2. info[t].priority \in FilePriorities /\ info[t].priority \in 1 .. maxPriority
          BY <4>3 DEF PrioritiesListed
        <5>3. info[t].priority <= MaxPriority(pm) /\ info[t].priority >= 1 /\ info[t].priority \in Int
          BY <3>4, <5>2 DEF TypeOK
        <5>4. QED
          BY <3>2, <5>1, <5>2, <5>3
      <4>4. QED
        BY <4>2, <4>3
    <3>7. QED
      <4>1. DefaultPriority <= maxPriority' /\ \A o \in Objs : pm[o] # 0 /\ pm[o] <= maxPriority'
        BY <3>1, <3>2, <3>3 DEF DefaultPriority
      <4>2. QED
        BY <3>1, <3>5, <3>6, <4>1 DEF PrioritiesListed
  <2>4. CASE UserInit
    <3>1. /\ classPriorityMap \in PriorityMaps
          /\ classPriorityMap' = classPriorityMap
          /\ maxPriority' = InitialMaxPriority(classPriorityMap)
      BY <2>4 DEF UserInit, TypeOK, PriorityMaps
    <3>2. DefaultPriority <= maxPriority' /\ maxPriority' \in Nat
          /\ \A o \in Objs : classPriorityMap'[o] <= maxPriority'
      BY <3>1, InitialPrioritiesListed, InitialMaxPriorityType
    <3>3. \A t \in threads' : info'[t].priority = maxPriority'
      <4>1. threads' = {DebugThread} /\ DebugThread \in ThreadIds
        BY <2>4, SchdAssumption DEF UserInit, InitState, DebugThread, ThreadIds
      <4>2. QED
        BY <2>4, <4>1 DEF UserInit, InitState, ThreadInfo
    <3>4. threads' \ {DebugThread} = {}
      BY <2>4 DEF UserInit, InitState
    <3>5. QED
      BY <3>1, <3>2, <3>3, <3>4 DEF PrioritiesListed, DefaultPriority
  <2>5. QED
    BY <1>5, <2>1, <2>2, <2>3, <2>4 DEF User
<1>6. QED
  BY <1>2, <1>3, <1>4, <1>5 DEF Next

LEMMA DeadlockIsRealStep ==
  ASSUME TypeOK, PrioritiesListed, DeadlockIsReal, [Next]_vars
  PROVE  DeadlockIsReal'
<1> USE DEF schdVars, prioVars
<1>1. CASE UNCHANGED vars
  BY <1>1 DEF vars, DeadlockIsReal, RunGuard, active
<1>2. CASE Instruction
  <2>1. session' # "deadlock"
    BY <1>2 DEF Instruction, InMainLoop, ExeGUARD, ExeCONTEXT, ExeAPPLY, ExeRETURN, ExeEXIT,
                ExeEOCL, ExeASSIGN, ExeSTART, ExeSTOPLIST
  <2>2. QED
    BY <2>1 DEF DeadlockIsReal
<1>3. CASE Scheduler
  <2>1. CASE KeepsMachine
    BY <2>1, KeepsMachineInfo DEF DeadlockIsReal
  <2>2. ASSUME NEW thr \in SUBSET threads, NEW inf \in InfoType,
               SwappedOut(thr, inf), SelAndRunThread(thr, inf)
        PROVE  DeadlockIsReal'
    <3>1. thr \in SUBSET ThreadIds
      BY DEF TypeOK
    <3>2. /\ threads' = thr /\ UNCHANGED <<maxPriority, hist, ivar>>
          /\ \/ Candidates(thr, inf, hist, ivar) = {} /\ Deadlocks(inf)
             \/ \E n : Runs(inf, n)
      BY <2>2, <3>1, SelAndRunThreadCases
    <3>3. CASE \E n : Runs(inf, n)
      BY <1>3, <3>3 DEF Runs, DeadlockIsReal, Scheduler, HandleGuard, HandleEndOfSlice,
                        HandleDebugSuccess, HandleThreadSuccess
    <3>4. CASE Candidates(thr, inf, hist, ivar) = {} /\ Deadlocks(inf)
      <4>1. \A t \in thr : Listed(inf, t)
        BY <2>2 DEF Listed, SwappedOut, PrioritiesListed
      <4>2. \A t \in thr : inf[t].status = "Blocked" /\ ~RunGuard(hist, ivar, inf[t].on)
        BY <3>4, <4>1 DEF Candidates, Selectable
      <4>3. threads' = thr /\ info' = inf /\ hist' = hist /\ ivar' = ivar
        BY <3>2, <3>4 DEF Deadlocks
      <4>4. QED
        BY <4>2, <4>3 DEF DeadlockIsReal, RunGuard, active
    <3>5. QED
      BY <3>2, <3>3, <3>4
  <2>3. QED
    BY <1>3, <2>1, <2>2, SchedulerSteps
<1>4. CASE User
  <2>1. session' # "deadlock"
    BY <1>4 DEF User, AtPrompt, UserPrint, UserContinue, UserSelThread, UserPriorityFile,
                UserInit, InitState
  <2>2. QED
    BY <2>1 DEF DeadlockIsReal
<1>5. QED
  BY <1>1, <1>2, <1>3, <1>4 DEF Next

\* The scheduler reports a deadlock only when every thread waits for a permission
\* predicate that is false, whatever the program, the slices and the commands,
\* when the priorities are sound.
THEOREM DeadlockReportsAreReal ==
  ASSUME SoundPriorities
  PROVE  Spec => []DeadlockIsReal
<1> DEFINE IInv == TypeOK /\ PrioritiesListed /\ DeadlockIsReal
<1>1. Init => IInv
  BY InitTypeOK, InitPrioritiesListed DEF Init, InitState, DeadlockIsReal
<1>2. IInv /\ [Next]_vars => IInv'
  BY NextTypeOK, PrioritiesListedStep, DeadlockIsRealStep
<1>3. IInv => DeadlockIsReal
  OBVIOUS
<1>4. QED
  BY <1>1, <1>2, <1>3, PTL DEF Spec

-----------------------------------------------------------------------------
(* Priorities.                                                               *)

\* A candidate that comes first has the highest priority of the candidates.
LEMMA SelectedIsHighest ==
  ASSUME PriorityBased, TypeOK, NEW thr \in SUBSET ThreadIds, NEW inf \in InfoType,
         SelAndRunThread(thr, inf), session' # "deadlock",
         \A t \in thr : inf[t].priority \in 1 .. maxPriority,
         NEW t \in thr, info'[t].priority > info'[curthread'].priority
  PROVE  info'[t].status = "Blocked" /\ ~RunGuard(hist, ivar, info'[t].on)
<1> DEFINE cands == Candidates(thr, inf, hist, ivar)
           n == FindNextThread(thr, inf, curthread, hist, ivar)
<1>1. cands # {} /\ Runs(inf, n) /\ hist' = hist /\ ivar' = ivar
  <2>1. cands # {}
    BY DEF SelAndRunThread
  <2>2. n \in cands /\ cands \subseteq ThreadIds
    BY <2>1, FirstCandidate DEF TypeOK, InfoType, Candidates
  <2>3. QED
    BY <2>1, <2>2 DEF SelAndRunThread, Runs
<1>2. \A u \in cands : Before(inf, curthread, n, u)
  BY <1>1, FirstCandidate DEF TypeOK, InfoType
<1>3. curthread' = n /\ \A u \in ThreadIds : info'[u].priority = inf[u].priority
  BY <1>1, RunsInfo DEF Runs
<1>4. n \in thr /\ inf[t].priority > inf[n].priority
  <2>1. n \in cands
    BY <1>1, FirstCandidate DEF TypeOK, InfoType
  <2>2. n \in thr
    BY <2>1 DEF Candidates
  <2>3. QED
    BY <1>3, <2>2
<1>5. inf[t].priority \in Int /\ inf[n].priority \in Int
  BY <1>4
<1> HIDE DEF n
<1>6. ~Before(inf, curthread, n, t)
  BY <1>4, <1>5 DEF Before
<1>7. t \notin cands /\ t # n
  BY <1>2, <1>4, <1>5, <1>6
<1>8. Listed(inf, t)
  BY DEF Listed
<1>9. inf[t].status = "Blocked" /\ ~RunGuard(hist, ivar, inf[t].on)
  BY <1>7, <1>8 DEF Candidates, Selectable
<1>10. info'[t] = inf[t]
  BY <1>1, <1>7, RunsInfo
<1>11. QED
  BY <1>9, <1>10

Respected ==
  session = "running" /\ session' = "running" /\ curthread' # curthread =>
    \A t \in threads' : info'[t].priority > info'[curthread'].priority =>
       info'[t].status = "Blocked" /\ ~RunGuard(hist, ivar, info'[t].on)

LEMMA RespectedStep ==
  ASSUME PriorityBased, TypeOK, PrioritiesListed, [Next]_vars
  PROVE  Respected
<1> USE DEF schdVars, prioVars
<1> SUFFICES ASSUME session = "running", session' = "running", curthread' # curthread,
                    NEW t \in threads', info'[t].priority > info'[curthread'].priority
             PROVE  info'[t].status = "Blocked" /\ ~RunGuard(hist, ivar, info'[t].on)
  BY DEF Respected
<1>1. ~UNCHANGED vars
  BY DEF vars
<1>2. ~Instruction
  BY DEF Instruction, ExeGUARD, ExeCONTEXT, ExeAPPLY, ExeRETURN, ExeEXIT, ExeEOCL, ExeASSIGN, ExeSTART,
         ExeSTOPLIST
<1>3. ~User
  BY DEF User, AtPrompt, UserPrint, UserContinue, UserSelThread, UserPriorityFile, UserInit
<1>4. Scheduler /\ ~KeepsMachine
  BY <1>1, <1>2, <1>3 DEF Next, KeepsMachine
<1>5. PICK thr \in SUBSET threads, inf \in InfoType :
        SwappedOut(thr, inf) /\ SelAndRunThread(thr, inf)
  BY <1>4, SchedulerSteps
<1>6. threads' = thr /\ thr \in SUBSET ThreadIds
  BY <1>5 DEF SelAndRunThread, TypeOK
<1>7. \A u \in thr : inf[u].priority \in 1 .. maxPriority
  BY <1>5 DEF SwappedOut, PrioritiesListed
<1>8. QED
  BY <1>5, <1>6, <1>7, SelectedIsHighest

\* Among the threads that can go on SelAndRunThread selects one of the highest
\* priority (SortTheThreads, FindNextThread), for every number of threads and
\* whatever files the user loads, when the priorities are sound.
THEOREM PrioritiesAreRespected ==
  ASSUME PriorityBased, SoundPriorities
  PROVE  Spec => PriorityIsRespected
<1>1. Init => TypeOK /\ PrioritiesListed
  BY InitTypeOK, InitPrioritiesListed
<1>2. TypeOK /\ PrioritiesListed /\ [Next]_vars => (TypeOK /\ PrioritiesListed)'
  BY NextTypeOK, PrioritiesListedStep
<1>3. TypeOK /\ PrioritiesListed /\ [Next]_vars => [Respected]_vars
  BY RespectedStep
<1>4. PriorityIsRespected <=> [][Respected]_vars
  BY DEF PriorityIsRespected, Respected
<1>5. QED
  BY <1>1, <1>2, <1>3, <1>4, PTL DEF Spec

-----------------------------------------------------------------------------
(* One thread is Running.                                                    *)

\* A new thread's id is none that is in use.
IdsHandedOut ==
  /\ curthread < next_thread_id
  /\ \A t \in threads : t < next_thread_id

Errors == {"deadlock", "rterror", "interror"}

LEMMA OneRunningStep ==
  ASSUME TypeOK, IdsHandedOut, OneRunningThread, [Next]_vars
  PROVE  IdsHandedOut' /\ OneRunningThread'
<1> USE DEF schdVars, prioVars
<1> DEFINE Same == /\ UNCHANGED <<curthread, next_thread_id>>
                   /\ threads' \subseteq threads
                   /\ \A t \in threads' : info'[t].status = info[t].status
                   /\ session \notin Errors \/ session' = session
<1>1. ASSUME Same PROVE IdsHandedOut' /\ OneRunningThread'
  BY <1>1 DEF IdsHandedOut, OneRunningThread, Errors
<1>2. CASE UNCHANGED vars
  BY <1>1, <1>2 DEF vars
<1>3. CASE Instruction
  <2>0. session = "running"
    BY <1>3 DEF Instruction, InMainLoop, ExeGUARD, ExeCONTEXT, ExeAPPLY, ExeRETURN, ExeEXIT,
                ExeEOCL, ExeASSIGN, ExeSTART, ExeSTOPLIST
  <2>1. ASSUME UNCHANGED schdVars PROVE IdsHandedOut' /\ OneRunningThread'
    BY <1>1, <2>0, <2>1 DEF Errors
  <2>2. ASSUME NEW c \in Calls, ExeGUARD(c) PROVE IdsHandedOut' /\ OneRunningThread'
    BY <2>1, <2>2 DEF ExeGUARD
  <2>3. CASE ExeCONTEXT \/ ExeAPPLY \/ ExeRETURN \/ ExeEXIT \/ ExeEOCL \/ ExeASSIGN
    BY <2>1, <2>3 DEF ExeCONTEXT, ExeAPPLY, ExeRETURN, ExeEXIT, ExeEOCL, ExeASSIGN
  <2>4. ASSUME NEW o \in Objs, ExeSTART(o) PROVE IdsHandedOut' /\ OneRunningThread'
    <3>1. CASE o \notin ThreadObjs
      BY <2>1, <2>4, <3>1 DEF ExeSTART
    <3>2. CASE o \in ThreadObjs
      <4> DEFINE new == ThreadInfo(o, "Sleeping", "body", SetThreadPriority(o))
      <4>1. /\ info' = [info EXCEPT ![next_thread_id] = new]
            /\ threads' = threads \cup {next_thread_id}
            /\ next_thread_id' = next_thread_id + 1
            /\ UNCHANGED <<curthread, session>>
        BY <2>4, <3>2 DEF ExeSTART
      <4>2. new.status = "Sleeping"
        BY DEF ThreadInfo
      <4>3. next_thread_id \in ThreadIds /\ curthread \in Int /\ \A t \in threads : t \in Int
        BY <2>4, <3>2, SchdAssumption DEF ExeSTART, TypeOK, ThreadIds
      <4> HIDE DEF new
      <4>4. IdsHandedOut'
        BY <4>1, <4>3 DEF IdsHandedOut, ThreadIds
      <4>5. ASSUME session' \notin Errors, NEW t \in threads'
            PROVE  info'[t].status = "Running" <=> t = curthread'
        <5>1. CASE t = next_thread_id
          BY <4>1, <4>2, <4>3, <5>1 DEF IdsHandedOut, TypeOK
        <5>2. CASE t # next_thread_id
          BY <4>1, <4>5, <5>2 DEF OneRunningThread, Errors, TypeOK
        <5>3. QED
          BY <5>1, <5>2
      <4>6. QED
        BY <4>4, <4>5 DEF OneRunningThread, Errors
    <3>3. QED
      BY <3>1, <3>2
  <2>5. ASSUME NEW objs \in SUBSET Objs, ExeSTOPLIST(objs)
        PROVE  IdsHandedOut' /\ OneRunningThread'
    <3>1. PICK done \in SUBSET objs :
            /\ threads' = threads \ ThreadsOf(done)
            /\ info' = [t \in ThreadIds |-> IF t \in ThreadsOf(done) THEN NoThread ELSE info[t]]
      BY <2>5 DEF ExeSTOPLIST
    <3>2. Same
      BY <2>0, <2>5, <3>1 DEF ExeSTOPLIST, TypeOK, Errors
    <3>3. QED
      BY <1>1, <3>2
  <2>6. QED
    BY <1>3, <2>2, <2>3, <2>4, <2>5 DEF Instruction
<1>4. CASE Scheduler
  <2>0. session = "running"
    BY <1>4 DEF Scheduler, HandleGuard, HandleEndOfSlice, HandleDebugSuccess, HandleThreadSuccess
  <2>1. CASE KeepsMachine
    BY <1>1, <2>0, <2>1, KeepsMachineInfo DEF KeepsMachine, Errors
  <2>2. ASSUME NEW thr \in SUBSET threads, NEW inf \in InfoType,
               SwappedOut(thr, inf), SelAndRunThread(thr, inf)
        PROVE  IdsHandedOut' /\ OneRunningThread'
    <3>1. thr \in SUBSET ThreadIds
      BY DEF TypeOK
    <3>2. /\ threads' = thr /\ next_thread_id' = next_thread_id
          /\ \/ Deadlocks(inf)
             \/ \E n \in Candidates(thr, inf, hist, ivar) : Runs(inf, n)
      BY <2>2, <3>1, SelAndRunThreadCases
    <3>3. \A t \in thr : inf[t].status # "Running"
      BY <2>0, <2>2 DEF SwappedOut, OneRunningThread
    <3>4. CASE Deadlocks(inf)
      BY <3>2, <3>4 DEF Deadlocks, IdsHandedOut, OneRunningThread
    <3>5. ASSUME NEW n \in Candidates(thr, inf, hist, ivar), Runs(inf, n)
          PROVE  IdsHandedOut' /\ OneRunningThread'
      <4>1. n \in thr /\ curthread' = n
        BY <3>5 DEF Candidates, Runs
      <4>2. info'[n].status = "Running" /\ \A t \in thr : t # n => info'[t] = inf[t]
        BY <3>1, <3>5, RunsInfo
      <4>3. QED
        BY <3>2, <3>3, <4>1, <4>2 DEF IdsHandedOut, OneRunningThread
    <3>6. QED
      BY <3>2, <3>4, <3>5
  <2>3. QED
    BY <1>4, <2>1, <2>2, SchedulerSteps
<1>5. CASE User
  <2>1. CASE UserPrint \/ UserContinue
    BY <1>1, <2>1 DEF UserPrint, UserContinue, AtPrompt, Errors
  <2>2. ASSUME NEW t \in ThreadIds, UserSelThread(t) PROVE IdsHandedOut' /\ OneRunningThread'
    <3>1. CASE curthread \in threads
      <4> DEFINE inf == SwapOutCurrent("Sleeping", NoCall, stkm)
      <4>1. /\ info' = [inf EXCEPT ![t] = [@ EXCEPT !.status = "Running", !.on = NoCall]]
            /\ t \in threads /\ curthread' = t
            /\ UNCHANGED <<threads, next_thread_id, session>>
            /\ session \notin Errors
        BY <2>2, <3>1 DEF UserSelThread, AtPrompt, Errors
      <4>2. inf[curthread].status = "Sleeping" /\ \A u \in threads \ {curthread} : inf[u] = info[u]
        BY <3>1 DEF SwapOutCurrent, TypeOK, ThreadInfos
      <4>3. inf \in InfoType
        BY SwapOutCurrentType DEF TypeOK, Statuses
      <4>4. \A u \in threads : inf[u].status # "Running"
        BY <4>1, <4>2 DEF OneRunningThread, Errors
      <4> HIDE DEF inf
      <4>5. info'[t].status = "Running" /\ \A u \in threads : u # t => info'[u] = inf[u]
        BY <4>1, <4>3 DEF InfoType, ThreadInfos, TypeOK
      <4>6. QED
        BY <4>1, <4>4, <4>5 DEF IdsHandedOut, OneRunningThread
    <3>2. CASE curthread \notin threads
      BY <2>2, <3>2 DEF UserSelThread, IdsHandedOut, OneRunningThread
    <3>3. QED
      BY <3>1, <3>2
  <2>3. ASSUME NEW pm \in Priorities, UserPriorityFile(pm)
        PROVE  IdsHandedOut' /\ OneRunningThread'
    <3>1. \A t \in threads : info'[t].status = info[t].status
      BY <2>3 DEF UserPriorityFile, TypeOK, ThreadInfos
    <3>2. QED
      BY <1>1, <2>3, <3>1 DEF UserPriorityFile
  <2>4. CASE UserInit
    <3>1. InitState(threads', info', curthread', next_thread_id', maxPriority', stkm', hist',
                    ivar', session')
      BY <2>4 DEF UserInit
    <3>2. QED
      BY <3>1, SchdAssumption
         DEF InitState, ThreadInfo, IdsHandedOut, OneRunningThread, DebugThread, ThreadIds
  <2>5. QED
    BY <1>5, <2>1, <2>2, <2>3, <2>4 DEF User
<1>6. QED
  BY <1>2, <1>3, <1>4, <1>5 DEF Next

\* Exactly the current thread is Running, for every program and sequence of
\* commands, until an error ends the evaluation.
THEOREM OneThreadRuns == Spec => []OneRunningThread
<1> DEFINE IInv == TypeOK /\ IdsHandedOut /\ OneRunningThread
<1>1. Init => IInv
  <2>1. Init => IdsHandedOut /\ OneRunningThread
    BY SchdAssumption
       DEF Init, InitState, ThreadInfo, IdsHandedOut, OneRunningThread, DebugThread, ThreadIds
  <2>2. QED
    BY <2>1, InitTypeOK
<1>2. IInv /\ [Next]_vars => IInv'
  BY NextTypeOK, OneRunningStep
<1>3. IInv => OneRunningThread
  OBVIOUS
<1>4. QED
  BY <1>1, <1>2, <1>3, PTL DEF Spec
=============================================================================
