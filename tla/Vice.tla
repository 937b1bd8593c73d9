-------------------------------- MODULE Vice --------------------------------
(***************************************************************************)
(* The distributed interpreter of the VICE build: the CPUs and buses of a  *)
(* system, each with a clock of its own (SYSTEM, code/eval/evalsystem.cc), *)
(* and the part of the scheduler that gives them turns and runs a CPU's    *)
(* threads and messages (SCHD, the VICE branches of code/eval/schd.cc).    *)
(*                                                                         *)
(* The executed model has one object on every node; a thread works, calls  *)
(* operations of objects on other nodes, tests and changes the instance    *)
(* variable its permission predicate reads, and starts threads.  Settings  *)
(* are the defaults of the build (PureCooperative, RoundRobin).  Periodic  *)
(* and sporadic threads and the stop statement are left out.               *)
(***************************************************************************)
EXTENDS Integers, Sequences, FiniteSets

CONSTANTS
  CPUs,            \* the CPUs the system declares, connected by one bus
  VCPU,            \* the virtual CPU (nil), where the debug thread runs
  VBUS, BUS,       \* the virtual bus, which serves the virtual CPU, and the bus of the CPUs
  BusTime,         \* what a message costs on BUS (CalcDuration); VBUS is infinitely fast
  Ops,             \* operations that objects call on each other
  SyncOps,         \* those that are not declared async
  StaticOps,       \* the static ones among the asynchronous
  Rank,            \* the order of the names of CPUs, buses and operations
  OpPrio,          \* prio_tab: the priorities the CPUs give the operations
  Durations,       \* what one instruction may cost
  GuardTime,       \* what one evaluation of a permission predicate costs
  TaskSwitch,      \* Settings.GetTaskSwitch()
  StepSize,        \* Settings.GetStepSize()
  FirstSwap,       \* the swap time of a new CPU (EmptyCPU)
  MaxTime,         \* bound: no clock that has passed it moves on
  MaxMes,          \* bound: message ids at which calls still start; each has a response
  MaxThreads,      \* bound: thread ids handed out
  NoMessage        \* a thread that does not execute a message

Nodes == CPUs \cup {VCPU}

Buses == {VBUS, BUS}

ThreadIds == 1 .. MaxThreads

DebugThread == 1

NoThread == 0

DefaultPriority == 1

ASSUME ViceAssumption ==
  /\ VCPU \notin CPUs
  /\ CPUs # {}
  /\ IsFiniteSet(CPUs)
  /\ VBUS # BUS
  /\ IsFiniteSet(Ops)
  /\ SyncOps \subseteq Ops
  /\ StaticOps \subseteq Ops \ SyncOps
  /\ Rank \in [CPUs \cup Buses \cup Ops -> Nat]
  /\ \A x, y \in DOMAIN Rank : Rank[x] = Rank[y] => x = y
  /\ OpPrio \in [Ops -> Nat]
  /\ Durations \subseteq Nat
  /\ BusTime \in Nat \ {0}
  /\ {GuardTime, TaskSwitch, FirstSwap, MaxTime, MaxMes} \subseteq Nat
  /\ StepSize \in Nat \ {0}
  /\ MaxThreads \in Nat \ {0}

VARIABLES
  time, idle,      \* the time a CPU has worked until, and has been idle until
  cur,             \* its current thread: curthread_m, tobekilled and lastswapedin
  gate,            \* what the permission predicate on the node reads
  queue,           \* CPUSigma.messages: the calls that wait on a node, by operation
  thr,             \* SCHD's threads and cpualloc
  next_thread_id,
  cpusblocked,
  btime, lastuse,  \* a bus's time and the last entry of its log (-1: the log is empty)
  waiting,         \* BUSSigma.waiting: the requests that are not logged yet
  mes,             \* BUSSigma.mes_m
  nextmesid,
  curcpu, swaptime,
  turn             \* what the interpreter is doing

cpuVars == <<time, idle, cur, gate, queue>>
thrVars == <<thr, next_thread_id, cpusblocked>>
busVars == <<btime, lastuse, waiting, mes, nextmesid>>
ctlVars == <<curcpu, swaptime, turn>>
vars == <<time, idle, cur, gate, queue, thr, next_thread_id, cpusblocked,
          btime, lastuse, waiting, mes, nextmesid, curcpu, swaptime, turn>>

-----------------------------------------------------------------------------
(* Types.                                                                    *)

MesIds == 1 .. 2 * MaxMes

\* A call, a broadcast or the response to a call.  "thread" is the thread that
\* awaits the response, NoThread for an asynchronous call; "call" is the id of
\* the call that a response answers.
Messages ==
  [kind : {"call", "broadcast", "response"}, id : MesIds, call : MesIds, time : Nat,
   prio : Nat, op : Ops, from : Nodes, to : SUBSET Nodes, thread : ThreadIds \cup {NoThread}]

ASSUME NoMessageAssumption == NoMessage \notin Messages

Requests == [id : MesIds, time : Nat]

\* "None": not in the map threads.  "awaits" is the message of a SyncOp status.
ThreadInfos ==
  [status : {"None", "Sleeping", "Running", "Blocked", "SyncOp"}, cpu : Nodes, prio : Nat,
   serves : Messages \cup {NoMessage}, awaits : MesIds \cup {0}]

\* "run": the main loop executes the current thread; "sched": EvalScheduler has
\* an EndOfCPUSlice; "bus": ProcessBUS is at work.
Turns ==
  [at : {"run", "sched", "done", "deadlock"}] \cup
  [at : {"bus"}, bus : Buses, newt : Nat, swapt : Nat]

TypeOK ==
  /\ time \in [Nodes -> Nat]
  /\ idle \in [Nodes -> Nat]
  /\ cur \in [Nodes -> ThreadIds \cup {NoThread}]
  /\ gate \in [Nodes -> BOOLEAN]
  /\ queue \in [Nodes -> [Ops -> Seq(Messages)]]
  /\ thr \in [ThreadIds -> ThreadInfos]
  /\ next_thread_id \in 1 .. MaxThreads + 1
  /\ cpusblocked \subseteq Nodes
  /\ btime \in [Buses -> Nat]
  /\ lastuse \in [Buses -> Nat \cup {-1}]
  /\ waiting \in [Buses -> Seq(Requests)]
  /\ mes \in [Buses -> SUBSET Messages]
  /\ nextmesid \in 0 .. 2 * MaxMes
  /\ curcpu \in Nodes
  /\ swaptime \in Nat
  /\ turn \in Turns

-----------------------------------------------------------------------------
(* Clocks.                                                                   *)

MaxVal(x, y) == IF y < x THEN x ELSE y

MinOf(S) == CHOOSE x \in S : \A y \in S : x <= y

\* GetCPUTime, GetTimeOfCPU.
Clock(c) == MaxVal(time[c], idle[c])

\* Bound: the model looks no further than MaxTime on any clock.
WithinHorizon ==
  /\ \A c \in Nodes : Clock(c) <= MaxTime
  /\ \A b \in Buses : btime[b] <= MaxTime

\* The clocks that SmallNameAndNextTime finds: the smallest, and the smallest of
\* the others, which counts only when it differs from the first.
Smallest(clock) == MinOf({clock[x] : x \in DOMAIN clock})
NextTime(clock, first) ==
  IF DOMAIN clock = {first} THEN clock[first]
  ELSE MinOf({clock[x] : x \in DOMAIN clock \ {first}})

CPUClock == [c \in Nodes |-> Clock(c)]

LastOf(S) == CHOOSE x \in S : \A y \in S : Rank[y] <= Rank[x]

\* FindFirstCPU, FindFirstBUS: the virtual CPU comes first when it is among the
\* earliest; of others the one whose name comes last.
FirstCPU ==
  LET t == Smallest(CPUClock)
  IN  IF Clock(VCPU) = t THEN VCPU ELSE LastOf({c \in CPUs : Clock(c) = t})

FirstBUS == LastOf({b \in Buses : btime[b] = Smallest(btime)})

\* Until when the first of "clock" may go on before the first of the other kind.
SwapTime(clock, first, other) ==
  LET next == NextTime(clock, first)
  IN  IF next = clock[first] \/ other < next THEN other ELSE next

-----------------------------------------------------------------------------
(* Messages and requests.                                                    *)

\* Mutant: what is not later ends one place too early.
InsertByTime_offByOne(s, m) ==
  LET k == Cardinality({i \in DOMAIN s : s[i].time <= m.time})
  IN  SubSeq(s, 1, k - 1) \o <<m>> \o SubSeq(s, k + 1, Len(s))

\* InsertMessageRequest, InsertMesInCPU: behind everything that is not later.
InsertByTime(s, m) ==
  LET k == Cardinality({i \in DOMAIN s : s[i].time <= m.time})
  IN  SubSeq(s, 1, k) \o <<m>> \o SubSeq(s, k + 1, Len(s))

\* FindBUSFromClass.
BUSBetween(c, n) == IF VCPU \in {c, n} THEN VBUS ELSE BUS

Duration(b) == IF b = VBUS THEN 0 ELSE BusTime

\* Earlier, FindFirstMessage: the ids are tried from the highest down, and one
\* replaces the first found so far only when it is strictly earlier.
Earlier(m, n) == m.time < n.time \/ (m.time = n.time /\ m.prio < n.prio)
FindFirstMessage(ms) ==
  CHOOSE m \in ms : \A n \in ms \ {m} : Earlier(m, n) \/ (~Earlier(n, m) /\ m.id > n.id)

BUSWork(b, swapt) == waiting[b] # <<>> \/ \E m \in mes[b] : m.time <= swapt

\* Mutant: back to the time at which the message would have to be under way.
StepBUSTimeBack_early(b, t) ==
  IF lastuse[b] = -1 \/ (lastuse[b] < t /\ t < btime[b]) THEN t - Duration(b) ELSE btime[b]

\* StepBUSTimeBack, which steps the time of a bus that was never used forward too.
StepBUSTimeBack(b, t) ==
  IF lastuse[b] = -1 \/ (lastuse[b] < t /\ t < btime[b]) THEN t ELSE btime[b]

-----------------------------------------------------------------------------
(* Threads.                                                                  *)

Alive(t) == thr[t].status # "None"

NewThread(status, c, prio, m) ==
  [status |-> status, cpu |-> c, prio |-> prio, serves |-> m, awaits |-> 0]

\* IncrAbsTime on a CPU that has worked until t: idle time before it is worked off.
IncrAbsTime(c, t, n) == MaxVal(t, idle[c]) + n

\* SwapOut, where the current thread of c is still in the map.
SwapOut(c, t) ==
  IF cur[c] # NoThread /\ Alive(cur[c]) /\ TaskSwitch > 0 THEN IncrAbsTime(c, t, TaskSwitch) ELSE t

\* SortSelectedThreads: round robin from the current thread.  A CPU that never had
\* a current thread has no order, and finds none of its threads.
Position(c, t) == IF t > cur[c] THEN t ELSE t + MaxThreads
ThreadsInTurn(info, c) ==
  {t \in ThreadIds : cur[c] # NoThread /\ info[t].status # "None" /\ info[t].cpu = c}

\* FindNextThread: a Blocked thread may go on when its predicate, evaluated now,
\* is true; a thread that awaits a response may not.
MayGoOn(info, c) ==
  {t \in ThreadsInTurn(info, c) :
     info[t].status # "SyncOp" /\ (info[t].status = "Blocked" => gate[c])}

\* SelAndRunThread on CPU c, which has worked until t.
SelAndRunThread(info, c, t, blocked) ==
  LET ready  == MayGoOn(info, c)
      next   == CHOOSE n \in ready : \A o \in ready : Position(c, n) <= Position(c, o)
      tested == {n \in ThreadsInTurn(info, c) : info[n].status = "Blocked" /\
                    (ready # {} => Position(c, n) <= Position(c, next))}
      t1     == IF tested = {} THEN t
                ELSE IncrAbsTime(c, t, GuardTime * Cardinality(tested))
  IN  IF ready = {}
      THEN /\ time' = [time EXCEPT ![c] = t1]
           /\ idle' = [idle EXCEPT ![c] = MaxVal(t1, @) + StepSize]
           /\ cpusblocked' = blocked \cup {c}
           /\ thr' = info
           /\ turn' = [at |-> IF c \in CPUs /\ blocked \cup {c} = Nodes
                              THEN "deadlock" ELSE "sched"]
           /\ UNCHANGED cur
      ELSE /\ time' = [time EXCEPT ![c] = IF next = cur[c] THEN t1 ELSE SwapOut(c, t1)]
           /\ cpusblocked' = blocked
           /\ thr' = [info EXCEPT ![next].status = "Running"]
           /\ cur' = [cur EXCEPT ![c] = next]
           /\ turn' = [at |-> "run"]
           /\ UNCHANGED idle

-----------------------------------------------------------------------------
(* The main loop.                                                            *)

\* CPUSwapNeeded and IsSyncOpThread: the loop ends.
EndOfCPUSlice ==
  \/ time[curcpu] > swaptime + 2
  \/ thr[cur[curcpu]].status = "SyncOp"

\* The current thread executes an instruction.
Executes == turn.at = "run" /\ ~EndOfCPUSlice /\ WithinHorizon

EndSlice ==
  /\ turn.at = "run"
  /\ EndOfCPUSlice
  /\ turn' = [at |-> "sched"]
  /\ UNCHANGED <<cpuVars, thrVars, busVars, curcpu, swaptime>>

\* INCRTIME and its kind.  What a thread does without it is done in no time, as
\* in the body of a duration statement.
Work(d) ==
  /\ Executes
  /\ time' = [time EXCEPT ![curcpu] = IncrAbsTime(curcpu, @, d)]
  /\ UNCHANGED <<idle, cur, gate, queue, thrVars, busVars, ctlVars>>

\* An assignment to the instance variable that the permission predicate reads.
SetGate(v) ==
  /\ Executes
  /\ gate' = [gate EXCEPT ![curcpu] = v]
  /\ UNCHANGED <<time, idle, cur, queue, thrVars, busVars, ctlVars>>

\* GUARD for an object of this CPU and EvalScheduler's Guard case.
LocalCall ==
  LET t == IncrAbsTime(curcpu, time[curcpu], GuardTime)
  IN  /\ Executes
      /\ \/ /\ gate[curcpu]
            /\ time' = [time EXCEPT ![curcpu] = t]
            /\ UNCHANGED <<idle, cur, thr, cpusblocked, turn>>
         \/ /\ ~gate[curcpu]
            /\ SelAndRunThread([thr EXCEPT ![cur[curcpu]].status = "Blocked"], curcpu, t,
                               cpusblocked)
      /\ UNCHANGED <<gate, queue, next_thread_id, busVars, curcpu, swaptime>>

\* GuardCheck for an object of node n: AddMessageToBUS; the caller of a
\* synchronous operation awaits the response.
NewCall(kind, op, to) ==
  [kind |-> kind, id |-> nextmesid + 1, call |-> nextmesid + 1, time |-> Clock(curcpu),
   prio |-> thr[cur[curcpu]].prio, op |-> op, from |-> curcpu, to |-> to,
   thread |-> IF op \in SyncOps THEN cur[curcpu] ELSE NoThread]

RemoteCall(n, op) ==
  LET m == NewCall("call", op, {n})
      b == BUSBetween(curcpu, n)
  IN  /\ Executes
      /\ n # curcpu
      /\ nextmesid < MaxMes
      /\ nextmesid' = nextmesid + 1
      /\ waiting' = [waiting EXCEPT ![b] = InsertByTime(@, [id |-> m.id, time |-> m.time])]
      /\ mes' = [mes EXCEPT ![b] = @ \cup {m}]
      /\ btime' = [btime EXCEPT ![b] = StepBUSTimeBack(b, m.time)]
      /\ thr' = IF op \in SyncOps
                THEN [thr EXCEPT ![cur[curcpu]].status = "SyncOp", ![cur[curcpu]].awaits = m.id]
                ELSE thr
      /\ UNCHANGED <<cpuVars, lastuse, next_thread_id, cpusblocked, ctlVars>>

\* GuardCheck for a static asynchronous operation: AddBroadcastMessageToBUS, to
\* the objects of its class, which are on the other CPUs.  A broadcast waits for no request.
Broadcast(op) ==
  LET m == NewCall("broadcast", op, CPUs \ {curcpu})
      b == IF curcpu = VCPU THEN VBUS ELSE BUS
  IN  /\ Executes
      /\ op \in StaticOps
      /\ nextmesid < MaxMes
      /\ nextmesid' = nextmesid + 1
      /\ mes' = IF m.to = {} THEN mes ELSE [mes EXCEPT ![b] = @ \cup {m}]
      /\ btime' = [btime EXCEPT ![b] = StepBUSTimeBack(b, m.time)]
      /\ UNCHANGED <<cpuVars, thrVars, lastuse, waiting, ctlVars>>

\* StartNewThread for the object of node n.
StartNewThread(n) ==
  /\ Executes
  /\ next_thread_id <= MaxThreads
  /\ next_thread_id' = next_thread_id + 1
  /\ thr' = [thr EXCEPT ![next_thread_id] = NewThread("Sleeping", n, DefaultPriority, NoMessage)]
  /\ time' = [time EXCEPT ![n] = Clock(n)]
  /\ UNCHANGED <<idle, cur, gate, queue, cpusblocked, busVars, ctlVars>>

\* RETMES: AddReturnMessageToBUS.  The response is ready only after the time the
\* bus takes, which ProcessBUS adds once more.
Response(m) ==
  [m EXCEPT !.kind = "response", !.id = nextmesid + 1,
            !.time = Clock(curcpu) + Duration(BUSBetween(curcpu, m.from)),
            !.prio = thr[cur[curcpu]].prio, !.from = curcpu, !.to = {m.from}]

\* The current thread comes to its end: RETMES, where a caller awaits a response,
\* and EvalScheduler's Success case.
Success ==
  LET t == cur[curcpu]
      m == thr[t].serves
      b == BUSBetween(curcpu, m.from)
  IN  /\ Executes
      /\ \/ /\ IF m = NoMessage THEN TRUE ELSE m.thread = NoThread
            /\ UNCHANGED busVars
         \/ /\ IF m = NoMessage THEN FALSE ELSE m.thread # NoThread
            /\ nextmesid < 2 * MaxMes
            /\ nextmesid' = nextmesid + 1
            /\ waiting' = [waiting EXCEPT
                 ![b] = InsertByTime(@, [id |-> nextmesid + 1, time |-> Clock(curcpu)])]
            /\ mes' = [mes EXCEPT ![b] = @ \cup {Response(m)}]
            /\ btime' = [btime EXCEPT ![b] = StepBUSTimeBack(b, Clock(curcpu))]
            /\ UNCHANGED lastuse
      /\ time' = [time EXCEPT ![curcpu] = SwapOut(curcpu, @)]
      /\ thr' = IF t = DebugThread THEN thr
                ELSE [thr EXCEPT ![t] = NewThread("None", VCPU, DefaultPriority, NoMessage)]
      /\ turn' = [at |-> IF t = DebugThread THEN "done" ELSE "sched"]
      /\ UNCHANGED <<idle, cur, gate, queue, next_thread_id, cpusblocked, curcpu, swaptime>>

-----------------------------------------------------------------------------
(* EvalScheduler's EndOfCPUSlice case.                                       *)

\* The CPU c has its turn, until its swap time.
CPUTurn(c) ==
  /\ turn.at = "sched"
  /\ WithinHorizon
  /\ Smallest(CPUClock) < Smallest(btime)
  /\ c = FirstCPU

CPUSwap(c) == SwapTime(CPUClock, c, Smallest(btime))

ThreadsOf(c) == {t \in ThreadIds : Alive(t) /\ thr[t].cpu = c}

OpsWithMessages(c) == {op \in Ops : queue[c][op] # <<>>}

\* CPUWork.
CPUWork(c) ==
  \/ \E t \in ThreadsOf(c) : thr[t].status # "SyncOp"
  \/ OpsWithMessages(c) # {}

\* FindFirstOpMes: of the operations with messages that have the highest
\* priority, the one whose name comes first.
FirstOp(c) ==
  LET ops  == OpsWithMessages(c)
      best == {op \in ops : \A o \in ops : OpPrio[o] <= OpPrio[op]}
  IN  CHOOSE op \in best : \A o \in best : Rank[op] <= Rank[o]

\* CurCPUAnyMessages.
AnyMessages(c) ==
  OpsWithMessages(c) # {} /\ Head(queue[c][FirstOp(c)]).time <= CPUSwap(c)

CPUIdles(c) ==
  /\ CPUTurn(c)
  /\ ~CPUWork(c)
  /\ idle' = [idle EXCEPT ![c] = Clock(c) + StepSize]
  /\ UNCHANGED <<time, cur, gate, queue, thrVars, busVars, ctlVars>>

\* SwapOut, SelAndRunMessageCall, RunMessage and RunMessageThread.
RunMessage(c) ==
  LET op == FirstOp(c)
      m  == Head(queue[c][op])
      t  == next_thread_id
  IN  /\ CPUTurn(c)
      /\ AnyMessages(c)
      /\ t <= MaxThreads
      /\ next_thread_id' = t + 1
      /\ queue' = [queue EXCEPT ![c][op] = Tail(@)]
      /\ thr' = [thr EXCEPT ![t] = NewThread("Running", c, OpPrio[op], m)]
      /\ time' = [time EXCEPT ![c] = MaxVal(SwapOut(c, @), idle[c])]
      /\ cur' = [cur EXCEPT ![c] = t]
      /\ curcpu' = c
      /\ swaptime' = CPUSwap(c)
      /\ turn' = [at |-> "run"]
      /\ UNCHANGED <<idle, gate, cpusblocked, busVars>>

RunThread(c) ==
  /\ CPUTurn(c)
  /\ CPUWork(c)
  /\ ~AnyMessages(c)
  /\ ThreadsOf(c) # {}
  /\ curcpu' = c
  /\ swaptime' = CPUSwap(c)
  /\ SelAndRunThread(thr, c, time[c], cpusblocked \ {c})
  /\ UNCHANGED <<gate, queue, next_thread_id, busVars>>

\* No thread, and no message before the swap time.
CPUWaits(c) ==
  /\ CPUTurn(c)
  /\ CPUWork(c)
  /\ ~AnyMessages(c)
  /\ ThreadsOf(c) = {}
  /\ curcpu' = c
  /\ swaptime' = CPUSwap(c)
  /\ turn' = [at |-> IF cpusblocked = Nodes THEN "deadlock" ELSE "sched"]
  /\ idle' = IF cpusblocked = Nodes THEN idle ELSE [idle EXCEPT ![c] = Clock(c) + StepSize]
  /\ cpusblocked' = cpusblocked \cup {c}
  /\ UNCHANGED <<time, cur, gate, queue, thr, next_thread_id, busVars>>

BUSTurn(b) ==
  LET s == SwapTime(btime, b, Smallest(CPUClock))
  IN
  /\ turn.at = "sched"
  /\ WithinHorizon
  /\ Smallest(btime) <= Smallest(CPUClock)
  /\ b = FirstBUS
  /\ \/ /\ ~BUSWork(b, s)
        /\ btime' = [btime EXCEPT ![b] = @ + StepSize]
        /\ UNCHANGED turn
     \/ /\ BUSWork(b, s)
        /\ turn' = [at |-> "bus", bus |-> b, newt |-> btime[b], swapt |-> s]
        /\ UNCHANGED btime
  /\ UNCHANGED <<cpuVars, thrVars, lastuse, waiting, mes, nextmesid, curcpu, swaptime>>

\* Mutant: a request of the time of the message is left behind.
Requested_strictly(b, m) == {i \in DOMAIN waiting[b] : waiting[b][i].time < m.time}

\* One turn of ProcessBUS's loop: the requests up to the first message are logged,
\* then the message is logged, takes its time and is delivered.  There is a first
\* message, for a request waits no longer than its message (RequestsComeFirst).
Requested(b, m) == {i \in DOMAIN waiting[b] : waiting[b][i].time <= m.time}

\* Mutant: the last use of the bus is not looked at.
TimeOfRequests_alone(b, m) ==
  LET n == Cardinality(Requested(b, m))
  IN  IF n = 0 THEN turn.newt ELSE waiting[b][n].time

\* newt after the requests: the last one's time or, if later, the last use.
TimeOfRequests(b, m) ==
  LET n == Cardinality(Requested(b, m))
  IN  IF n = 0 THEN turn.newt ELSE MaxVal(waiting[b][n].time, lastuse[b])

\* Mutant: the clock is stepped back over the work that was done.
GiveBack_all(n, t) == IF time[n] < idle[n] THEN t ELSE idle[n]

\* StepCPUTimeBack on delivery at time t: idle time is given back, work is not.
GiveBack(n, t) == IF time[n] < idle[n] THEN MaxVal(time[n], t) ELSE idle[n]

Deliver(m, t) ==
  CASE m.kind = "response" ->
         \E n \in m.to :
           /\ thr' = [thr EXCEPT ![m.thread].status = "Running", ![m.thread].awaits = 0]
           /\ time' = [time EXCEPT ![n] = IF @ < idle[n] THEN GiveBack(n, t) ELSE @]
           /\ idle' = [idle EXCEPT ![n] = GiveBack(n, t)]
           /\ UNCHANGED queue
    [] m.kind = "call" ->
         \E n \in m.to :
           /\ queue' = [queue EXCEPT ![n][m.op] = InsertByTime(@, m)]
           /\ time' = [time EXCEPT ![n] = IF @ < idle[n] THEN GiveBack(n, t) ELSE @]
           /\ idle' = [idle EXCEPT ![n] = GiveBack(n, t)]
           /\ UNCHANGED thr
    [] m.kind = "broadcast" ->
           \* InsertBroadMesInCPU writes back the CPU state read before the step.
           /\ queue' = [n \in Nodes |->
                          IF n \in m.to THEN [queue[n] EXCEPT ![m.op] = InsertByTime(@, m)]
                          ELSE queue[n]]
           /\ UNCHANGED <<thr, time, idle>>

Transmit ==
  LET b    == turn.bus
      m    == FindFirstMessage(mes[b])
      n    == Cardinality(Requested(b, m))
      newt == TimeOfRequests(b, m)
      done == MaxVal(newt, m.time) + Duration(b)
  IN  /\ turn.at = "bus"
      /\ turn.newt <= turn.swapt
      /\ BUSWork(b, turn.swapt)
      /\ mes[b] # {}
      /\ waiting' = [waiting EXCEPT ![b] = SubSeq(@, n + 1, Len(@))]
      /\ lastuse' = [lastuse EXCEPT ![b] = newt + Duration(b)]
      /\ mes' = [mes EXCEPT ![b] = @ \ {m}]
      /\ Deliver(m, done)
      /\ turn' = [turn EXCEPT !.newt = done]
      /\ UNCHANGED <<cur, gate, next_thread_id, cpusblocked, btime, nextmesid, curcpu, swaptime>>

EndOfBUSTurn ==
  /\ turn.at = "bus"
  /\ turn.newt > turn.swapt \/ ~BUSWork(turn.bus, turn.swapt)
  /\ btime' = [btime EXCEPT ![turn.bus] = turn.newt]
  /\ turn' = [at |-> "sched"]
  /\ UNCHANGED <<cpuVars, thrVars, lastuse, waiting, mes, nextmesid, curcpu, swaptime>>

-----------------------------------------------------------------------------
(* The specification.                                                        *)

\* StartDebugThread: the debug thread runs on the virtual CPU.
Init ==
  /\ time = [c \in Nodes |-> 0]
  /\ idle = [c \in Nodes |-> 0]
  /\ cur = [c \in Nodes |-> IF c = VCPU THEN DebugThread ELSE NoThread]
  /\ gate = [c \in Nodes |-> TRUE]
  /\ queue = [c \in Nodes |-> [op \in Ops |-> <<>>]]
  /\ thr = [t \in ThreadIds |->
              NewThread(IF t = DebugThread THEN "Running" ELSE "None", VCPU, DefaultPriority,
                        NoMessage)]
  /\ next_thread_id = 2
  /\ cpusblocked = {}
  /\ btime = [b \in Buses |-> 0]
  /\ lastuse = [b \in Buses |-> -1]
  /\ waiting = [b \in Buses |-> <<>>]
  /\ mes = [b \in Buses |-> {}]
  /\ nextmesid = 0
  /\ curcpu = VCPU
  /\ swaptime = FirstSwap
  /\ turn = [at |-> "run"]

Instruction ==
  \/ \E d \in Durations : Work(d)
  \/ \E v \in BOOLEAN : SetGate(v)
  \/ LocalCall
  \/ \E n \in Nodes, op \in Ops : RemoteCall(n, op)
  \/ \E op \in Ops : Broadcast(op)
  \/ \E n \in Nodes : StartNewThread(n)
  \/ Success

Scheduler ==
  \/ EndSlice
  \/ \E c \in Nodes :
       \/ CPUIdles(c)
       \/ RunMessage(c)
       \/ RunThread(c)
       \/ CPUWaits(c)
  \/ \E b \in Buses : BUSTurn(b)
  \/ Transmit
  \/ EndOfBUSTurn

Next == Instruction \/ Scheduler

Spec == Init /\ [][Next]_vars

-----------------------------------------------------------------------------
(* Properties.                                                               *)

\* The calls under way: on a bus or in a queue, executed by a thread, or answered
\* by a response on a bus; and those that a thread awaits the answer of.
OnBuses == UNION {mes[b] : b \in Buses}
Queued(n) == UNION {{queue[n][op][k] : k \in DOMAIN queue[n][op]} : op \in Ops}
Serving == {t \in ThreadIds : thr[t].serves # NoMessage}

CallAt(i, n, s) == [id |-> i, node |-> n, stage |-> s]

SentOnBuses ==
  UNION {{CallAt(m.id, n, "sent") : n \in m.to} : m \in {k \in OnBuses : k.kind # "response"}}
SentAndQueued == UNION {{CallAt(m.id, n, "sent") : m \in Queued(n)} : n \in Nodes}
Executed == {CallAt(thr[t].serves.id, thr[t].cpu, "running") : t \in Serving}
Answered == {CallAt(m.call, m.from, "answered") : m \in {k \in OnBuses : k.kind = "response"}}

Awaited == {thr[t].awaits : t \in {u \in ThreadIds : thr[u].status = "SyncOp"}}

Remote == INSTANCE RemoteCalls WITH
  used    <- nextmesid,
  awaited <- Awaited,
  calls   <- SentOnBuses \cup SentAndQueued \cup Executed \cup Answered

\* A call is executed once on each node it was made to, and a synchronous one is
\* answered once, and its caller resumed by that answer: over CPUs that step back,
\* buses that deliver out of turn and threads that come and go, no message is
\* lost, duplicated or given to another thread.
CallsAreServedOnce == Remote!Spec

\* The log of a bus is in the order of time, however its clock is stepped back
\* between turns (the invariant of BUSSigma in spec/eval-spec/stack-eval.vdm).
LogIsOrdered == [][\A b \in Buses : lastuse'[b] >= lastuse[b]]_vars

\* The time a CPU has worked until never moves back: only idle time is given back
\* when a message or a response arrives in the CPU's past.
WorkIsNeverUndone == [][\A c \in Nodes : time'[c] >= time[c]]_vars

\* A request that is not logged yet belongs to a message that is still on the bus,
\* and the message is not due before it: no message is activated, and logged,
\* before its request.
RequestsComeFirst ==
  \A b \in Buses : \A i \in DOMAIN waiting[b] :
    \E m \in mes[b] : m.id = waiting[b][i].id /\ m.time >= waiting[b][i].time

\* A deadlock is reported only when nothing can happen any more: no message is on
\* its way to a thread that waits, or to be executed by a new one.
DeadlockIsReal ==
  turn.at = "deadlock" =>
    /\ \A b \in Buses : mes[b] = {}
    /\ \A c \in Nodes : OpsWithMessages(c) = {}
=============================================================================
