-------------------------------- MODULE Schd --------------------------------
(***************************************************************************)
(* The thread scheduler SCHD of the VDM++ interpreter (code/eval/schd.cc,  *)
(* the build without VICE) together with the stack machine loop that runs  *)
(* the current thread (stackeval.cc, instructions.cc), the history         *)
(* counters that permission predicates read (evalstate.cc) and the         *)
(* debugger commands that steer it (debug.cc, tbdebug.cc).                 *)
(*                                                                         *)
(* The VDM++ program is abstracted to the instructions that touch the      *)
(* scheduler: a thread in its "body" may at every step call an operation,  *)
(* return, exit, start or stop threads, assign, or do anything else.  The  *)
(* control of the interpreter is kept: which instruction can follow which, *)
(* where a slice ends, when a guard is evaluated and on whose evaluator.   *)
(***************************************************************************)
EXTENDS Integers, Sequences, FiniteSets

CONSTANTS
  Objs,            \* the objects of the executed model
  Ops,             \* its operations (every object has all of them)
  Mutex,           \* [Ops -> SUBSET Ops]: the operations that must not be active
  StateGuarded,    \* the operations whose permission predicate reads the object state
  ThreadObjs,      \* the objects whose class declares a thread
  Priorities,      \* the class priority maps the user may load, [Objs -> Nat \cup {NoEntry}]
  InstrnumSlice,   \* primary algorithm: TRUE InstrnumSlice, FALSE PureCooperative
  MaxInstr,        \* instructions in a slice
  PriorityBased,   \* secondary algorithm: TRUE PriorityBased, FALSE RoundRobin
  DebugInfo,       \* the compiler emits CONTEXT instructions
  Stmts,           \* the statements the model uses, a subset of {"stop", "exit", "assign"}
  UserCmds,        \* the debugger commands the user gives
  MaxThreads,      \* bound: thread ids handed out between two initialisations
  MaxReq,          \* bound: requests counted per operation and object
  MaxDepth,        \* bound: call stack entries of an evaluator
  NoCall,          \* no call under way (nil)
  NoObj            \* the debug thread's object (nil)

ThreadIds == 1 .. MaxThreads

DebugThread == 1

DefaultPriority == 1

NoEntry == -1

Calls == [op : Ops, obj : Objs]

ASSUME SchdAssumption ==
  /\ NoCall \notin Calls
  /\ NoObj \notin Objs
  /\ IsFiniteSet(Objs)
  /\ Mutex \in [Ops -> SUBSET Ops]
  /\ \A o, p \in Ops : p \in Mutex[o] <=> o \in Mutex[p]
  /\ StateGuarded \subseteq Ops
  /\ ThreadObjs \subseteq Objs
  /\ Priorities \subseteq [Objs -> Nat \cup {NoEntry}]
  /\ MaxInstr \in Nat \ {0}
  /\ MaxThreads \in Nat \ {0}
  /\ MaxReq \in Nat
  /\ MaxDepth \in Nat
  /\ {InstrnumSlice, PriorityBased, DebugInfo} \subseteq BOOLEAN
  /\ Stmts \subseteq {"stop", "exit", "assign"}
  /\ UserCmds \subseteq {"break", "print", "selthread", "priorityfile"}

VARIABLES
  threads,          \* the domain of SCHD's map threads
  info,             \* the ThreadInfo of every thread in it
  curthread,        \* curthread_m(nil)
  next_thread_id,
  classPriorityMap,
  maxPriority,
  stkm,             \* the evaluator of the stack machine, cs_shared_p
  hist,             \* the history counters of every object
  ivar,             \* the object state the predicates of StateGuarded read
  session           \* what the user sees: the evaluation's state

schdVars == <<threads, info, curthread, next_thread_id>>
prioVars == <<classPriorityMap, maxPriority>>
vars == <<threads, info, curthread, next_thread_id, classPriorityMap, maxPriority,
          stkm, hist, ivar, session>>

-----------------------------------------------------------------------------
(* Types.                                                                    *)

\* "body": anywhere in the code of an operation or a thread; "context" and
\* "apply": between GUARD and the APPLY that activates the callee; "end": pc
\* is past the program.
Phases == {"body", "context", "apply", "end"}

\* A callee is recorded exactly between its GUARD and its APPLY.
PhaseMatchesCallee(e) == e.phase \in {"context", "apply"} <=> e.callee # NoCall

\* A call stack entry: an active operation, or (call = NoCall) a debugger
\* command with the phase and callee it interrupted.
Frames ==
  {f \in [call : Calls \cup {NoCall}, phase : Phases, callee : Calls \cup {NoCall}] :
     PhaseMatchesCallee(f)}

Evaluators ==
  {ev \in [phase : Phases, callee : Calls \cup {NoCall}, guard : BOOLEAN,
           calls : Seq(Frames), instrno : Nat] : PhaseMatchesCallee(ev)}

Statuses == {"Running", "Blocked", "MaxReached", "Sleeping"}

\* "on" is the operation and object of a Blocked status.
ThreadInfos == [obj : Objs \cup {NoObj}, status : Statuses, on : Calls \cup {NoCall},
                stackeval : Evaluators, priority : Nat]

Sessions == {"idle", "break", "running", "deadlock", "rterror", "interror"}

Histories == [req : Nat, act : Nat, fin : Nat]

TypeOK ==
  /\ threads \subseteq ThreadIds
  /\ info \in [ThreadIds -> ThreadInfos]
  /\ curthread \in ThreadIds
  /\ next_thread_id \in 1 .. MaxThreads + 1
  /\ classPriorityMap \in [Objs -> Nat \cup {NoEntry}]
  /\ maxPriority \in Nat
  /\ stkm \in Evaluators
  /\ hist \in [Objs -> [Ops -> Histories]]
  /\ ivar \in [Objs -> BOOLEAN]
  /\ session \in Sessions

-----------------------------------------------------------------------------
(* Permission predicates.                                                    *)

active(h, c, o) == h[c.obj][o].act - h[c.obj][o].fin

\* LookUpPermis finds no predicate: every request is permitted.
NoPermis(c) == Mutex[c.op] = {} /\ c.op \notin StateGuarded

\* The predicate of c: its mutex and history part, and its object state part.
RunGuard(h, iv, c) ==
  /\ \A o \in Mutex[c.op] : active(h, c, o) = 0
  /\ c.op \in StateGuarded => iv[c.obj]

Counted(r, kind) ==
  [req |-> r.req + (IF kind = "req" THEN 1 ELSE 0),
   act |-> r.act + (IF kind = "act" THEN 1 ELSE 0),
   fin |-> r.fin + (IF kind = "fin" THEN 1 ELSE 0)]

UpdateHistCount(h, c, kind) == [h EXCEPT ![c.obj][c.op] = Counted(@, kind)]

-----------------------------------------------------------------------------
(* Evaluators and slices.                                                    *)

InitEvaluatorStatus(phase) ==
  [phase |-> phase, callee |-> NoCall, guard |-> FALSE, calls |-> <<>>, instrno |-> 0]

ResetSlice(ev) == [ev EXCEPT !.instrno = 0]

IncInstrnum(ev) == [ev EXCEPT !.instrno = IF InstrnumSlice THEN @ + 1 ELSE @]

EndOfSliceReached(ev) == InstrnumSlice /\ ev.instrno >= MaxInstr

Top(ev) == ev.calls[Len(ev.calls)]

TopIsOp(ev) == ev.calls # <<>> /\ Top(ev).call # NoCall

PopFrame(ev) == [ev EXCEPT !.calls = SubSeq(@, 1, Len(@) - 1)]

-----------------------------------------------------------------------------
(* Selection of the next thread.                                             *)

ThreadInfo(obj, status, phase, prio) ==
  [obj |-> obj, status |-> status, on |-> NoCall,
   stackeval |-> InitEvaluatorStatus(phase), priority |-> prio]

NoThread == ThreadInfo(NoObj, "Sleeping", "end", DefaultPriority)

\* Mutant: the list starts at the lowest id, not behind the current thread.
RoundRobinBefore_lowestFirst(c, t, u) == t <= u

\* SortSelectedThreads lists the ids above the current thread, then the
\* others, both in ascending order.
RoundRobinBefore(c, t, u) ==
  \/ t > c /\ u <= c
  \/ (t > c <=> u > c) /\ t <= u

\* SortTheThreads: by descending priority, threads of priorities outside
\* 1..maxPriority are in no list.
Listed(inf, t) == PriorityBased => inf[t].priority \in 1 .. maxPriority

\* Mutant: the priority lists are searched from the lowest priority.
Before_lowestPriority(inf, c, t, u) ==
  IF PriorityBased /\ inf[t].priority # inf[u].priority
  THEN inf[t].priority < inf[u].priority
  ELSE RoundRobinBefore(c, t, u)

Before(inf, c, t, u) ==
  IF PriorityBased /\ inf[t].priority # inf[u].priority
  THEN inf[t].priority > inf[u].priority
  ELSE RoundRobinBefore(c, t, u)

\* Mutant: a blocked thread's guard is not evaluated again.
Selectable_unchecked(inf, h, iv, t) == TRUE

\* A thread FindNextThread returns when it comes to it in the lists.
Selectable(inf, h, iv, t) ==
  inf[t].status = "Blocked" => RunGuard(h, iv, inf[t].on)

Candidates(thr, inf, h, iv) == {t \in thr : Listed(inf, t) /\ Selectable(inf, h, iv, t)}

FindNextThread(thr, inf, c, h, iv) ==
  CHOOSE t \in Candidates(thr, inf, h, iv) :
    \A u \in Candidates(thr, inf, h, iv) : Before(inf, c, t, u)

\* thr and inf are the scheduler's map once the current thread has been saved
\* with its new status or removed.
SelAndRunThread(thr, inf) ==
  /\ threads' = thr
  /\ IF Candidates(thr, inf, hist, ivar) = {}
     THEN /\ session' = "deadlock"
          /\ info' = inf
          /\ UNCHANGED <<curthread, stkm>>
     ELSE LET n == FindNextThread(thr, inf, curthread, hist, ivar)
          IN /\ curthread' = n
             /\ info' = [inf EXCEPT ![n] = [@ EXCEPT !.status = "Running", !.on = NoCall]]
             /\ stkm' = ResetSlice(inf[n].stackeval)
             /\ UNCHANGED session
  /\ UNCHANGED <<next_thread_id, prioVars, hist, ivar>>

\* SetThreadStatus and SetThreadState of the current thread, when it is still
\* one of the threads.
SwapOutCurrent(status, on, ev) ==
  IF curthread \in threads
  THEN [info EXCEPT ![curthread] =
          [@ EXCEPT !.status = status, !.on = on, !.stackeval = ev]]
  ELSE info
-----------------------------------------------------------------------------
(* Instructions: one iteration of EvalMainLoop.                              *)

InMainLoop ==
  /\ session = "running"
  /\ ~stkm.guard
  /\ stkm.phase # "end"
  /\ ~EndOfSliceReached(stkm)

\* The call of an operation begins: GuardCheck counts the request and sets the
\* guard, which ends the loop.
ExeGUARD(c) ==
  /\ InMainLoop
  /\ stkm.phase = "body"
  /\ hist[c.obj][c.op].req < MaxReq
  /\ Len(stkm.calls) < MaxDepth
  /\ hist' = UpdateHistCount(hist, c, "req")
  /\ stkm' = [IncInstrnum(stkm) EXCEPT !.guard = TRUE, !.callee = c,
                 !.phase = IF DebugInfo THEN "context" ELSE "apply"]
  /\ UNCHANGED <<schdVars, prioVars, ivar, session>>

\* A CONTEXT instruction, or any other that the scheduler does not see.  The
\* user's interrupt, a breakpoint or a step command may set BREAK there; then
\* EvalScheduler returns and the user has the thread at a prompt.
ExeCONTEXT ==
  /\ InMainLoop
  /\ stkm.phase \in {"body", "context"}
  /\ stkm' = [IncInstrnum(stkm) EXCEPT !.phase = IF @ = "context" THEN "apply" ELSE @]
  /\ \/ UNCHANGED session
     \/ "break" \in UserCmds /\ DebugInfo /\ session' = "break"
  /\ UNCHANGED <<schdVars, prioVars, hist, ivar>>

\* The operation is entered: EnvSetUpExplOpApply counts the activation.
ExeAPPLY ==
  /\ InMainLoop
  /\ stkm.phase = "apply"
  /\ hist' = UpdateHistCount(hist, stkm.callee, "act")
  /\ stkm' = [IncInstrnum(stkm) EXCEPT !.phase = "body", !.callee = NoCall,
                 !.calls = Append(@, [call |-> stkm.callee, phase |-> "body", callee |-> NoCall])]
  /\ UNCHANGED <<schdVars, prioVars, ivar, session>>

\* The operation on top of the call stack returns, or is left by an exit that
\* the trap below it, or nobody, handles: its completion is counted.
ExeRETURN ==
  /\ InMainLoop
  /\ stkm.phase = "body"
  /\ TopIsOp(stkm)
  /\ hist' = UpdateHistCount(hist, Top(stkm).call, "fin")
  /\ stkm' = PopFrame(IncInstrnum(stkm))
  /\ UNCHANGED <<schdVars, prioVars, ivar, session>>

\* Mutants: the trap handler pops the operations and counts only the one whose
\* trap it is, or counts the inner one twice and the outer one once.
ExeEXIT_oneCounted ==
  /\ "exit" \in Stmts
  /\ InMainLoop
  /\ stkm.phase = "body"
  /\ TopIsOp(stkm)
  /\ TopIsOp(PopFrame(stkm))
  /\ hist' = UpdateHistCount(hist, Top(PopFrame(stkm)).call, "fin")
  /\ stkm' = PopFrame(IncInstrnum(PopFrame(stkm)))
  /\ UNCHANGED <<schdVars, prioVars, ivar, session>>

ExeEXIT_overcounted ==
  /\ "exit" \in Stmts
  /\ InMainLoop
  /\ stkm.phase = "body"
  /\ TopIsOp(stkm)
  /\ TopIsOp(PopFrame(stkm))
  /\ hist' = UpdateHistCount(
                UpdateHistCount(hist, Top(stkm).call, "fin"),
                Top(PopFrame(stkm)).call, "fin")
  /\ stkm' = PopFrame(IncInstrnum(stkm))
  /\ UNCHANGED <<schdVars, prioVars, ivar, session>>

\* An exit handled two operations down: one instruction (GotoTrapHandler) pops
\* both call stack entries and counts both completions.
ExeEXIT ==
  /\ "exit" \in Stmts
  /\ InMainLoop
  /\ stkm.phase = "body"
  /\ TopIsOp(stkm)
  /\ TopIsOp(PopFrame(stkm))
  /\ hist' = UpdateHistCount(
                UpdateHistCount(hist, Top(stkm).call, "fin"),
                Top(PopFrame(stkm)).call, "fin")
  /\ stkm' = PopFrame(IncInstrnum(PopFrame(stkm)))
  /\ UNCHANGED <<schdVars, prioVars, ivar, session>>

\* The last instruction of a thread's body or of a debugger command.
ExeEOCL ==
  /\ InMainLoop
  /\ stkm.phase = "body"
  /\ ~TopIsOp(stkm)
  /\ stkm' = [IncInstrnum(stkm) EXCEPT !.phase = "end"]
  /\ UNCHANGED <<schdVars, prioVars, hist, ivar, session>>

\* An operation changes the state of its own object.
ExeASSIGN ==
  /\ "assign" \in Stmts
  /\ InMainLoop
  /\ stkm.phase = "body"
  /\ TopIsOp(stkm)
  /\ LET o == Top(stkm).call.obj
     IN ivar' = [ivar EXCEPT ![o] = ~@]
  /\ stkm' = IncInstrnum(stkm)
  /\ UNCHANGED <<schdVars, prioVars, hist, session>>

\* Mutant: a class without an entry in the priority file has no default.
SetThreadPriority_noDefault(o) == classPriorityMap[o]

SetThreadPriority(o) ==
  IF classPriorityMap[o] = NoEntry THEN DefaultPriority ELSE classPriorityMap[o]

\* StartNewThread for the object of a start statement.
ExeSTART(o) ==
  /\ InMainLoop
  /\ stkm.phase = "body"
  /\ stkm' = IncInstrnum(stkm)
  /\ \/ /\ o \notin ThreadObjs
        /\ session' = "rterror"
        /\ UNCHANGED schdVars
     \/ /\ o \in ThreadObjs
        /\ next_thread_id <= MaxThreads
        /\ next_thread_id' = next_thread_id + 1
        /\ threads' = threads \cup {next_thread_id}
        /\ info' = [info EXCEPT ![next_thread_id] =
                      ThreadInfo(o, "Sleeping", "body", SetThreadPriority(o))]
        /\ UNCHANGED <<curthread, session>>
  /\ UNCHANGED <<prioVars, hist, ivar>>

ThreadsOf(objs) == {t \in threads \ {DebugThread} : info[t].obj \in objs}

\* StopThread for every object of a stop statement.  The current thread may be
\* among the threads it kills; the machine goes on evaluating it.  An object
\* without a thread is a run-time error, raised after the threads of the
\* objects before it in the list have been killed.
ExeSTOPLIST(objs) ==
  /\ "stop" \in Stmts
  /\ InMainLoop
  /\ stkm.phase = "body"
  /\ stkm' = IncInstrnum(stkm)
  /\ \E done \in SUBSET objs :
       /\ \A o \in done : ThreadsOf({o}) # {}
       /\ \/ done = objs /\ UNCHANGED session
          \/ (\E o \in objs \ done : ThreadsOf({o}) = {}) /\ session' = "rterror"
       /\ threads' = threads \ ThreadsOf(done)
       /\ info' = [t \in ThreadIds |-> IF t \in ThreadsOf(done) THEN NoThread ELSE info[t]]
  /\ UNCHANGED <<curthread, next_thread_id, prioVars, hist, ivar>>

-----------------------------------------------------------------------------
(* EvalScheduler: what it does with the state EvalMainLoop ended in.         *)

\* Mutant: the thread goes on whatever the predicate says.
HandleGuard_ignored ==
  /\ session = "running"
  /\ stkm.guard
  /\ stkm' = [stkm EXCEPT !.guard = FALSE]
  /\ UNCHANGED <<schdVars, prioVars, hist, ivar, session>>

\* A guard was set: with a true predicate, or none, the thread goes on in the
\* same slice; otherwise it is blocked and another one is selected.
HandleGuard ==
  /\ session = "running"
  /\ stkm.guard
  /\ LET ev == [stkm EXCEPT !.guard = FALSE]
     IN IF NoPermis(stkm.callee) \/ RunGuard(hist, ivar, stkm.callee)
        THEN stkm' = ev /\ UNCHANGED <<schdVars, prioVars, hist, ivar, session>>
        ELSE SelAndRunThread(threads, SwapOutCurrent("Blocked", stkm.callee, ev))

HandleEndOfSlice ==
  /\ session = "running"
  /\ ~stkm.guard
  /\ stkm.phase # "end"
  /\ EndOfSliceReached(stkm)
  /\ SelAndRunThread(threads, SwapOutCurrent("MaxReached", NoCall, stkm))

\* The debug thread has evaluated a command: EvalRun pops its call stack entry
\* and the user gets the result.  A debug thread without a command has nothing
\* on its evaluation stack, so that EvalMainLoop's Pop is an internal error.
HandleDebugSuccess ==
  /\ session = "running"
  /\ ~stkm.guard
  /\ stkm.phase = "end"
  /\ curthread = DebugThread
  /\ IF stkm.calls = <<>>
     THEN session' = "interror" /\ UNCHANGED <<info, stkm>>
     ELSE LET f == Top(stkm)
              ev == [PopFrame(stkm) EXCEPT !.phase = f.phase, !.callee = f.callee]
          IN /\ stkm' = ev
             /\ info' = [info EXCEPT ![curthread] = [@ EXCEPT !.stackeval = ev]]
             /\ session' = "idle"
  /\ UNCHANGED <<threads, curthread, next_thread_id, prioVars, hist, ivar>>

\* Any other thread that reaches the end of its program is removed; RemElem
\* reports an internal error when the thread is no longer in the map.
HandleThreadSuccess ==
  /\ session = "running"
  /\ ~stkm.guard
  /\ stkm.phase = "end"
  /\ curthread # DebugThread
  /\ IF curthread \in threads
     THEN SelAndRunThread(threads \ {curthread}, [info EXCEPT ![curthread] = NoThread])
     ELSE /\ session' = "interror"
          /\ UNCHANGED <<schdVars, prioVars, stkm, hist, ivar>>

-----------------------------------------------------------------------------
(* The user's commands.                                                      *)

AtPrompt == session \in {"idle", "break"}

\* print or debug: the command is pushed on the evaluator of the current
\* thread, whatever thread that is.
UserPrint ==
  /\ \/ session = "idle"
     \/ session = "break" /\ "print" \in UserCmds
  /\ Len(stkm.calls) < MaxDepth
  /\ stkm' = [stkm EXCEPT !.phase = "body", !.callee = NoCall, !.instrno = 0,
                 !.calls = Append(@, [call |-> NoCall, phase |-> stkm.phase,
                                      callee |-> stkm.callee])]
  /\ session' = "running"
  /\ UNCHANGED <<schdVars, prioVars, hist, ivar>>

\* Mutant: a program at its end may be stepped.
UserContinue_atEnd ==
  /\ AtPrompt
  /\ session = "idle" => ~EndOfSliceReached(stkm)
  /\ stkm' = ResetSlice(stkm)
  /\ session' = "running"
  /\ UNCHANGED <<schdVars, prioVars, hist, ivar>>

\* step, cont, finish: RunIfAllowed.
UserContinue ==
  /\ AtPrompt
  /\ stkm.phase # "end"
  /\ session = "idle" => ~EndOfSliceReached(stkm)
  /\ stkm' = ResetSlice(stkm)
  /\ session' = "running"
  /\ UNCHANGED <<schdVars, prioVars, hist, ivar>>

\* Mutant: the thread that was current keeps its status.
UserSelThread_keepsStatus(t) ==
  /\ "selthread" \in UserCmds
  /\ AtPrompt
  /\ t \in threads
  /\ curthread \in threads
  /\ info' = [info EXCEPT ![curthread] = [@ EXCEPT !.stackeval = stkm],
                          ![t] = [@ EXCEPT !.status = "Running", !.on = NoCall]]
  /\ curthread' = t
  /\ stkm' = info[t].stackeval
  /\ UNCHANGED <<threads, next_thread_id, prioVars, hist, ivar, session>>

\* selthread: SelThread.
UserSelThread(t) ==
  /\ "selthread" \in UserCmds
  /\ AtPrompt
  /\ t \in threads
  /\ IF curthread \in threads
     THEN LET inf == SwapOutCurrent("Sleeping", NoCall, stkm)
          IN /\ info' = [inf EXCEPT ![t] = [@ EXCEPT !.status = "Running", !.on = NoCall]]
             /\ curthread' = t
             /\ stkm' = inf[t].stackeval
             /\ UNCHANGED session
     ELSE session' = "rterror" /\ UNCHANGED <<info, curthread, stkm>>
  /\ UNCHANGED <<threads, next_thread_id, prioVars, hist, ivar>>

\* The largest priority of a map, at least the default one, plus one.
MaxPriority(pm) ==
  1 + CHOOSE m \in {DefaultPriority} \cup {pm[o] : o \in Objs} :
        m >= DefaultPriority /\ \A o \in Objs : pm[o] <= m

\* Mutant: the debug thread keeps its priority, which may be above the new
\* maximum.
UserPriorityFile_keepsPriority(pm) ==
  /\ "priorityfile" \in UserCmds
  /\ AtPrompt
  /\ classPriorityMap' = pm
  /\ maxPriority' = MaxPriority(pm)
  /\ UNCHANGED <<threads, info, curthread, next_thread_id, stkm, hist, ivar, session>>

\* priorityfile: SetPriorityMap, which gives the debug thread the new maximum.
UserPriorityFile(pm) ==
  /\ "priorityfile" \in UserCmds
  /\ AtPrompt
  /\ classPriorityMap' = pm
  /\ maxPriority' = MaxPriority(pm)
  /\ info' = [info EXCEPT ![DebugThread] = [@ EXCEPT !.priority = MaxPriority(pm)]]
  /\ UNCHANGED <<threads, curthread, next_thread_id, stkm, hist, ivar, session>>

NoPriorityMap == [o \in Objs |-> NoEntry]

\* InitScheduler and the initialisation of the objects; the priority file given
\* last, if any, is read again.
InitState(t, i, c, n, m, e, h, v, s) ==
  /\ t = {DebugThread}
  /\ i = [u \in ThreadIds |->
            IF u = DebugThread THEN ThreadInfo(NoObj, "Running", "end", m) ELSE NoThread]
  /\ c = DebugThread
  /\ n = DebugThread + 1
  /\ e = InitEvaluatorStatus("end")
  /\ h = [o \in Objs |-> [p \in Ops |-> [req |-> 0, act |-> 0, fin |-> 0]]]
  /\ v = [o \in Objs |-> FALSE]
  /\ s = "idle"

InitialMaxPriority(pm) ==
  IF pm # NoPriorityMap THEN MaxPriority(pm)
  ELSE IF PriorityBased THEN DefaultPriority + 1 ELSE DefaultPriority

Init ==
  /\ classPriorityMap \in Priorities \cup {NoPriorityMap}
  /\ maxPriority = InitialMaxPriority(classPriorityMap)
  /\ InitState(threads, info, curthread, next_thread_id, maxPriority, stkm, hist, ivar, session)

UserInit ==
  /\ session # "running"
  /\ UNCHANGED classPriorityMap
  /\ maxPriority' = InitialMaxPriority(classPriorityMap)
  /\ InitState(threads', info', curthread', next_thread_id', maxPriority', stkm', hist',
               ivar', session')

-----------------------------------------------------------------------------
(* The specification.                                                        *)

Instruction ==
  \/ \E c \in Calls : ExeGUARD(c)
  \/ ExeCONTEXT
  \/ ExeAPPLY
  \/ ExeRETURN
  \/ ExeEXIT
  \/ ExeEOCL
  \/ ExeASSIGN
  \/ \E o \in Objs : ExeSTART(o)
  \/ \E objs \in SUBSET Objs \ {{}} : ExeSTOPLIST(objs)

Scheduler ==
  \/ HandleGuard
  \/ HandleEndOfSlice
  \/ HandleDebugSuccess
  \/ HandleThreadSuccess

User ==
  \/ UserPrint
  \/ UserContinue
  \/ \E t \in ThreadIds : UserSelThread(t)
  \/ \E pm \in Priorities : UserPriorityFile(pm)
  \/ UserInit

Next == Instruction \/ Scheduler \/ User

Spec == Init /\ [][Next]_vars

\* EvalScheduler's loop runs as long as an evaluation is under way.
FairSpec == Spec /\ WF_vars(Instruction \/ Scheduler)
-----------------------------------------------------------------------------
(* Properties.                                                               *)

\* Exactly the current thread has status Running, unless a stop statement took
\* it out of the map or an error ended the evaluation: a thread is never left
\* Running when it is swapped out and never run with another status
\* (SelAndRunThread, SelThread, StartDebugThread).
OneRunningThread ==
  session \notin {"deadlock", "rterror", "interror"} =>
    \A t \in threads : info[t].status = "Running" <=> t = curthread

\* The operations that mutex predicates exclude from each other are not active
\* together on an object, whatever the interleaving of the threads.
MutexHolds ==
  \A c \in Calls : \A o \in Mutex[c.op] :
    IF o = c.op THEN active(hist, c, o) <= 1
                ELSE active(hist, c, o) <= 0 \/ active(hist, c, c.op) <= 0

\* An operation is activated only in a state in which its permission predicate
\* is true: the test in EvalScheduler or FindNextThread and the activation in
\* EnvSetUpExplOpApply are one atomic operation.
ActivationIsPermitted ==
  [][\A c \in Calls : hist'[c.obj][c.op].act > hist[c.obj][c.op].act =>
       RunGuard(hist, ivar, c)]_vars

\* With PureCooperative and no breakpoints no other thread acts between the test
\* of a permission predicate and the activation: a call of the current thread
\* that has passed its test still has a true predicate, and a thread that was
\* swapped out before a call is Blocked on that very call, so that the predicate
\* is tested again before it goes on (EvalScheduler's Guard case, FindNextThread).
GuardWindowClosed ==
  /\ (session = "running" /\ stkm.callee # NoCall /\ ~stkm.guard) =>
        RunGuard(hist, ivar, stkm.callee)
  /\ \A t \in threads \ {curthread} :
        info[t].stackeval.callee # NoCall =>
          info[t].status = "Blocked" /\ info[t].on = info[t].stackeval.callee

\* Deadlock is reported only when no thread could go on: each one waits for a
\* permission predicate that is false.  FindNextThread searches the lists of the
\* priorities 1..maxPriority only, so that a thread must also be in one of them,
\* whatever priority files were read since it was started.
DeadlockIsReal ==
  session = "deadlock" =>
    \A t \in threads : info[t].status = "Blocked" /\ ~RunGuard(hist, ivar, info[t].on)

\* The scheduler never operates on a thread that its map has lost and never
\* pops from an empty stack.
NoInternalError == session # "interror"

\* The call stack entries of c, and the calls of c requested and not yet
\* activated, of an evaluator.
ActiveIn(ev, c) == {i \in 1 .. MaxDepth : i <= Len(ev.calls) /\ ev.calls[i].call = c}
WaitingIn(ev, c) ==
  {i \in 1 .. MaxDepth : i <= Len(ev.calls) /\ ev.calls[i].callee = c}
    \cup (IF ev.callee = c THEN {0} ELSE {})

\* The evaluator of a live thread: the machine's for the current one.
EvaluatorOf(t) == IF t = curthread THEN stkm ELSE info[t].stackeval

ActiveCalls(c) == UNION {{t} \X ActiveIn(EvaluatorOf(t), c) : t \in threads \cup {curthread}}
WaitingCalls(c) == UNION {{t} \X WaitingIn(EvaluatorOf(t), c) : t \in threads \cup {curthread}}

\* The counters tell the truth: #active is the number of calls that are on the
\* call stack of some thread and #waiting the number of requests under way.
HistoryIsExact ==
  \A c \in Calls :
    /\ active(hist, c, c.op) = Cardinality(ActiveCalls(c))
    /\ hist[c.obj][c.op].req - hist[c.obj][c.op].act = Cardinality(WaitingCalls(c))

\* With stop statements and debugger commands, which drop evaluators with their
\* calls, the counters still never report less than what is going on: a
\* permission predicate errs on the side of blocking.
HistoryNeverUndercounts ==
  \A c \in Calls :
    /\ active(hist, c, c.op) >= Cardinality(ActiveCalls(c))
    /\ hist[c.obj][c.op].req - hist[c.obj][c.op].act >= Cardinality(WaitingCalls(c))

\* A thread with a runnable status is given the processor again, or is stopped,
\* or the evaluation ends (RoundRobin with InstrnumSlice).
Runnable(t) == t \in threads /\ info[t].status \in {"Sleeping", "MaxReached"}
NoStarvation ==
  \A t \in ThreadIds :
    (session = "running" /\ Runnable(t)) ~> (session # "running" \/ curthread = t \/ t \notin threads)

\* Among the threads that can go on, the scheduler selects one of the highest
\* priority (PriorityBased): seen at every switch that is not the user's.
PriorityIsRespected ==
  [][(session = "running" /\ session' = "running" /\ curthread' # curthread) =>
       \A t \in threads' : info'[t].priority > info'[curthread'].priority =>
          info'[t].status = "Blocked" /\ ~RunGuard(hist, ivar, info'[t].on)]_vars
=============================================================================
