-------------------------- MODULE SchdHistoryProofs --------------------------
(***************************************************************************)
(* What the history counters of an object promise under every              *)
(* interleaving of threads, user commands and breakpoints.                 *)
(*                                                                         *)
(* With the PureCooperative algorithm, and without breakpoints and         *)
(* selthread, permission predicates are tested and operations activated    *)
(* atomically, and mutex predicates exclude their operations (WindowInv).  *)
(*                                                                         *)
(* Two further invariants are inductive for all algorithms:                *)
(*   CommandInv  what the evaluators hold fits the command they serve, so  *)
(*               that no state reaches an internal error;                  *)
(*   DepthInv    no call stack outgrows MaxDepth, so that the positions    *)
(*               counted below are all the calls there are.                *)
(* Counting then relates the counters of an object to the frames and the   *)
(* pending calls of all evaluators: the surplus of a counter over those    *)
(* calls (MoreActive, MoreWaiting) stays 0 as long as no thread is stopped *)
(* from outside (Exact), and is never negative otherwise (Enough).         *)
(***************************************************************************)
EXTENDS SchdProofs

Cooperative ==
  /\ InstrnumSlice = FALSE
  /\ "break" \notin UserCmds
  /\ "selthread" \notin UserCmds

\* No call is pending under another one on a call stack.
CalmFrames(ev) == \A i \in 1 .. Len(ev.calls) : ev.calls[i].callee = NoCall

EvaluatorsCalm ==
  /\ CalmFrames(stkm)
  /\ \A t \in threads : CalmFrames(info[t].stackeval)

\* The user never sees a thread between a GUARD and its APPLY.
PromptIsCalm ==
  /\ session # "break"
  /\ session = "idle" => stkm.callee = NoCall

WindowInv == EvaluatorsCalm /\ PromptIsCalm /\ GuardWindowClosed

-----------------------------------------------------------------------------
(* Evaluators.                                                               *)

LEMMA EvaluatorCalm ==
  ASSUME NEW ev \in Evaluators, CalmFrames(ev)
  PROVE  /\ IncInstrnum(ev).calls = ev.calls /\ IncInstrnum(ev).callee = ev.callee
         /\ CalmFrames(IncInstrnum(ev)) /\ CalmFrames(ResetSlice(ev))
         /\ ev.calls # <<>> => /\ CalmFrames(PopFrame(ev))
                               /\ PopFrame(ev).callee = ev.callee
                               /\ Top(ev).callee = NoCall
<1>1. /\ IncInstrnum(ev).calls = ev.calls /\ IncInstrnum(ev).callee = ev.callee
      /\ ResetSlice(ev).calls = ev.calls
  BY DEF Evaluators, IncInstrnum, ResetSlice
<1>2. CalmFrames(IncInstrnum(ev)) /\ CalmFrames(ResetSlice(ev))
  BY <1>1 DEF CalmFrames
<1>3. ASSUME ev.calls # <<>>
      PROVE  CalmFrames(PopFrame(ev)) /\ PopFrame(ev).callee = ev.callee /\ Top(ev).callee = NoCall
  <2>1. ev.calls \in Seq(Frames)
    BY DEF Evaluators
  <2>2. Len(ev.calls) \in Nat \ {0}
    BY <1>3, <2>1, EmptySeq, LenProperties
  <2>3. \A i \in 1 .. Len(ev.calls) - 1 : ev.calls[i] \in Frames
    BY <2>1, <2>2, ElementOfSeq
  <2> DEFINE s == SubSeq(ev.calls, 1, Len(ev.calls) - 1)
  <2>4. /\ Len(s) = Len(ev.calls) - 1
        /\ \A i \in 1 .. Len(ev.calls) - 1 : s[i] = ev.calls[i]
    BY <2>1, <2>2, <2>3, SubSeqProperties
  <2>5. PopFrame(ev).calls = s /\ PopFrame(ev).callee = ev.callee
    BY DEF PopFrame, Evaluators
  <2> HIDE DEF s
  <2>6. CalmFrames(PopFrame(ev))
    BY <2>2, <2>4, <2>5 DEF CalmFrames
  <2>7. Top(ev).callee = NoCall
    BY <2>2 DEF Top, CalmFrames
  <2>8. QED
    BY <2>5, <2>6, <2>7
<1>4. QED
  BY <1>1, <1>2, <1>3

LEMMA AppendCalm ==
  ASSUME NEW s \in Seq(Frames), NEW f \in Frames, f.callee = NoCall,
         \A i \in 1 .. Len(s) : s[i].callee = NoCall
  PROVE  \A i \in 1 .. Len(Append(s, f)) : Append(s, f)[i].callee = NoCall
BY AppendProperties, LenProperties

LEMMA InitEvaluatorCalm ==
  /\ \A phase : /\ CalmFrames(InitEvaluatorStatus(phase))
                /\ InitEvaluatorStatus(phase).callee = NoCall
                /\ InitEvaluatorStatus(phase).guard = FALSE
  /\ CalmFrames(NoThread.stackeval) /\ NoThread.stackeval.callee = NoCall
BY DEF CalmFrames, InitEvaluatorStatus, NoThread, ThreadInfo

-----------------------------------------------------------------------------
(* The steps.                                                                *)

LEMMA InitWindow ==
  ASSUME NEW t, NEW i, NEW c, NEW n, NEW m, NEW e, NEW h, NEW v, NEW s,
         InitState(t, i, c, n, m, e, h, v, s)
  PROVE  /\ CalmFrames(e) /\ e.callee = NoCall
         /\ \A u \in ThreadIds : CalmFrames(i[u].stackeval) /\ i[u].stackeval.callee = NoCall
         /\ t \subseteq ThreadIds /\ s = "idle"
<1>1. DebugThread \in ThreadIds
  BY SchdAssumption DEF DebugThread, ThreadIds
<1>2. QED
  BY <1>1, InitEvaluatorCalm DEF InitState, ThreadInfo

LEMMA InstructionWindow ==
  ASSUME Cooperative, TypeOK, WindowInv, Instruction
  PROVE  WindowInv'
<1> USE DEF schdVars, prioVars
<1>0. /\ session = "running" /\ ~stkm.guard /\ stkm \in Evaluators
      /\ threads \subseteq ThreadIds
  BY DEF Instruction, InMainLoop, ExeGUARD, ExeCONTEXT, ExeAPPLY, ExeRETURN, ExeEXIT,
         ExeEOCL, ExeASSIGN, ExeSTART, ExeSTOPLIST, TypeOK
<1> DEFINE inc == IncInstrnum(stkm)
<1>a. /\ inc \in Evaluators /\ inc.calls = stkm.calls /\ inc.callee = stkm.callee
      /\ CalmFrames(stkm) /\ CalmFrames(inc)
  BY <1>0, EvaluatorType, EvaluatorCalm DEF WindowInv, EvaluatorsCalm
<1>b. ASSUME CalmFrames(stkm'), UNCHANGED <<schdVars>>,
             session' = "running" \/ session' = "rterror",
             stkm'.callee = NoCall \/ stkm'.guard \/ RunGuard(hist', ivar', stkm'.callee)
      PROVE  WindowInv'
  BY <1>b DEF WindowInv, EvaluatorsCalm, PromptIsCalm, GuardWindowClosed
<1>1. ASSUME NEW c \in Calls, ExeGUARD(c) PROVE WindowInv'
  <2>1. stkm'.calls = stkm.calls /\ stkm'.guard = TRUE
    BY <1>a, <1>1 DEF ExeGUARD, Evaluators
  <2>2. CalmFrames(stkm')
    BY <1>a, <2>1 DEF CalmFrames
  <2>3. QED
    BY <1>0, <1>1, <1>b, <2>1, <2>2 DEF ExeGUARD
<1>2. CASE ExeCONTEXT
  <2>1. stkm'.calls = stkm.calls /\ stkm'.callee = stkm.callee
    BY <1>a, <1>2 DEF ExeCONTEXT, Evaluators
  <2>2. session' = session /\ UNCHANGED <<schdVars, hist, ivar>>
    BY <1>2 DEF ExeCONTEXT, Cooperative
  <2>3. stkm.callee = NoCall \/ RunGuard(hist, ivar, stkm.callee)
    BY <1>0 DEF WindowInv, GuardWindowClosed
  <2>4. CalmFrames(stkm')
    BY <1>a, <2>1 DEF CalmFrames
  <2>5. stkm'.callee = NoCall \/ RunGuard(hist', ivar', stkm'.callee)
    BY <2>1, <2>2, <2>3 DEF RunGuard, active
  <2>6. QED
    BY <1>0, <1>b, <2>2, <2>4, <2>5
<1>3. CASE ExeAPPLY
  <2> DEFINE frame == [call |-> stkm.callee, phase |-> "body", callee |-> NoCall]
  <2>1. frame \in Frames /\ inc.calls \in Seq(Frames)
    BY <1>0, <1>a, <1>3 DEF ExeAPPLY, Evaluators, Frames, PhaseMatchesCallee, Phases
  <2>2. stkm'.callee = NoCall /\ stkm'.calls = Append(inc.calls, frame)
    BY <1>a, <1>3 DEF ExeAPPLY, Evaluators
  <2>3. CalmFrames(stkm')
    <3>1. frame.callee = NoCall
      OBVIOUS
    <3> HIDE DEF frame, inc
    <3>2. QED
      BY <1>a, <2>1, <2>2, <3>1, AppendCalm DEF CalmFrames
  <2>4. QED
    BY <1>0, <1>3, <1>b, <2>2, <2>3 DEF ExeAPPLY
<1>4. CASE ExeRETURN
  <2>1. stkm.callee = NoCall /\ stkm.calls # <<>>
    BY <1>0, <1>4 DEF ExeRETURN, Evaluators, PhaseMatchesCallee, TopIsOp
  <2>2. stkm'.callee = NoCall /\ CalmFrames(stkm')
    BY <1>4, <1>a, <2>1, EvaluatorCalm DEF ExeRETURN
  <2>3. QED
    BY <1>0, <1>4, <1>b, <2>2 DEF ExeRETURN
<1>5. CASE ExeEXIT
  <2> DEFINE ev == PopFrame(stkm)
  <2>1. stkm.callee = NoCall /\ stkm.calls # <<>> /\ ev.calls # <<>>
    BY <1>0, <1>5 DEF ExeEXIT, Evaluators, PhaseMatchesCallee, TopIsOp
  <2>2. ev \in Evaluators /\ ev.callee = NoCall /\ CalmFrames(ev)
    BY <1>0, <1>a, <2>1, EvaluatorType, EvaluatorCalm
  <2> HIDE DEF ev
  <2>3. /\ IncInstrnum(ev) \in Evaluators /\ IncInstrnum(ev).calls # <<>>
        /\ IncInstrnum(ev).callee = NoCall /\ CalmFrames(IncInstrnum(ev))
    BY <2>1, <2>2, EvaluatorType, EvaluatorCalm
  <2>4. stkm' = PopFrame(IncInstrnum(ev))
    BY <1>5 DEF ExeEXIT, ev
  <2>5. stkm'.callee = NoCall /\ CalmFrames(stkm')
    BY <2>3, <2>4, EvaluatorCalm
  <2>6. QED
    BY <1>0, <1>5, <1>b, <2>5 DEF ExeEXIT
<1>6. CASE ExeEOCL
  <2>1. stkm'.calls = stkm.calls /\ stkm'.callee = stkm.callee /\ stkm.callee = NoCall
    BY <1>0, <1>a, <1>6 DEF ExeEOCL, Evaluators, PhaseMatchesCallee
  <2>2. CalmFrames(stkm')
    BY <1>a, <2>1 DEF CalmFrames
  <2>3. QED
    BY <1>0, <1>6, <1>b, <2>1, <2>2 DEF ExeEOCL
<1>7. CASE ExeASSIGN
  <2>1. stkm' = inc /\ stkm.callee = NoCall
    BY <1>0, <1>7 DEF ExeASSIGN, Evaluators, PhaseMatchesCallee
  <2>2. QED
    BY <1>0, <1>7, <1>a, <1>b, <2>1 DEF ExeASSIGN
<1>8. ASSUME NEW o \in Objs, ExeSTART(o) PROVE WindowInv'
  <2>1. stkm' = inc /\ stkm'.callee = NoCall /\ CalmFrames(stkm')
    BY <1>0, <1>8, <1>a DEF ExeSTART, Evaluators, PhaseMatchesCallee
  <2>2. CASE o \notin ThreadObjs
    BY <1>8, <1>b, <2>1, <2>2 DEF ExeSTART
  <2>3. CASE o \in ThreadObjs
    <3> DEFINE new == ThreadInfo(o, "Sleeping", "body", SetThreadPriority(o))
    <3>1. /\ info' = [info EXCEPT ![next_thread_id] = new]
          /\ threads' = threads \cup {next_thread_id}
          /\ UNCHANGED <<curthread, session>>
      BY <1>8, <2>3 DEF ExeSTART
    <3>2. new.stackeval.callee = NoCall /\ CalmFrames(new.stackeval)
      BY InitEvaluatorCalm DEF ThreadInfo
    <3> HIDE DEF new
    <3>3. \A t \in ThreadIds : info'[t] = IF t = next_thread_id THEN new ELSE info[t]
      BY <3>1 DEF TypeOK
    <3>4. \A t \in threads' : t \in ThreadIds /\ (t = next_thread_id \/ t \in threads)
      BY <1>8, <2>3, <3>1, SchdAssumption DEF TypeOK, ExeSTART, ThreadIds
    <3>5. QED
      BY <1>0, <2>1, <3>1, <3>2, <3>3, <3>4
         DEF WindowInv, EvaluatorsCalm, PromptIsCalm, GuardWindowClosed
  <2>4. QED
    BY <2>2, <2>3
<1>9. ASSUME NEW objs \in SUBSET Objs, ExeSTOPLIST(objs) PROVE WindowInv'
  <2>1. stkm' = inc /\ stkm'.callee = NoCall /\ CalmFrames(stkm')
    BY <1>0, <1>9, <1>a DEF ExeSTOPLIST, Evaluators, PhaseMatchesCallee
  <2>2. PICK done \in SUBSET objs :
          /\ threads' = threads \ ThreadsOf(done)
          /\ info' = [t \in ThreadIds |-> IF t \in ThreadsOf(done) THEN NoThread ELSE info[t]]
    BY <1>9 DEF ExeSTOPLIST
  <2>3. session' \in {"running", "rterror"} /\ curthread' = curthread
    BY <1>0, <1>9 DEF ExeSTOPLIST
  <2>4. \A t \in threads' : t \in threads /\ info'[t] = info[t]
    BY <1>0, <2>2
  <2>5. \A t \in threads' : CalmFrames(info'[t].stackeval)
    BY <2>4 DEF WindowInv, EvaluatorsCalm
  <2>6. QED
    BY <2>1, <2>3, <2>4, <2>5 DEF WindowInv, EvaluatorsCalm, PromptIsCalm, GuardWindowClosed
<1>10. QED
  BY <1>1, <1>2, <1>3, <1>4, <1>5, <1>6, <1>7, <1>8, <1>9 DEF Instruction

LEMMA SwitchWindow ==
  ASSUME Cooperative, TypeOK, WindowInv, session = "running",
         NEW thr \in SUBSET threads, NEW inf \in InfoType,
         SwappedOut(thr, inf), SelAndRunThread(thr, inf)
  PROVE  WindowInv'
<1>0. thr \in SUBSET ThreadIds /\ ~EndOfSliceReached(stkm)
  BY DEF TypeOK, Cooperative, EndOfSliceReached
<1>1. /\ threads' = thr /\ UNCHANGED <<hist, ivar>>
      /\ \/ Deadlocks(inf)
         \/ \E n \in Candidates(thr, inf, hist, ivar) : Runs(inf, n)
  BY <1>0, SelAndRunThreadCases
\* Every thread of the map waits for the predicate of its pending call.
<1>2. \A t \in thr : inf[t].stackeval.callee # NoCall =>
        inf[t].status = "Blocked" /\ inf[t].on = inf[t].stackeval.callee
  <2>1. \A t \in thr \ {curthread} : inf[t] = info[t]
    BY DEF SwappedOut
  <2>2. curthread \in thr =>
          /\ inf[curthread].status = "Blocked" /\ inf[curthread].on = stkm.callee
          /\ inf[curthread].stackeval.callee = stkm.callee
    BY <1>0 DEF SwappedOut, TypeOK, Evaluators
  <2>3. QED
    BY <2>1, <2>2 DEF WindowInv, GuardWindowClosed
<1>a. \A t \in thr : CalmFrames(inf[t].stackeval)
  <2>1. \A t \in thr \ {curthread} : inf[t] = info[t]
    BY DEF SwappedOut
  <2>2. curthread \in thr => inf[curthread].stackeval.calls = stkm.calls
    BY DEF SwappedOut, TypeOK, Evaluators
  <2>3. QED
    BY <2>1, <2>2 DEF WindowInv, EvaluatorsCalm, CalmFrames
<1>3. CASE Deadlocks(inf)
  BY <1>1, <1>2, <1>3, <1>a DEF Deadlocks, WindowInv, EvaluatorsCalm, PromptIsCalm, GuardWindowClosed
<1>4. ASSUME NEW n \in Candidates(thr, inf, hist, ivar), Runs(inf, n)
      PROVE  WindowInv'
  <2>1. n \in thr /\ (inf[n].status = "Blocked" => RunGuard(hist, ivar, inf[n].on))
    BY DEF Candidates, Selectable
  <2>2. inf[n].stackeval \in Evaluators /\ CalmFrames(inf[n].stackeval)
    BY <1>0, <1>a, <2>1 DEF InfoType, ThreadInfos
  <2>3. CalmFrames(stkm') /\ stkm'.callee = inf[n].stackeval.callee
    BY <1>4, <2>2, EvaluatorCalm DEF Runs, ResetSlice, Evaluators
  <2>4. stkm'.callee # NoCall => RunGuard(hist', ivar', stkm'.callee)
    BY <1>1, <1>2, <2>1, <2>3 DEF RunGuard, active
  <2>5. \A t \in thr : t # n => info'[t] = inf[t]
    BY <1>0, <1>4, RunsInfo
  <2>6. \A t \in thr : CalmFrames(info'[t].stackeval)
    <3>1. \A t \in ThreadIds : info'[t].stackeval = inf[t].stackeval
      BY <1>4, RunsInfo
    <3>2. QED
      BY <1>0, <1>a, <3>1
  <2>7. curthread' = n /\ session' = session
    BY <1>4 DEF Runs
  <2>8. QED
    BY <1>1, <1>2, <2>3, <2>4, <2>5, <2>6, <2>7
       DEF WindowInv, EvaluatorsCalm, PromptIsCalm, GuardWindowClosed
<1>5. QED
  BY <1>1, <1>3, <1>4

LEMMA SchedulerWindow ==
  ASSUME Cooperative, TypeOK, WindowInv, Scheduler
  PROVE  WindowInv'
<1>1. CASE KeepsMachine
  <2>0. /\ UNCHANGED <<threads, curthread, hist, ivar>> /\ session = "running"
        /\ stkm \in Evaluators /\ CalmFrames(stkm)
    BY <1>1 DEF KeepsMachine, TypeOK, WindowInv, EvaluatorsCalm
  <2>1. CASE Proceeds
    <3>1. stkm'.callee = stkm.callee /\ stkm'.calls = stkm.calls
      BY <2>0, <2>1 DEF Proceeds, Evaluators
    <3>2. CalmFrames(stkm') /\ RunGuard(hist', ivar', stkm'.callee)
      BY <2>0, <2>1, <3>1 DEF CalmFrames, Proceeds, RunGuard, active
    <3>3. QED
      BY <2>0, <2>1, <3>2
         DEF Proceeds, WindowInv, EvaluatorsCalm, PromptIsCalm, GuardWindowClosed
  <2>2. CASE Answers
    <3>1. /\ PopFrame(stkm) \in Evaluators /\ CalmFrames(PopFrame(stkm))
          /\ Top(stkm).callee = NoCall
      BY <2>0, <2>2, EvaluatorType, EvaluatorCalm DEF Answers
    <3>2. stkm'.callee = NoCall /\ stkm'.calls = PopFrame(stkm).calls /\ session' = "idle"
      BY <2>2, <3>1 DEF Answers, Evaluators
    <3>3. CalmFrames(stkm')
      BY <3>1, <3>2 DEF CalmFrames
    <3>4. info' = [info EXCEPT ![curthread] = [@ EXCEPT !.stackeval = stkm']]
      BY <2>2 DEF Answers
    <3>5. info \in InfoType /\ threads \subseteq ThreadIds
      BY DEF TypeOK, InfoType
    <3>6. \A t \in threads : info'[t] = info[t] \/ info'[t].stackeval = stkm'
      BY <3>4, <3>5 DEF InfoType, ThreadInfos
    <3>7. \A t \in threads \ {curthread} : info'[t] = info[t]
      BY <3>4, <3>5 DEF InfoType
    <3>8. QED
      BY <2>0, <3>2, <3>3, <3>6, <3>7
         DEF WindowInv, EvaluatorsCalm, PromptIsCalm, GuardWindowClosed
  <2>3. CASE Fails
    BY <2>0, <2>3 DEF Fails, WindowInv, EvaluatorsCalm, PromptIsCalm, GuardWindowClosed
  <2>4. QED
    BY <1>1, <2>1, <2>2, <2>3 DEF KeepsMachine
<1>2. ASSUME NEW thr \in SUBSET threads, NEW inf \in InfoType,
             SwappedOut(thr, inf), SelAndRunThread(thr, inf)
      PROVE  WindowInv'
  <2>1. session = "running"
    BY DEF Scheduler, HandleGuard, HandleEndOfSlice, HandleDebugSuccess, HandleThreadSuccess
  <2>2. QED
    BY <1>2, <2>1, SwitchWindow
<1>3. QED
  BY <1>1, <1>2, SchedulerSteps

LEMMA UserWindow ==
  ASSUME Cooperative, TypeOK, WindowInv, User
  PROVE  WindowInv'
<1> USE DEF schdVars, prioVars
<1>0. stkm \in Evaluators /\ CalmFrames(stkm)
  BY DEF TypeOK, WindowInv, EvaluatorsCalm
<1>1. CASE UserPrint
  <2> DEFINE frame == [call |-> NoCall, phase |-> stkm.phase, callee |-> stkm.callee]
  <2>1. session = "idle" /\ stkm.callee = NoCall
    BY <1>1 DEF UserPrint, WindowInv, PromptIsCalm
  <2>2. frame \in Frames /\ frame.callee = NoCall /\ stkm.calls \in Seq(Frames)
    BY <1>0, <2>1 DEF Evaluators, Frames, PhaseMatchesCallee
  <2>3. stkm'.callee = NoCall /\ stkm'.calls = Append(stkm.calls, frame)
    BY <1>0, <1>1 DEF UserPrint, Evaluators
  <2> HIDE DEF frame
  <2>4. CalmFrames(stkm')
    BY <1>0, <2>2, <2>3, AppendCalm DEF CalmFrames
  <2>5. UNCHANGED <<threads, info, curthread>> /\ session' = "running"
    BY <1>1 DEF UserPrint
  <2>6. QED
    BY <2>3, <2>4, <2>5 DEF WindowInv, EvaluatorsCalm, PromptIsCalm, GuardWindowClosed
<1>2. CASE UserContinue
  <2>1. session = "idle" /\ stkm.callee = NoCall
    BY <1>2 DEF UserContinue, AtPrompt, WindowInv, PromptIsCalm
  <2>2. stkm'.callee = NoCall /\ CalmFrames(stkm')
    BY <1>0, <1>2, <2>1, EvaluatorCalm DEF UserContinue, ResetSlice, Evaluators
  <2>3. UNCHANGED <<threads, info, curthread>> /\ session' = "running"
    BY <1>2 DEF UserContinue
  <2>4. QED
    BY <2>2, <2>3 DEF WindowInv, EvaluatorsCalm, PromptIsCalm, GuardWindowClosed
<1>3. ASSUME NEW t \in ThreadIds, UserSelThread(t) PROVE WindowInv'
  BY <1>3 DEF UserSelThread, Cooperative
<1>4. ASSUME NEW pm \in Priorities, UserPriorityFile(pm) PROVE WindowInv'
  <2>1. \A t \in threads : /\ info'[t].stackeval = info[t].stackeval
                           /\ info'[t].status = info[t].status
                           /\ info'[t].on = info[t].on
    BY <1>4 DEF UserPriorityFile, TypeOK, ThreadInfos
  <2>2. UNCHANGED <<threads, curthread, stkm, hist, ivar, session>>
    BY <1>4 DEF UserPriorityFile
  <2>3. QED
    BY <2>1, <2>2
       DEF WindowInv, EvaluatorsCalm, PromptIsCalm, GuardWindowClosed, RunGuard, active
<1>5. CASE UserInit
  <2>1. InitState(threads', info', curthread', next_thread_id', maxPriority', stkm', hist',
                  ivar', session')
    BY <1>5 DEF UserInit
  <2>2. /\ CalmFrames(stkm') /\ stkm'.callee = NoCall
        /\ \A u \in ThreadIds : CalmFrames(info'[u].stackeval) /\ info'[u].stackeval.callee = NoCall
        /\ threads' \subseteq ThreadIds /\ session' = "idle"
    BY <2>1, InitWindow
  <2>3. QED
    BY <2>2 DEF WindowInv, EvaluatorsCalm, PromptIsCalm, GuardWindowClosed
<1>6. QED
  BY <1>1, <1>2, <1>3, <1>4, <1>5 DEF User

LEMMA WindowStep ==
  ASSUME Cooperative, TypeOK, WindowInv, [Next]_vars
  PROVE  WindowInv'
<1>1. CASE UNCHANGED vars
  BY <1>1 DEF vars, WindowInv, EvaluatorsCalm, CalmFrames, PromptIsCalm, GuardWindowClosed,
              RunGuard, active
<1>2. QED
  BY <1>1, InstructionWindow, SchedulerWindow, UserWindow DEF Next

LEMMA InitWindowInv == Init => WindowInv
<1> SUFFICES ASSUME Init PROVE WindowInv
  OBVIOUS
<1>1. /\ CalmFrames(stkm) /\ stkm.callee = NoCall
      /\ \A u \in ThreadIds : CalmFrames(info[u].stackeval) /\ info[u].stackeval.callee = NoCall
      /\ threads \subseteq ThreadIds /\ session = "idle"
  BY InitWindow DEF Init
<1>2. QED
  BY <1>1 DEF WindowInv, EvaluatorsCalm, PromptIsCalm, GuardWindowClosed

-----------------------------------------------------------------------------
(* Activations.                                                              *)

\* The two facts a switch cannot disturb hold in every reachable state.
LEMMA WindowIsInvariant ==
  ASSUME Cooperative
  PROVE  Spec => [](TypeOK /\ WindowInv)
<1>1. TypeOK /\ WindowInv /\ [Next]_vars => (TypeOK /\ WindowInv)'
  BY NextTypeOK, WindowStep
<1>2. QED
  BY <1>1, InitTypeOK, InitWindowInv, PTL DEF Spec

\* Between the test of a permission predicate and the activation of its operation
\* nothing can make the predicate false.
THEOREM CooperativeClosesGuardWindow ==
  ASSUME Cooperative
  PROVE  Spec => []GuardWindowClosed
<1>1. WindowInv => GuardWindowClosed
  BY DEF WindowInv
<1>2. QED
  BY <1>1, WindowIsInvariant, PTL

\* What counting does to the number of active calls.
LEMMA ActiveAfterUpdate ==
  ASSUME NEW h \in HistoryType, NEW c \in Calls, NEW d \in Calls, NEW o \in Ops,
         NEW kind \in {"req", "act", "fin"}
  PROVE  active(UpdateHistCount(h, c, kind), d, o) =
           active(h, d, o) +
             (IF d.obj = c.obj /\ o = c.op
              THEN IF kind = "act" THEN 1 ELSE IF kind = "fin" THEN -1 ELSE 0
              ELSE 0)
<1> DEFINE g == UpdateHistCount(h, c, kind)
<1>1. c.obj \in Objs /\ c.op \in Ops /\ d.obj \in Objs
  BY DEF Calls
<1>2. h[d.obj][o] \in Histories
  BY <1>1 DEF HistoryType
<1>3. CASE d.obj = c.obj /\ o = c.op
  <2>1. g[d.obj][o] = Counted(h[d.obj][o], kind)
    BY <1>1, <1>3 DEF UpdateHistCount, HistoryType
  <2>2. QED
    BY <1>2, <1>3, <2>1 DEF active, Counted, Histories
<1>4. CASE ~ (d.obj = c.obj /\ o = c.op)
  <2>1. g[d.obj][o] = h[d.obj][o]
    BY <1>1, <1>4 DEF UpdateHistCount, HistoryType
  <2> HIDE DEF g
  <2>2. active(g, d, o) = active(h, d, o)
    BY <2>1 DEF active
  <2>3. active(h, d, o) \in Int
    BY <1>2 DEF active, Histories
  <2>4. QED
    BY <1>4, <2>2, <2>3 DEF g
<1>5. QED
  BY <1>3, <1>4

MutexIn(h) ==
  \A c \in Calls : \A o \in Mutex[c.op] :
    IF o = c.op THEN active(h, c, o) <= 1
                ELSE active(h, c, o) <= 0 \/ active(h, c, c.op) <= 0

LEMMA MutexAfterRequestOrCompletion ==
  ASSUME NEW h \in HistoryType, MutexIn(h), NEW d \in Calls, NEW kind \in {"req", "fin"}
  PROVE  MutexIn(UpdateHistCount(h, d, kind))
<1> DEFINE g == UpdateHistCount(h, d, kind)
<1>1. ASSUME NEW c \in Calls, NEW o \in Ops
      PROVE  active(h, c, o) \in Int /\ active(g, c, o) \in Int /\ active(g, c, o) <= active(h, c, o)
  <2>1. active(h, c, o) \in Int
    BY DEF active, HistoryType, Histories, Calls
  <2>2. QED
    BY <2>1, ActiveAfterUpdate
<1> HIDE DEF g
<1>2. \A c \in Calls : c.op \in Ops /\ Mutex[c.op] \subseteq Ops
  BY SchdAssumption DEF Calls
<1>3. MutexIn(g)
  <2> SUFFICES ASSUME NEW c \in Calls, NEW o \in Mutex[c.op]
               PROVE  IF o = c.op THEN active(g, c, o) <= 1
                                  ELSE active(g, c, o) <= 0 \/ active(g, c, c.op) <= 0
    BY DEF MutexIn
  <2>1. o \in Ops /\ c.op \in Ops
    BY <1>2
  <2>2. IF o = c.op THEN active(h, c, o) <= 1
                    ELSE active(h, c, o) <= 0 \/ active(h, c, c.op) <= 0
    BY DEF MutexIn
  <2>3. QED
    BY <1>1, <2>1, <2>2
<1>4. QED
  BY <1>3 DEF g

LEMMA MutexAfterActivation ==
  ASSUME NEW h \in HistoryType, MutexIn(h), NEW iv, NEW d \in Calls, RunGuard(h, iv, d)
  PROVE  MutexIn(UpdateHistCount(h, d, "act"))
<1> DEFINE g == UpdateHistCount(h, d, "act")
<1>1. \A c \in Calls, o \in Ops :
        /\ active(h, c, o) \in Int
        /\ active(g, c, o) = active(h, c, o) + (IF c.obj = d.obj /\ o = d.op THEN 1 ELSE 0)
  <2>1. ASSUME NEW c \in Calls, NEW o \in Ops PROVE active(h, c, o) \in Int
    BY DEF active, HistoryType, Histories, Calls
  <2>2. QED
    BY <2>1, ActiveAfterUpdate
<1> HIDE DEF g
<1>2. \A o \in Mutex[d.op] : active(h, d, o) = 0
  BY DEF RunGuard
<1>3. MutexIn(g)
  <2> SUFFICES ASSUME NEW c \in Calls, NEW o \in Mutex[c.op]
               PROVE  IF o = c.op THEN active(g, c, o) <= 1
                                  ELSE active(g, c, o) <= 0 \/ active(g, c, c.op) <= 0
    BY DEF MutexIn
  <2>1. /\ o \in Ops /\ c.op \in Ops /\ d.op \in Ops
        /\ o \in Mutex[c.op] <=> c.op \in Mutex[o]
    BY SchdAssumption DEF Calls
  <2>2. IF o = c.op THEN active(h, c, o) <= 1
                    ELSE active(h, c, o) <= 0 \/ active(h, c, c.op) <= 0
    BY DEF MutexIn
  <2>3. CASE c.obj # d.obj
    BY <1>1, <2>1, <2>2, <2>3
  <2>4. CASE c.obj = d.obj
    <3>1. \A p \in Ops : active(h, c, p) = active(h, d, p)
      BY <2>4 DEF active
    <3>2. CASE d.op = c.op
      BY <1>1, <1>2, <2>1, <2>4, <3>1, <3>2
    <3>3. CASE d.op # c.op /\ d.op = o
      BY <1>1, <1>2, <2>1, <2>4, <3>1, <3>3
    <3>4. CASE d.op # c.op /\ d.op # o
      BY <1>1, <2>1, <2>2, <3>4
    <3>5. QED
      BY <3>2, <3>3, <3>4
  <2>5. QED
    BY <2>3, <2>4
<1>4. QED
  BY <1>3 DEF g

\* The histories after a step: all as they were, a request or a completion more,
\* an activation whose predicate is true, or a new evaluation.
NoHistory == [o \in Objs |-> [p \in Ops |-> [req |-> 0, act |-> 0, fin |-> 0]]]

LEMMA HistorySteps ==
  ASSUME TypeOK, WindowInv, [Next]_vars
  PROVE  \/ hist' = hist
         \/ hist' = NoHistory
         \/ \E c \in Calls : hist' = UpdateHistCount(hist, c, "req")
         \/ \E c \in Calls : hist' = UpdateHistCount(hist, c, "fin")
         \/ \E c, d \in Calls :
              hist' = UpdateHistCount(UpdateHistCount(hist, c, "fin"), d, "fin")
         \/ \E c \in Calls : /\ RunGuard(hist, ivar, c)
                             /\ hist' = UpdateHistCount(hist, c, "act")
<1> USE DEF schdVars, prioVars
<1>0. stkm \in Evaluators
  BY DEF TypeOK
<1>1. CASE UNCHANGED vars
  BY <1>1 DEF vars
<1>2. CASE Instruction
  <2>1. ASSUME NEW c \in Calls, ExeGUARD(c)
        PROVE  \E d \in Calls : hist' = UpdateHistCount(hist, d, "req")
    BY <2>1 DEF ExeGUARD
  <2>2. CASE ExeCONTEXT \/ ExeEOCL \/ ExeASSIGN
    BY <2>2 DEF ExeCONTEXT, ExeEOCL, ExeASSIGN
  <2>3. CASE ExeAPPLY
    <3>1. stkm.callee \in Calls /\ RunGuard(hist, ivar, stkm.callee)
      BY <1>0, <2>3 DEF ExeAPPLY, InMainLoop, Evaluators, PhaseMatchesCallee, WindowInv,
                        GuardWindowClosed
    <3>2. QED
      BY <2>3, <3>1 DEF ExeAPPLY
  <2>4. \A ev \in Evaluators : TopIsOp(ev) => Top(ev).call \in Calls
    BY EvaluatorType DEF TopIsOp, Frames
  <2>5. CASE ExeRETURN
    BY <1>0, <2>4, <2>5 DEF ExeRETURN
  <2>6. CASE ExeEXIT
    <3>1. PopFrame(stkm) \in Evaluators
      BY <1>0, <2>6, EvaluatorType DEF ExeEXIT, TopIsOp
    <3>2. QED
      BY <1>0, <2>4, <2>6, <3>1 DEF ExeEXIT
  <2>7. ASSUME NEW o \in Objs, ExeSTART(o) PROVE hist' = hist
    BY <2>7 DEF ExeSTART
  <2>8. ASSUME NEW objs \in SUBSET Objs, ExeSTOPLIST(objs) PROVE hist' = hist
    BY <2>8 DEF ExeSTOPLIST
  <2>9. QED
    BY <1>2, <2>1, <2>2, <2>3, <2>5, <2>6, <2>7, <2>8 DEF Instruction
<1>3. CASE Scheduler
  <2>1. CASE KeepsMachine
    BY <2>1 DEF KeepsMachine
  <2>2. ASSUME NEW thr \in SUBSET threads, NEW inf \in InfoType, SelAndRunThread(thr, inf)
        PROVE  hist' = hist
    <3>1. thr \in SUBSET ThreadIds
      BY DEF TypeOK
    <3>2. QED
      BY <2>2, <3>1, SelAndRunThreadCases
  <2>3. QED
    BY <1>3, <2>1, <2>2, SchedulerSteps
<1>4. CASE User
  BY <1>4 DEF User, UserPrint, UserContinue, UserSelThread, UserPriorityFile, UserInit,
              InitState, NoHistory
<1>5. QED
  BY <1>1, <1>2, <1>3, <1>4 DEF Next

LEMMA NoHistoryMutex == NoHistory \in HistoryType /\ MutexIn(NoHistory)
<1>1. NoHistory \in HistoryType
  BY DEF NoHistory, HistoryType, Histories
<1>2. \A c \in Calls, o \in Ops : active(NoHistory, c, o) = 0
  BY DEF NoHistory, active, Calls
<1>3. \A c \in Calls : c.op \in Ops /\ Mutex[c.op] \subseteq Ops
  BY SchdAssumption DEF Calls
<1>4. QED
  BY <1>1, <1>2, <1>3 DEF MutexIn

LEMMA MutexStep ==
  ASSUME TypeOK, WindowInv, MutexIn(hist), [Next]_vars
  PROVE  MutexIn(hist')
<1>1. hist \in HistoryType
  BY DEF TypeOK, HistoryType
<1>2. \A c, d \in Calls :
        MutexIn(UpdateHistCount(UpdateHistCount(hist, c, "fin"), d, "fin"))
  BY <1>1, UpdateHistCountType, MutexAfterRequestOrCompletion
<1>3. \A c \in Calls : /\ MutexIn(UpdateHistCount(hist, c, "req"))
                       /\ MutexIn(UpdateHistCount(hist, c, "fin"))
  BY <1>1, MutexAfterRequestOrCompletion
<1>4. \A c \in Calls : RunGuard(hist, ivar, c) => MutexIn(UpdateHistCount(hist, c, "act"))
  BY <1>1, MutexAfterActivation
<1>5. QED
  BY <1>2, <1>3, <1>4, HistorySteps, NoHistoryMutex

\* Operations that mutex predicates exclude from each other are never active
\* together on an object.
THEOREM CooperativeMutex ==
  ASSUME Cooperative
  PROVE  Spec => []MutexHolds
<1> DEFINE IInv == TypeOK /\ WindowInv /\ MutexIn(hist)
<1>1. Init => IInv
  <2>1. Init => hist = NoHistory
    BY DEF Init, InitState, NoHistory
  <2>2. QED
    BY <2>1, InitTypeOK, InitWindowInv, NoHistoryMutex
<1>2. IInv /\ [Next]_vars => IInv'
  BY NextTypeOK, WindowStep, MutexStep
<1>3. IInv => MutexHolds
  BY DEF MutexIn, MutexHolds
<1>4. QED
  BY <1>1, <1>2, <1>3, PTL DEF Spec

\* The counters of one operation after a step that counts another event.
LEMMA ActAfterUpdate ==
  ASSUME NEW h \in HistoryType, NEW c \in Calls, NEW d \in Calls, NEW kind
  PROVE  UpdateHistCount(h, d, kind)[c.obj][c.op].act =
           h[c.obj][c.op].act + (IF c = d /\ kind = "act" THEN 1 ELSE 0)
<1>1. /\ c.obj \in Objs /\ c.op \in Ops /\ d.obj \in Objs /\ d.op \in Ops
      /\ c = d <=> c.obj = d.obj /\ c.op = d.op
  BY DEF Calls
<1>2. h[c.obj][c.op] \in Histories
  BY <1>1 DEF HistoryType
<1>3. CASE c = d
  <2>1. UpdateHistCount(h, d, kind)[c.obj][c.op] = Counted(h[c.obj][c.op], kind)
    BY <1>1, <1>3 DEF UpdateHistCount, HistoryType
  <2>2. QED
    BY <1>2, <1>3, <2>1 DEF Counted
<1>4. CASE c # d
  <2>1. UpdateHistCount(h, d, kind)[c.obj][c.op] = h[c.obj][c.op]
    BY <1>1, <1>4 DEF UpdateHistCount, HistoryType
  <2>2. QED
    BY <1>2, <1>4, <2>1 DEF Histories
<1>5. QED
  BY <1>3, <1>4

LEMMA ActivationStep ==
  ASSUME TypeOK, WindowInv, [Next]_vars, NEW c \in Calls,
         hist'[c.obj][c.op].act > hist[c.obj][c.op].act
  PROVE  RunGuard(hist, ivar, c)
<1>1. hist \in HistoryType /\ c.obj \in Objs /\ c.op \in Ops
  BY DEF TypeOK, HistoryType, Calls
<1> DEFINE acts(h) == h[c.obj][c.op].act
<1>2. acts(hist) \in Nat
  BY <1>1 DEF HistoryType, Histories
<1>3. acts(NoHistory) = 0
  BY <1>1 DEF NoHistory
<1>4. \A d \in Calls : /\ acts(UpdateHistCount(hist, d, "req")) = acts(hist)
                       /\ acts(UpdateHistCount(hist, d, "fin")) = acts(hist)
                       /\ d # c => acts(UpdateHistCount(hist, d, "act")) = acts(hist)
  BY <1>1, <1>2, ActAfterUpdate
<1>5. \A d, e \in Calls :
        acts(UpdateHistCount(UpdateHistCount(hist, d, "fin"), e, "fin")) = acts(hist)
  BY <1>1, <1>2, ActAfterUpdate, UpdateHistCountType
<1>6. acts(hist') > acts(hist)
  OBVIOUS
<1> HIDE DEF acts
<1>7. QED
  BY <1>2, <1>3, <1>4, <1>5, <1>6, HistorySteps

\* The test of a permission predicate and the activation of its operation are one
\* atomic operation.
THEOREM CooperativeActivation ==
  ASSUME Cooperative
  PROVE  Spec => ActivationIsPermitted
<1> DEFINE Permitted == \A c \in Calls : hist'[c.obj][c.op].act > hist[c.obj][c.op].act =>
                          RunGuard(hist, ivar, c)
<1>1. TypeOK /\ WindowInv /\ [Next]_vars => [Permitted]_vars
  BY ActivationStep
<1>2. ActivationIsPermitted <=> [][Permitted]_vars
  BY DEF ActivationIsPermitted
<1> HIDE DEF Permitted
<1>3. QED
  BY <1>1, <1>2, WindowIsInvariant, PTL DEF Spec

-----------------------------------------------------------------------------
(* What a step does to the work of the threads: their call stacks, and the   *)
(* calls they have requested.                                                *)

Live == threads \cup {curthread}

SameWork(a, b) == a.calls = b.calls /\ a.callee = b.callee /\ a.phase = b.phase

Fresh(ev, phase) == ev.calls = <<>> /\ ev.callee = NoCall /\ ev.phase = phase

\* The machine goes on with the current thread.
Moves(calls, callee, phase) ==
  /\ UNCHANGED <<threads, curthread>>
  /\ \A t \in ThreadIds \ {curthread} : info'[t].stackeval = info[t].stackeval
  /\ stkm'.calls = calls /\ stkm'.callee = callee /\ stkm'.phase = phase

Popped(calls) == SubSeq(calls, 1, Len(calls) - 1)

Requests(c) ==
  /\ session = "running" /\ session' = "running"
  /\ stkm.phase = "body" /\ Len(stkm.calls) < MaxDepth
  /\ Moves(stkm.calls, c, stkm'.phase) /\ stkm'.phase \in {"context", "apply"}
  /\ hist' = UpdateHistCount(hist, c, "req")

Activates(c) ==
  /\ session = "running" /\ session' = "running"
  /\ stkm.callee = c
  /\ Moves(Append(stkm.calls, [call |-> c, phase |-> "body", callee |-> NoCall]), NoCall, "body")
  /\ hist' = UpdateHistCount(hist, c, "act")

Completes(c) ==
  /\ session = "running" /\ session' = "running"
  /\ stkm.phase = "body" /\ stkm.callee = NoCall
  /\ stkm.calls # <<>> /\ Top(stkm).call = c
  /\ Moves(Popped(stkm.calls), NoCall, "body")
  /\ hist' = UpdateHistCount(hist, c, "fin")

CompletesTwo(c, d) ==
  /\ session = "running" /\ session' = "running"
  /\ stkm.phase = "body" /\ stkm.callee = NoCall
  /\ stkm.calls # <<>> /\ Top(stkm).call = c
  /\ Popped(stkm.calls) # <<>> /\ Top(PopFrame(stkm)).call = d
  /\ Moves(Popped(Popped(stkm.calls)), NoCall, "body")
  /\ hist' = UpdateHistCount(UpdateHistCount(hist, c, "fin"), d, "fin")

Ends ==
  /\ session = "running" /\ session' = "running"
  /\ stkm.phase = "body" /\ ~TopIsOp(stkm)
  /\ Moves(stkm.calls, NoCall, "end")
  /\ hist' = hist

\* The work is as it was; the evaluation may begin or end.
Goes ==
  /\ \/ session' \in {session, "rterror"}
     \/ session = "running" /\ session' = "break"
     \/ session \in {"idle", "break"} /\ session' = "running" /\ stkm.phase # "end"
  /\ Moves(stkm.calls, stkm.callee, stkm'.phase)
  /\ stkm'.phase = stkm.phase \/ stkm'.phase = "apply"
  /\ hist' = hist

Starts ==
  /\ session = "running" /\ session' = "running"
  /\ next_thread_id \in ThreadIds \ Live /\ next_thread_id # DebugThread
  /\ threads' = threads \cup {next_thread_id} /\ curthread' = curthread
  /\ Fresh(info'[next_thread_id].stackeval, "body")
  /\ \A t \in threads : info'[t].stackeval = info[t].stackeval
  /\ SameWork(stkm', stkm)
  /\ hist' = hist

Stops ==
  /\ "stop" \in Stmts
  /\ threads' \subseteq threads /\ curthread' = curthread
  /\ \A t \in threads' : info'[t].stackeval = info[t].stackeval
  /\ SameWork(stkm', stkm)
  /\ hist' = hist

\* Another thread gets the machine, or deadlock is reported; the current thread
\* may have reached its end.
Switches ==
  /\ session = "running"
  /\ \/ threads' = threads
     \/ threads' = threads \ {curthread} /\ stkm.phase = "end" /\ curthread # DebugThread
  /\ \/ curthread' \in threads' /\ session' = "running"
     \/ curthread' = curthread /\ session' = "deadlock"
  /\ \A t \in threads' : SameWork(EvaluatorOf(t)', EvaluatorOf(t))
  /\ curthread' = curthread => SameWork(stkm', stkm)
  /\ hist' = hist

Pops ==
  /\ session = "running" /\ session' = "idle"
  /\ curthread = DebugThread /\ stkm.phase = "end" /\ stkm.callee = NoCall /\ stkm.calls # <<>>
  /\ Moves(Popped(stkm.calls), Top(stkm).callee, Top(stkm).phase)
  /\ hist' = hist

GivesUp ==
  /\ session = "running" /\ session' = "interror"
  /\ \/ curthread = DebugThread /\ stkm.calls = <<>>
     \/ curthread \notin threads
  /\ Moves(stkm.calls, stkm.callee, stkm.phase)
  /\ hist' = hist

Pushes ==
  /\ session = "idle" \/ "print" \in UserCmds
  /\ session' = "running" /\ Len(stkm.calls) < MaxDepth
  /\ Moves(Append(stkm.calls, [call |-> NoCall, phase |-> stkm.phase, callee |-> stkm.callee]),
           NoCall, "body")
  /\ hist' = hist

Selects ==
  /\ "selthread" \in UserCmds
  /\ threads' = threads /\ curthread \in threads /\ curthread' \in threads
  /\ \A t \in threads : SameWork(EvaluatorOf(t)', EvaluatorOf(t))
  /\ hist' = hist

Resets ==
  /\ session' = "idle"
  /\ threads' = {DebugThread} /\ curthread' = DebugThread
  /\ Fresh(stkm', "end")
  /\ hist' = NoHistory

WorkKinds ==
  \/ \E c \in Calls : Requests(c) \/ Activates(c) \/ Completes(c)
  \/ \E c, d \in Calls : CompletesTwo(c, d)
  \/ Ends \/ Goes \/ Starts \/ Stops
  \/ Switches \/ Pops \/ GivesUp
  \/ Pushes \/ Selects \/ Resets

LEMMA WorkFields ==
  ASSUME NEW ev \in Evaluators
  PROVE  /\ SameWork(IncInstrnum(ev), ev) /\ SameWork(ResetSlice(ev), ev)
         /\ IncInstrnum(ev) \in Evaluators
         /\ SameWork([ev EXCEPT !.guard = FALSE], ev)
         /\ PopFrame(ev).calls = Popped(ev.calls)
         /\ PopFrame(ev).callee = ev.callee /\ PopFrame(ev).phase = ev.phase
         /\ ev.phase \notin {"context", "apply"} => ev.callee = NoCall
         /\ ev.phase \in {"context", "apply"} => ev.callee \in Calls
         /\ TopIsOp(ev) => ev.calls # <<>> /\ Top(ev).call \in Calls /\ PopFrame(ev) \in Evaluators
<1>1. SameWork(IncInstrnum(ev), ev) /\ SameWork(ResetSlice(ev), ev) /\ IncInstrnum(ev) \in Evaluators
  BY EvaluatorType DEF Evaluators, IncInstrnum, ResetSlice, SameWork
<1>2. SameWork([ev EXCEPT !.guard = FALSE], ev)
  BY DEF Evaluators, SameWork
<1>3. /\ PopFrame(ev).calls = Popped(ev.calls)
      /\ PopFrame(ev).callee = ev.callee /\ PopFrame(ev).phase = ev.phase
  BY DEF Evaluators, PopFrame, Popped
<1>4. /\ ev.phase \notin {"context", "apply"} => ev.callee = NoCall
      /\ ev.phase \in {"context", "apply"} => ev.callee \in Calls
  BY DEF Evaluators, PhaseMatchesCallee
<1>5. TopIsOp(ev) => ev.calls # <<>> /\ Top(ev).call \in Calls /\ PopFrame(ev) \in Evaluators
  BY EvaluatorType DEF TopIsOp, Frames
<1>6. QED
  BY <1>1, <1>2, <1>3, <1>4, <1>5

LEMMA InstructionKinds ==
  ASSUME TypeOK, IdsHandedOut, Instruction
  PROVE  WorkKinds
<1> USE DEF schdVars, prioVars
<1>0. stkm \in Evaluators /\ IncInstrnum(stkm) \in Evaluators /\ SameWork(IncInstrnum(stkm), stkm)
  BY WorkFields DEF TypeOK
<1>a. session = "running"
  BY DEF Instruction, InMainLoop, ExeGUARD, ExeCONTEXT, ExeAPPLY, ExeRETURN, ExeEXIT,
         ExeEOCL, ExeASSIGN, ExeSTART, ExeSTOPLIST
<1> DEFINE ev == IncInstrnum(stkm)
<1>b. ev.calls = stkm.calls /\ ev.callee = stkm.callee /\ ev.phase = stkm.phase /\ ev \in Evaluators
  BY <1>0 DEF SameWork
<1> HIDE DEF ev
<1>1. ASSUME NEW c \in Calls, ExeGUARD(c) PROVE Requests(c)
  <2>1. stkm' = [ev EXCEPT !.guard = TRUE, !.callee = c,
                    !.phase = IF DebugInfo THEN "context" ELSE "apply"]
    BY <1>1 DEF ExeGUARD, ev
  <2>2. stkm'.calls = stkm.calls /\ stkm'.callee = c /\ stkm'.phase \in {"context", "apply"}
    BY <1>b, <2>1 DEF Evaluators
  <2>3. QED
    BY <1>a, <1>1, <2>2 DEF ExeGUARD, Requests, Moves
<1>2. CASE ExeCONTEXT
  <2>1. stkm' = [ev EXCEPT !.phase = IF @ = "context" THEN "apply" ELSE @]
    BY <1>2 DEF ExeCONTEXT, ev
  <2>2. /\ stkm'.calls = stkm.calls /\ stkm'.callee = stkm.callee
        /\ stkm'.phase = stkm.phase \/ stkm'.phase = "apply"
    BY <1>b, <2>1 DEF Evaluators
  <2>3. Goes
    BY <1>a, <1>2, <2>2 DEF ExeCONTEXT, Goes, Moves
  <2>4. QED
    BY <2>3 DEF WorkKinds
<1>3. CASE ExeAPPLY
  <2>1. stkm.callee \in Calls
    BY <1>0, <1>3, WorkFields DEF ExeAPPLY
  <2>2. stkm' = [ev EXCEPT !.phase = "body", !.callee = NoCall,
                   !.calls = Append(@, [call |-> stkm.callee, phase |-> "body", callee |-> NoCall])]
    BY <1>3 DEF ExeAPPLY, ev
  <2>3. /\ stkm'.calls = Append(stkm.calls, [call |-> stkm.callee, phase |-> "body", callee |-> NoCall])
        /\ stkm'.callee = NoCall /\ stkm'.phase = "body"
    BY <1>b, <2>2 DEF Evaluators
  <2>4. Activates(stkm.callee)
    BY <1>a, <1>3, <2>3 DEF ExeAPPLY, Activates, Moves
  <2>5. QED
    BY <2>1, <2>4 DEF WorkKinds
<1>4. CASE ExeRETURN
  <2>1. stkm.calls # <<>> /\ Top(stkm).call \in Calls /\ stkm.callee = NoCall
    BY <1>0, <1>4, WorkFields DEF ExeRETURN
  <2>2. stkm'.calls = Popped(stkm.calls) /\ stkm'.callee = NoCall /\ stkm'.phase = "body"
    BY <1>b, <1>4, <2>1, WorkFields DEF ExeRETURN, ev
  <2>3. Completes(Top(stkm).call)
    BY <1>a, <1>4, <2>1, <2>2 DEF ExeRETURN, Completes, Moves
  <2>4. QED
    BY <2>1, <2>3 DEF WorkKinds
<1>5. CASE ExeEXIT
  <2>1. stkm.calls # <<>> /\ Top(stkm).call \in Calls /\ stkm.callee = NoCall /\ stkm.phase = "body"
    BY <1>0, <1>5, WorkFields DEF ExeEXIT
  <2>2. /\ PopFrame(stkm) \in Evaluators /\ PopFrame(stkm).calls = Popped(stkm.calls)
        /\ PopFrame(stkm).callee = NoCall /\ PopFrame(stkm).phase = "body"
    BY <1>0, <1>5, <2>1, WorkFields DEF ExeEXIT
  <2>3. Popped(stkm.calls) # <<>> /\ Top(PopFrame(stkm)).call \in Calls
    BY <1>5, <2>2, WorkFields DEF ExeEXIT
  <2> DEFINE inc == IncInstrnum(PopFrame(stkm))
  <2>4. inc \in Evaluators /\ inc.calls = Popped(stkm.calls) /\ inc.callee = NoCall /\ inc.phase = "body"
    BY <2>2, WorkFields DEF SameWork
  <2>5. stkm' = PopFrame(inc)
    BY <1>5 DEF ExeEXIT
  <2> HIDE DEF inc
  <2>6. stkm'.calls = Popped(Popped(stkm.calls)) /\ stkm'.callee = NoCall /\ stkm'.phase = "body"
    BY <2>4, <2>5, WorkFields
  <2>7. CompletesTwo(Top(stkm).call, Top(PopFrame(stkm)).call)
    BY <1>a, <1>5, <2>1, <2>3, <2>6 DEF ExeEXIT, CompletesTwo, Moves
  <2>8. QED
    BY <2>1, <2>3, <2>7 DEF WorkKinds
<1>6. CASE ExeEOCL
  <2>1. stkm' = [ev EXCEPT !.phase = "end"]
    BY <1>6 DEF ExeEOCL, ev
  <2>2. stkm'.calls = stkm.calls /\ stkm'.callee = NoCall /\ stkm'.phase = "end"
    BY <1>0, <1>b, <1>6, <2>1, WorkFields DEF ExeEOCL, Evaluators
  <2>3. Ends
    BY <1>a, <1>6, <2>2 DEF ExeEOCL, Ends, Moves
  <2>4. QED
    BY <2>3 DEF WorkKinds
<1>7. CASE ExeASSIGN
  <2>1. Goes
    BY <1>a, <1>b, <1>7 DEF ExeASSIGN, Goes, Moves, ev
  <2>2. QED
    BY <2>1 DEF WorkKinds
<1>8. ASSUME NEW o \in Objs, ExeSTART(o) PROVE WorkKinds
  <2>1. stkm' = ev /\ hist' = hist
    BY <1>8 DEF ExeSTART, ev
  <2>2. CASE o \notin ThreadObjs
    <3>1. Goes
      BY <1>a, <1>b, <1>8, <2>1, <2>2 DEF ExeSTART, Goes, Moves
    <3>2. QED
      BY <3>1 DEF WorkKinds
  <2>3. CASE o \in ThreadObjs
    <3> DEFINE new == ThreadInfo(o, "Sleeping", "body", SetThreadPriority(o))
    <3>1. /\ info' = [info EXCEPT ![next_thread_id] = new]
          /\ threads' = threads \cup {next_thread_id} /\ UNCHANGED <<curthread, session>>
          /\ next_thread_id <= MaxThreads
      BY <1>8, <2>3 DEF ExeSTART
    <3>2. /\ next_thread_id \in ThreadIds \ Live /\ next_thread_id # DebugThread
          /\ threads \subseteq ThreadIds
      BY <3>1, SchdAssumption DEF IdsHandedOut, TypeOK, ThreadIds, Live, DebugThread
    <3>3. Fresh(new.stackeval, "body")
      BY DEF ThreadInfo, InitEvaluatorStatus, Fresh
    <3> HIDE DEF new
    <3>4. /\ info'[next_thread_id] = new
          /\ \A t \in threads : info'[t] = info[t]
      BY <3>1, <3>2 DEF TypeOK, Live
    <3>5. Starts
      BY <1>a, <1>b, <2>1, <3>1, <3>2, <3>3, <3>4 DEF Starts, SameWork
    <3>6. QED
      BY <3>5 DEF WorkKinds
  <2>4. QED
    BY <2>2, <2>3
<1>9. ASSUME NEW objs \in SUBSET Objs, ExeSTOPLIST(objs) PROVE WorkKinds
  <2>1. PICK done \in SUBSET objs :
          /\ threads' = threads \ ThreadsOf(done)
          /\ info' = [t \in ThreadIds |-> IF t \in ThreadsOf(done) THEN NoThread ELSE info[t]]
    BY <1>9 DEF ExeSTOPLIST
  <2>2. \A t \in threads' : info'[t] = info[t]
    BY <2>1 DEF TypeOK
  <2>3. Stops
    BY <1>b, <1>9, <2>1, <2>2 DEF ExeSTOPLIST, Stops, SameWork, ev
  <2>4. QED
    BY <2>3 DEF WorkKinds
<1>10. QED
  BY <1>1, <1>2, <1>3, <1>4, <1>5, <1>6, <1>7, <1>8, <1>9 DEF Instruction, WorkKinds

LEMMA SwitchKind ==
  ASSUME TypeOK, session = "running", NEW thr \in SUBSET threads, NEW inf \in InfoType,
         SwappedOut(thr, inf), SelAndRunThread(thr, inf)
  PROVE  Switches
<1>0. thr \in SUBSET ThreadIds /\ stkm \in Evaluators
  BY DEF TypeOK
<1>1. /\ threads' = thr /\ hist' = hist
      /\ \/ Deadlocks(inf)
         \/ \E n \in Candidates(thr, inf, hist, ivar) : Runs(inf, n)
  BY <1>0, SelAndRunThreadCases
<1>2. \/ threads' = threads
      \/ threads' = threads \ {curthread} /\ stkm.phase = "end" /\ curthread # DebugThread
  BY <1>1 DEF SwappedOut
<1>3. \A t \in thr : SameWork(inf[t].stackeval, EvaluatorOf(t))
  <2>1. \A t \in thr \ {curthread} : inf[t] = info[t]
    BY DEF SwappedOut
  <2>2. curthread \in thr => SameWork(inf[curthread].stackeval, stkm)
    BY <1>0, WorkFields DEF SwappedOut
  <2>3. QED
    BY <2>1, <2>2 DEF EvaluatorOf, SameWork
<1>4. CASE Deadlocks(inf)
  <2>1. curthread' = curthread /\ session' = "deadlock" /\ info' = inf /\ stkm' = stkm
    BY <1>4 DEF Deadlocks
  <2>2. \A t \in thr : SameWork(EvaluatorOf(t)', EvaluatorOf(t))
    BY <1>3, <2>1 DEF EvaluatorOf, SameWork
  <2>3. SameWork(stkm', stkm)
    BY <2>1 DEF SameWork
  <2>4. QED
    BY <1>1, <1>2, <2>1, <2>2, <2>3 DEF Switches
<1>5. ASSUME NEW n \in Candidates(thr, inf, hist, ivar), Runs(inf, n)
      PROVE  Switches
  <2>1. n \in thr /\ curthread' = n /\ session' = "running"
    BY <1>5 DEF Candidates, Runs
  <2>2. inf[n].stackeval \in Evaluators
    BY <1>0, <2>1 DEF InfoType, ThreadInfos
  <2>3. SameWork(stkm', inf[n].stackeval)
    BY <1>5, <2>2, WorkFields DEF Runs
  <2>4. \A t \in thr : info'[t].stackeval = inf[t].stackeval
    BY <1>0, <1>5, RunsInfo
  <2>5. \A t \in thr : SameWork(EvaluatorOf(t)', EvaluatorOf(t))
    BY <1>3, <2>1, <2>3, <2>4 DEF EvaluatorOf, SameWork
  <2>6. curthread' = curthread => SameWork(stkm', stkm)
    BY <2>1, <2>5 DEF EvaluatorOf
  <2>7. QED
    BY <1>1, <1>2, <2>1, <2>5, <2>6 DEF Switches
<1>6. QED
  BY <1>1, <1>4, <1>5

LEMMA SchedulerKinds ==
  ASSUME TypeOK, Scheduler
  PROVE  WorkKinds
<1>0. session = "running" /\ stkm \in Evaluators /\ info \in InfoType
  BY DEF Scheduler, HandleGuard, HandleEndOfSlice, HandleDebugSuccess, HandleThreadSuccess, TypeOK,
         InfoType
<1>1. CASE KeepsMachine
  <2>0. UNCHANGED <<threads, curthread, hist>>
    BY <1>1 DEF KeepsMachine
  <2>1. CASE Proceeds
    <3>1. SameWork(stkm', stkm) /\ UNCHANGED <<info, session>>
      BY <1>0, <2>1, WorkFields DEF Proceeds
    <3>2. Goes
      BY <2>0, <3>1 DEF Goes, Moves, SameWork
    <3>3. QED
      BY <3>2 DEF WorkKinds
  <2>2. CASE Answers
    <3>1. PopFrame(stkm) \in Evaluators /\ stkm.callee = NoCall
      BY <1>0, <2>2, EvaluatorType, WorkFields DEF Answers
    <3>2. /\ stkm'.calls = Popped(stkm.calls)
          /\ stkm'.callee = Top(stkm).callee /\ stkm'.phase = Top(stkm).phase
      <4>1. stkm' = [PopFrame(stkm) EXCEPT !.phase = Top(stkm).phase, !.callee = Top(stkm).callee]
        BY <2>2 DEF Answers
      <4>2. QED
        BY <1>0, <3>1, <4>1, WorkFields DEF Evaluators
    <3>3. \A t \in ThreadIds \ {curthread} : info'[t].stackeval = info[t].stackeval
      BY <1>0, <2>2 DEF Answers, InfoType
    <3>4. Pops
      BY <1>0, <2>0, <2>2, <3>1, <3>2, <3>3 DEF Answers, Pops, Moves
    <3>5. QED
      BY <3>4 DEF WorkKinds
  <2>3. CASE Fails
    <3>1. GivesUp
      BY <1>0, <2>0, <2>3 DEF Fails, GivesUp, Moves
    <3>2. QED
      BY <3>1 DEF WorkKinds
  <2>4. QED
    BY <1>1, <2>1, <2>2, <2>3 DEF KeepsMachine
<1>2. ASSUME NEW thr \in SUBSET threads, NEW inf \in InfoType,
             SwappedOut(thr, inf), SelAndRunThread(thr, inf)
      PROVE  WorkKinds
  <2>1. Switches
    BY <1>0, <1>2, SwitchKind
  <2>2. QED
    BY <2>1 DEF WorkKinds
<1>3. QED
  BY <1>1, <1>2, SchedulerSteps

LEMMA UserKinds ==
  ASSUME TypeOK, User
  PROVE  WorkKinds
<1> USE DEF schdVars, prioVars
<1>0. stkm \in Evaluators /\ info \in InfoType
  BY DEF TypeOK, InfoType
<1>1. CASE UserPrint
  <2>1. stkm' = [stkm EXCEPT !.phase = "body", !.callee = NoCall, !.instrno = 0,
                    !.calls = Append(@, [call |-> NoCall, phase |-> stkm.phase,
                                         callee |-> stkm.callee])]
    BY <1>1 DEF UserPrint
  <2>2. /\ stkm'.calls = Append(stkm.calls, [call |-> NoCall, phase |-> stkm.phase,
                                            callee |-> stkm.callee])
        /\ stkm'.callee = NoCall /\ stkm'.phase = "body"
    BY <1>0, <2>1 DEF Evaluators
  <2>3. Pushes
    BY <1>1, <2>2 DEF UserPrint, Pushes, Moves
  <2>4. QED
    BY <2>3 DEF WorkKinds
<1>2. CASE UserContinue
  <2>1. SameWork(stkm', stkm)
    BY <1>0, <1>2, WorkFields DEF UserContinue
  <2>2. Goes
    BY <1>2, <2>1 DEF UserContinue, AtPrompt, Goes, Moves, SameWork
  <2>3. QED
    BY <2>2 DEF WorkKinds
<1>3. ASSUME NEW t \in ThreadIds, UserSelThread(t) PROVE WorkKinds
  <2>1. CASE curthread \in threads
    <3> DEFINE inf == SwapOutCurrent("Sleeping", NoCall, stkm)
    <3>1. /\ info' = [inf EXCEPT ![t] = [@ EXCEPT !.status = "Running", !.on = NoCall]]
          /\ stkm' = inf[t].stackeval /\ curthread' = t /\ t \in threads
          /\ threads' = threads /\ hist' = hist /\ "selthread" \in UserCmds
      BY <1>3, <2>1 DEF UserSelThread
    <3>2. inf \in InfoType
      BY <1>0, SwapOutCurrentType DEF Statuses
    <3>3. \A u \in threads : inf[u].stackeval = EvaluatorOf(u)
      BY <1>0, <2>1 DEF SwapOutCurrent, EvaluatorOf, TypeOK, InfoType, ThreadInfos
    <3> HIDE DEF inf
    <3>4. inf[t] \in ThreadInfos
      BY <3>2 DEF InfoType
    <3>5. [inf[t] EXCEPT !.status = "Running", !.on = NoCall].stackeval = inf[t].stackeval
      BY <3>4 DEF ThreadInfos
    <3>6. \A u \in ThreadIds : info'[u].stackeval = inf[u].stackeval
      BY <3>1, <3>2, <3>5 DEF InfoType
    <3>7. \A u \in threads : SameWork(EvaluatorOf(u)', EvaluatorOf(u))
      BY <3>1, <3>3, <3>6 DEF EvaluatorOf, SameWork, TypeOK
    <3>8. Selects
      BY <2>1, <3>1, <3>7 DEF Selects
    <3>9. QED
      BY <3>8 DEF WorkKinds
  <2>2. CASE curthread \notin threads
    <3>1. Goes
      BY <1>3, <2>2 DEF UserSelThread, Goes, Moves
    <3>2. QED
      BY <3>1 DEF WorkKinds
  <2>3. QED
    BY <2>1, <2>2
<1>4. ASSUME NEW pm \in Priorities, UserPriorityFile(pm) PROVE WorkKinds
  <2>1. \A t \in ThreadIds : info'[t].stackeval = info[t].stackeval
    BY <1>0, <1>4 DEF UserPriorityFile, InfoType, ThreadInfos
  <2>2. Goes
    BY <1>4, <2>1 DEF UserPriorityFile, Goes, Moves
  <2>3. QED
    BY <2>2 DEF WorkKinds
<1>5. CASE UserInit
  <2>1. Resets
    BY <1>5 DEF UserInit, InitState, Resets, Fresh, InitEvaluatorStatus, NoHistory
  <2>2. QED
    BY <2>1 DEF WorkKinds
<1>6. QED
  BY <1>1, <1>2, <1>3, <1>4, <1>5 DEF User

LEMMA StepKinds ==
  ASSUME TypeOK, IdsHandedOut, [Next]_vars
  PROVE  WorkKinds
<1>1. CASE UNCHANGED vars
  <2>1. Goes
    BY <1>1 DEF vars, Goes, Moves
  <2>2. QED
    BY <2>1 DEF WorkKinds
<1>2. QED
  BY <1>1, InstructionKinds, SchedulerKinds, UserKinds DEF Next

-----------------------------------------------------------------------------
(* Without stop statements, and without commands given while another one is  *)
(* interrupted, the scheduler never loses a thread or an evaluation result.  *)

Undisturbed ==
  /\ "stop" \notin Stmts
  /\ "print" \notin UserCmds
  /\ "selthread" \notin UserCmds

\* A thread's call stack holds operations, and it is empty at the thread's end.
ThreadCode(ev) ==
  /\ \A i \in 1 .. Len(ev.calls) : ev.calls[i].call # NoCall /\ ev.calls[i].callee = NoCall
  /\ ev.phase = "end" => ev.calls = <<>>

\* The debug thread's holds one command, with the operations it has called on top.
CommandCode(ev) ==
  /\ ev.calls # <<>>
  /\ ev.calls[1].call = NoCall /\ ev.calls[1].phase = "end"
  /\ \A i \in 1 .. Len(ev.calls) : ev.calls[i].callee = NoCall
  /\ \A i \in 2 .. Len(ev.calls) : ev.calls[i].call # NoCall
  /\ ev.phase = "end" => Len(ev.calls) = 1

NoCommand(ev) == ev.calls = <<>> /\ ev.phase = "end"

Evaluates == session \notin {"deadlock", "rterror", "interror"}

CommandInv ==
  /\ session # "interror"
  /\ Evaluates =>
       /\ DebugThread \in threads /\ curthread \in threads
       /\ \A t \in threads \ {DebugThread} : ThreadCode(EvaluatorOf(t))
       /\ IF session = "idle" THEN curthread = DebugThread /\ NoCommand(stkm)
                              ELSE CommandCode(EvaluatorOf(DebugThread))

LEMMA PoppedCalls ==
  ASSUME NEW calls \in Seq(Frames), calls # <<>>
  PROVE  /\ Len(calls) \in Nat \ {0}
         /\ Popped(calls) \in Seq(Frames)
         /\ Len(Popped(calls)) = Len(calls) - 1
         /\ \A i \in 1 .. Len(calls) - 1 : Popped(calls)[i] = calls[i]
<1>1. Len(calls) \in Nat \ {0}
  BY EmptySeq, LenProperties
<1>2. \A i \in 1 .. Len(calls) : calls[i] \in Frames
  BY ElementOfSeq
<1>3. \A i \in 1 .. Len(calls) - 1 : calls[i] \in Frames
  BY <1>1, <1>2
<1> DEFINE n == Len(calls) - 1
           p == SubSeq(calls, 1, n)
<1>4. n \in Int /\ \A i \in 1 .. n : calls[i] \in Frames
  BY <1>1, <1>3
<1> HIDE DEF n
<1>5. /\ p \in Seq(Frames)
      /\ Len(p) = IF 1 <= n THEN n - 1 + 1 ELSE 0
      /\ \A i \in 1 .. n - 1 + 1 : p[i] = calls[1 + i - 1]
  BY <1>4, SubSeqProperties
<1> HIDE DEF p
<1>6. \A i \in 1 .. n : i \in 1 .. n - 1 + 1 /\ 1 + i - 1 = i
  BY <1>4
<1>7. \A i \in 1 .. n : p[i] = calls[i]
  BY <1>5, <1>6
<1>8. n \in Nat /\ Len(p) = n
  <2>1. n \in Nat
    BY <1>1 DEF n
  <2>2. Len(p) = IF 1 <= n THEN n - 1 + 1 ELSE 0
    BY <1>5
  <2>3. QED
    BY <2>1, <2>2
<1>9. Popped(calls) = p
  BY DEF Popped, p, n
<1>10. QED
  BY <1>1, <1>5, <1>7, <1>8, <1>9 DEF n

LEMMA PushedCalls ==
  ASSUME NEW calls \in Seq(Frames), NEW f \in Frames
  PROVE  /\ Len(calls) \in Nat
         /\ Append(calls, f) # <<>>
         /\ Len(Append(calls, f)) = Len(calls) + 1
         /\ Append(calls, f)[Len(calls) + 1] = f
         /\ \A i \in 1 .. Len(calls) : Append(calls, f)[i] = calls[i]
<1>1. Len(calls) \in Nat
  BY LenProperties
<1>2. Len(Append(calls, f)) = Len(calls) + 1 /\ Len(Append(calls, f)) # 0
  BY <1>1, AppendProperties
<1>3. QED
  BY <1>1, <1>2, AppendProperties, EmptySeq

LEMMA PushCode ==
  ASSUME NEW ev, NEW g, NEW f \in Frames, ev.calls \in Seq(Frames),
         f.call # NoCall, f.callee = NoCall, g.calls = Append(ev.calls, f), g.phase = "body"
  PROVE  /\ ThreadCode(ev) => ThreadCode(g)
         /\ CommandCode(ev) => CommandCode(g)
<1>1. /\ Len(ev.calls) \in Nat /\ g.calls # <<>> /\ Len(g.calls) = Len(ev.calls) + 1
      /\ g.calls[Len(ev.calls) + 1] = f
      /\ \A i \in 1 .. Len(ev.calls) : g.calls[i] = ev.calls[i]
  BY PushedCalls
<1>2. ThreadCode(ev) => ThreadCode(g)
  BY <1>1 DEF ThreadCode
<1>3. ASSUME CommandCode(ev) PROVE CommandCode(g)
  <2>1. Len(ev.calls) # 0
    BY <1>3, EmptySeq DEF CommandCode
  <2>2. g.calls[1] = ev.calls[1]
    BY <1>1, <2>1
  <2>3. QED
    BY <1>1, <1>3, <2>1, <2>2 DEF CommandCode
<1>4. QED
  BY <1>2, <1>3

LEMMA PopCode ==
  ASSUME NEW ev, NEW g, ev.calls \in Seq(Frames), ev.calls # <<>>,
         ev.calls[Len(ev.calls)].call # NoCall, g.calls = Popped(ev.calls), g.phase = "body"
  PROVE  /\ ThreadCode(ev) => ThreadCode(g)
         /\ CommandCode(ev) => CommandCode(g)
<1>1. /\ Len(ev.calls) \in Nat \ {0} /\ Len(g.calls) = Len(ev.calls) - 1
      /\ \A i \in 1 .. Len(ev.calls) - 1 : g.calls[i] = ev.calls[i]
  BY PoppedCalls
<1>2. ThreadCode(ev) => ThreadCode(g)
  BY <1>1 DEF ThreadCode
<1>3. ASSUME CommandCode(ev) PROVE CommandCode(g)
  <2>1. Len(ev.calls) # 1 /\ 1 \in 1 .. Len(ev.calls) - 1
    BY <1>1, <1>3 DEF CommandCode
  <2>2. Len(g.calls) # 0 /\ g.calls[1] = ev.calls[1]
    BY <1>1, <2>1
  <2>3. g.calls # <<>>
    BY <2>2, EmptySeq
  <2>4. QED
    BY <1>1, <1>3, <2>2, <2>3 DEF CommandCode
<1>4. QED
  BY <1>2, <1>3

LEMMA SameCode ==
  ASSUME NEW ev, NEW g, g.calls = ev.calls, g.phase = "end" => ev.phase = "end"
  PROVE  /\ ThreadCode(ev) => ThreadCode(g)
         /\ CommandCode(ev) => CommandCode(g)
BY DEF ThreadCode, CommandCode

\* The current thread's evaluator changes, and stays what it was: a thread's or
\* the debug thread's with a command.
LEMMA CodeMoves ==
  ASSUME TypeOK, CommandInv, Evaluates, session # "idle", session' \in {"running", "break"},
         NEW calls, NEW callee, NEW phase, Moves(calls, callee, phase),
         ThreadCode(stkm) => ThreadCode(stkm'),
         CommandCode(stkm) => CommandCode(stkm')
  PROVE  CommandInv'
<1>1. /\ UNCHANGED <<threads, curthread>> /\ threads \subseteq ThreadIds
      /\ \A t \in ThreadIds \ {curthread} : info'[t].stackeval = info[t].stackeval
  BY DEF Moves, TypeOK
<1>2. \A t \in threads \ {curthread} : EvaluatorOf(t)' = EvaluatorOf(t)
  BY <1>1 DEF EvaluatorOf
<1>3. EvaluatorOf(curthread) = stkm /\ \A t \in {curthread} : EvaluatorOf(t)' = stkm'
  BY <1>1 DEF EvaluatorOf
<1>4. /\ DebugThread \in threads /\ curthread \in threads
      /\ \A t \in threads \ {DebugThread} : ThreadCode(EvaluatorOf(t))
      /\ CommandCode(EvaluatorOf(DebugThread))
  BY DEF CommandInv
<1>5. \A t \in threads \ {DebugThread} : ThreadCode(EvaluatorOf(t)')
  BY <1>2, <1>3, <1>4
<1>6. CommandCode(EvaluatorOf(DebugThread)')
  BY <1>2, <1>3, <1>4
<1>7. \A t \in threads' \ {DebugThread} : ThreadCode(EvaluatorOf(t))'
  BY <1>1, <1>5 DEF ThreadCode
<1>8. CommandCode(EvaluatorOf(DebugThread))'
  BY <1>6 DEF CommandCode
<1>9. QED
  BY <1>1, <1>4, <1>7, <1>8 DEF CommandInv, Evaluates

LEMMA CallingStep ==
  ASSUME TypeOK, CommandInv, NEW c \in Calls, NEW d \in Calls,
         \/ Requests(c) \/ Activates(c) \/ Completes(c) \/ CompletesTwo(c, d)
  PROVE  CommandInv'
<1>0. /\ session = "running" /\ session' = "running" /\ Evaluates /\ session # "idle"
      /\ c # NoCall /\ d # NoCall /\ stkm.calls \in Seq(Frames) /\ stkm \in Evaluators
  BY SchdAssumption, EvaluatorType
     DEF Requests, Activates, Completes, CompletesTwo, Evaluates, TypeOK
<1>1. CASE Requests(c)
  <2>1. /\ Moves(stkm.calls, c, stkm'.phase) /\ stkm'.calls = stkm.calls /\ stkm'.phase # "end"
    BY <1>1 DEF Requests, Moves
  <2>2. QED
    BY <1>0, <2>1, SameCode, CodeMoves
<1>2. CASE Activates(c)
  <2> DEFINE f == [call |-> c, phase |-> "body", callee |-> NoCall]
  <2>1. f \in Frames /\ f.call = c /\ f.callee = NoCall
    BY DEF Frames, PhaseMatchesCallee, Phases
  <2>2. Moves(Append(stkm.calls, f), NoCall, "body")
    BY <1>2 DEF Activates
  <2> HIDE DEF f
  <2>3. stkm'.calls = Append(stkm.calls, f) /\ stkm'.phase = "body"
    BY <2>2 DEF Moves
  <2>4. QED
    BY <1>0, <2>1, <2>2, <2>3, PushCode, CodeMoves
<1>3. CASE Completes(c)
  <2>1. /\ Moves(Popped(stkm.calls), NoCall, "body") /\ stkm.calls # <<>>
        /\ stkm.calls[Len(stkm.calls)].call = c
        /\ stkm'.calls = Popped(stkm.calls) /\ stkm'.phase = "body"
    BY <1>3 DEF Completes, Moves, Top
  <2>2. QED
    BY <1>0, <2>1, PopCode, CodeMoves
<1>4. CASE CompletesTwo(c, d)
  <2> DEFINE ev == PopFrame(stkm)
  <2>1. /\ Moves(Popped(Popped(stkm.calls)), NoCall, "body") /\ stkm.calls # <<>>
        /\ stkm.calls[Len(stkm.calls)].call = c
        /\ stkm'.calls = Popped(Popped(stkm.calls)) /\ stkm'.phase = "body"
        /\ Popped(stkm.calls) # <<>> /\ ev.calls[Len(ev.calls)].call = d /\ stkm.phase = "body"
    BY <1>4 DEF CompletesTwo, Moves, Top
  <2>2. ev.calls = Popped(stkm.calls) /\ ev.phase = "body"
    BY <1>0, <2>1, WorkFields
  <2> HIDE DEF ev
  <2>3. /\ ThreadCode(stkm) => ThreadCode(ev)
        /\ CommandCode(stkm) => CommandCode(ev)
    BY <1>0, <2>1, <2>2, PopCode
  <2>4. ev.calls \in Seq(Frames)
    BY <1>0, <2>1, <2>2, PoppedCalls
  <2>5. /\ ThreadCode(ev) => ThreadCode(stkm')
        /\ CommandCode(ev) => CommandCode(stkm')
    BY <1>0, <2>1, <2>2, <2>4, PopCode
  <2>6. QED
    BY <1>0, <2>1, <2>3, <2>5, CodeMoves
<1>5. QED
  BY <1>1, <1>2, <1>3, <1>4

LEMMA EndsStep ==
  ASSUME TypeOK, CommandInv, Ends
  PROVE  CommandInv'
<1>0. /\ session = "running" /\ session' = "running" /\ Evaluates /\ session # "idle"
      /\ stkm.calls \in Seq(Frames)
  BY EvaluatorType DEF Ends, Evaluates, TypeOK
<1>1. /\ Moves(stkm.calls, NoCall, "end") /\ stkm'.calls = stkm.calls
      /\ stkm.calls = <<>> \/ stkm.calls[Len(stkm.calls)].call = NoCall
  BY DEF Ends, Moves, TopIsOp, Top
<1>2. stkm.calls # <<>> => Len(stkm.calls) \in Nat \ {0}
  BY <1>0, PoppedCalls
<1>3. ThreadCode(stkm) => ThreadCode(stkm')
  <2>1. stkm.calls # <<>> => Len(stkm.calls) \in 1 .. Len(stkm.calls)
    BY <1>2
  <2>2. QED
    BY <1>1, <2>1 DEF ThreadCode
<1>4. CommandCode(stkm) => CommandCode(stkm')
  <2>1. \A n \in Nat \ {0} : n # 1 => n \in 2 .. n
    OBVIOUS
  <2>2. stkm.calls # <<>> /\ Len(stkm.calls) # 1 => Len(stkm.calls) \in 2 .. Len(stkm.calls)
    BY <1>2, <2>1
  <2>3. QED
    BY <1>1, <2>2 DEF CommandCode
<1>5. QED
  BY <1>0, <1>1, <1>3, <1>4, CodeMoves

LEMMA GoesStep ==
  ASSUME TypeOK, TypeOK', CommandInv, Goes
  PROVE  CommandInv'
<1>0. /\ UNCHANGED <<threads, curthread>> /\ stkm'.calls = stkm.calls /\ stkm'.callee = stkm.callee
      /\ Moves(stkm.calls, stkm.callee, stkm'.phase)
      /\ stkm'.phase = "end" => stkm.phase = "end"
  BY DEF Goes, Moves
<1>1. CASE session' = "rterror"
  BY <1>1 DEF CommandInv, Evaluates
<1>2. CASE ~Evaluates /\ session' # "rterror"
  BY <1>2 DEF CommandInv, Evaluates, Goes
<1>3. CASE session = "idle" /\ session' # "rterror"
  <2>1. NoCommand(stkm) /\ curthread = DebugThread
    BY <1>3 DEF CommandInv, Evaluates
  <2>2. session' = "idle"
    BY <1>3, <2>1 DEF Goes, NoCommand
  <2>3. stkm'.phase = "end"
    <3>1. stkm.callee = NoCall
      BY <2>1, WorkFields DEF TypeOK, NoCommand
    <3>2. stkm'.phase # "apply"
      BY <1>0, <3>1, WorkFields, SchdAssumption DEF TypeOK
    <3>3. QED
      BY <2>1, <3>2 DEF Goes, NoCommand
  <2>4. DebugThread \in threads /\ curthread \in threads
        /\ \A t \in threads \ {DebugThread} : ThreadCode(EvaluatorOf(t))
    BY <1>3 DEF CommandInv, Evaluates
  <2>5. \A t \in threads \ {DebugThread} : EvaluatorOf(t)' = EvaluatorOf(t)
    BY <1>0, <2>1 DEF EvaluatorOf, Moves, TypeOK
  <2>6. \A t \in threads' \ {DebugThread} : ThreadCode(EvaluatorOf(t))'
    BY <1>0, <2>4, <2>5 DEF ThreadCode
  <2>7. QED
    BY <1>0, <2>1, <2>2, <2>3, <2>4, <2>6 DEF CommandInv, Evaluates, NoCommand
<1>4. CASE Evaluates /\ session # "idle" /\ session' # "rterror"
  <2>1. session' \in {"running", "break"}
    BY <1>4 DEF Goes, TypeOK, Sessions, Evaluates
  <2>2. QED
    BY <1>0, <1>4, <2>1, SameCode, CodeMoves
<1>5. QED
  BY <1>1, <1>2, <1>3, <1>4

LEMMA StartsStep ==
  ASSUME TypeOK, CommandInv, Starts
  PROVE  CommandInv'
<1>1. /\ Evaluates /\ session # "idle" /\ session' = "running"
      /\ threads' = threads \cup {next_thread_id} /\ curthread' = curthread
      /\ next_thread_id # DebugThread /\ next_thread_id # curthread /\ next_thread_id \notin threads
      /\ Fresh(info'[next_thread_id].stackeval, "body")
      /\ \A t \in threads : info'[t].stackeval = info[t].stackeval
      /\ SameWork(stkm', stkm)
  BY DEF Starts, Evaluates, Live
<1>2. /\ DebugThread \in threads /\ curthread \in threads
      /\ \A t \in threads \ {DebugThread} : ThreadCode(EvaluatorOf(t))
      /\ CommandCode(EvaluatorOf(DebugThread))
  BY <1>1 DEF CommandInv
<1>3. \A t \in threads : SameWork(EvaluatorOf(t)', EvaluatorOf(t))
  BY <1>1 DEF EvaluatorOf, SameWork
<1>4. \A t \in threads \ {DebugThread} : ThreadCode(EvaluatorOf(t)')
  BY <1>2, <1>3, SameCode DEF SameWork
<1>5. \A t \in {next_thread_id} : ThreadCode(EvaluatorOf(t)')
  <2>1. \A t \in {next_thread_id} : EvaluatorOf(t)' = info'[t].stackeval
    BY <1>1 DEF EvaluatorOf
  <2>2. <<>> = info'[next_thread_id].stackeval.calls /\ Len(<<>>) = 0
    BY <1>1, EmptySeq DEF Fresh
  <2>3. QED
    BY <1>1, <2>1, <2>2 DEF Fresh, ThreadCode
<1>6. \A t \in threads' \ {DebugThread} : ThreadCode(EvaluatorOf(t))'
  BY <1>1, <1>4, <1>5 DEF ThreadCode
<1>7. CommandCode(EvaluatorOf(DebugThread))'
  BY <1>2, <1>3, SameCode DEF SameWork
<1>8. QED
  BY <1>1, <1>2, <1>6, <1>7 DEF CommandInv, Evaluates

LEMMA SwitchesStep ==
  ASSUME TypeOK, CommandInv, Switches
  PROVE  CommandInv'
<1>1. CASE session' = "deadlock"
  BY <1>1 DEF CommandInv, Evaluates
<1>2. CASE session' # "deadlock"
  <2>1. /\ Evaluates /\ session # "idle" /\ session' = "running"
        /\ threads' \subseteq threads /\ curthread' \in threads'
        /\ DebugThread \in threads => DebugThread \in threads'
        /\ \A t \in threads' : SameWork(EvaluatorOf(t)', EvaluatorOf(t))
    BY <1>2 DEF Switches, Evaluates
  <2>2. /\ DebugThread \in threads
        /\ \A t \in threads \ {DebugThread} : ThreadCode(EvaluatorOf(t))
        /\ CommandCode(EvaluatorOf(DebugThread))
    BY <2>1 DEF CommandInv
  <2>3. \A t \in threads' \ {DebugThread} : ThreadCode(EvaluatorOf(t)')
    BY <2>1, <2>2, SameCode DEF SameWork
  <2>4. CommandCode(EvaluatorOf(DebugThread)')
    BY <2>1, <2>2, SameCode DEF SameWork
  <2>5. \A t \in threads' \ {DebugThread} : ThreadCode(EvaluatorOf(t))'
    BY <2>3 DEF ThreadCode
  <2>6. CommandCode(EvaluatorOf(DebugThread))'
    BY <2>4 DEF CommandCode
  <2>7. QED
    BY <2>1, <2>2, <2>5, <2>6 DEF CommandInv, Evaluates
<1>3. QED
  BY <1>1, <1>2

LEMMA PushesStep ==
  ASSUME Undisturbed, TypeOK, CommandInv, Pushes
  PROVE  CommandInv'
<1>1. session = "idle" /\ session' = "running" /\ Evaluates
  BY DEF Pushes, Undisturbed, Evaluates
<1>2. /\ DebugThread \in threads /\ curthread = DebugThread
      /\ \A t \in threads \ {DebugThread} : ThreadCode(EvaluatorOf(t))
      /\ stkm.calls = <<>> /\ stkm.phase = "end"
  BY <1>1 DEF CommandInv, NoCommand
<1>3. stkm.callee = NoCall
  BY <1>2, WorkFields DEF TypeOK
<1> DEFINE f == [call |-> NoCall, phase |-> "end", callee |-> NoCall]
<1>4. f \in Frames /\ f.call = NoCall /\ f.phase = "end" /\ f.callee = NoCall
  BY DEF Frames, PhaseMatchesCallee, Phases
<1>5. Moves(Append(<<>>, f), NoCall, "body")
  BY <1>2, <1>3 DEF Pushes
<1> HIDE DEF f
<1>6. /\ Append(<<>>, f) # <<>> /\ Len(Append(<<>>, f)) = 1 /\ Append(<<>>, f)[1] = f
  <2>1. <<>> \in Seq(Frames) /\ Len(<<>>) = 0
    BY EmptySeq
  <2>2. QED
    BY <1>4, <2>1, PushedCalls
<1>7. stkm'.calls = Append(<<>>, f) /\ stkm'.phase = "body"
  BY <1>5 DEF Moves
<1>8. CommandCode(stkm')
  BY <1>4, <1>6, <1>7 DEF CommandCode
<1>9. /\ UNCHANGED <<threads, curthread>>
      /\ \A t \in threads \ {DebugThread} : EvaluatorOf(t)' = EvaluatorOf(t)
  BY <1>2, <1>5 DEF EvaluatorOf, Moves, TypeOK
<1>10. \A t \in threads' \ {DebugThread} : ThreadCode(EvaluatorOf(t))'
  BY <1>2, <1>9 DEF ThreadCode
<1>11. CommandCode(EvaluatorOf(DebugThread))'
  BY <1>2, <1>8, <1>9 DEF EvaluatorOf
<1>12. QED
  BY <1>1, <1>2, <1>9, <1>10, <1>11 DEF CommandInv, Evaluates

LEMMA PopsStep ==
  ASSUME TypeOK, CommandInv, Pops
  PROVE  CommandInv'
<1>1. /\ session = "running" /\ session' = "idle" /\ Evaluates /\ curthread = DebugThread
      /\ stkm.phase = "end" /\ stkm.calls # <<>> /\ stkm.calls \in Seq(Frames)
      /\ Moves(Popped(stkm.calls), Top(stkm).callee, Top(stkm).phase)
  BY EvaluatorType DEF Pops, Evaluates, TypeOK
<1>2. /\ DebugThread \in threads
      /\ \A t \in threads \ {DebugThread} : ThreadCode(EvaluatorOf(t))
      /\ CommandCode(stkm)
  BY <1>1 DEF CommandInv, EvaluatorOf
<1>3. Len(stkm.calls) = 1 /\ Top(stkm).phase = "end"
  BY <1>1, <1>2 DEF CommandCode, Top
<1>4. Popped(stkm.calls) = <<>>
  <2>1. Len(Popped(stkm.calls)) = 0 /\ Popped(stkm.calls) \in Seq(Frames)
    BY <1>1, <1>3, PoppedCalls
  <2>2. QED
    BY <2>1, EmptySeq
<1>5. NoCommand(stkm')
  BY <1>1, <1>3, <1>4 DEF Moves, NoCommand
<1>6. /\ UNCHANGED <<threads, curthread>>
      /\ \A t \in threads \ {DebugThread} : EvaluatorOf(t)' = EvaluatorOf(t)
  BY <1>1 DEF EvaluatorOf, Moves, TypeOK
<1>7. \A t \in threads' \ {DebugThread} : ThreadCode(EvaluatorOf(t))'
  BY <1>2, <1>6 DEF ThreadCode
<1>8. QED
  BY <1>1, <1>2, <1>5, <1>6, <1>7 DEF CommandInv, Evaluates

LEMMA CommandStep ==
  ASSUME Undisturbed, TypeOK, IdsHandedOut, CommandInv, [Next]_vars
  PROVE  CommandInv'
<1>0. TypeOK' /\ WorkKinds
  BY NextTypeOK, StepKinds
<1>1. CASE Resets
  BY <1>1 DEF Resets, Fresh, NoCommand, CommandInv, Evaluates
<1>2. ~Stops /\ ~Selects
  BY DEF Undisturbed, Stops, Selects
<1>3. ~GivesUp
  <2> SUFFICES ASSUME GivesUp PROVE FALSE
    OBVIOUS
  <2>1. Evaluates /\ session # "idle"
    BY DEF GivesUp, Evaluates
  <2>2. QED
    BY <2>1 DEF GivesUp, CommandInv, EvaluatorOf, CommandCode
<1>4. ASSUME NEW c \in Calls, Requests(c) \/ Activates(c) \/ Completes(c)
      PROVE  CommandInv'
  BY <1>4, CallingStep
<1>5. ASSUME NEW c \in Calls, NEW d \in Calls, CompletesTwo(c, d)
      PROVE  CommandInv'
  BY <1>5, CallingStep
<1>6. CASE Ends
  BY <1>6, EndsStep
<1>7. CASE Goes
  BY <1>0, <1>7, GoesStep
<1>8. QED
  BY <1>0, <1>1, <1>2, <1>3, <1>4, <1>5, <1>6, <1>7, StartsStep, SwitchesStep, PushesStep, PopsStep
     DEF WorkKinds

\* The scheduler never operates on a thread its map has lost and EvalRun never
\* pops from an empty stack, for every program without stop statements whose
\* evaluation the user does not disturb with print or selthread.
THEOREM NoInternalErrors ==
  ASSUME Undisturbed
  PROVE  Spec => []NoInternalError
<1> DEFINE IInv == TypeOK /\ IdsHandedOut /\ OneRunningThread /\ CommandInv
<1>1. Init => IInv
  <2>1. Init => IdsHandedOut /\ OneRunningThread
    BY SchdAssumption
       DEF Init, InitState, ThreadInfo, IdsHandedOut, OneRunningThread, DebugThread, ThreadIds
  <2>2. Init => CommandInv
    BY DEF Init, InitState, CommandInv, NoCommand, InitEvaluatorStatus
  <2>3. QED
    BY <2>1, <2>2, InitTypeOK
<1>2. IInv /\ [Next]_vars => IInv'
  BY NextTypeOK, OneRunningStep, CommandStep
<1>3. IInv => NoInternalError
  BY DEF CommandInv, NoInternalError
<1>4. QED
  BY <1>1, <1>2, <1>3, PTL DEF Spec

-----------------------------------------------------------------------------
(* Counting: the entries of a call stack, and the entries of all threads.    *)

Bit(b) == IF b THEN 1 ELSE 0

Marked(calls, F) == {i \in 1 .. MaxDepth : i <= Len(calls) /\ calls[i] \in F}

LEMMA MarkedSize ==
  ASSUME NEW calls, NEW F
  PROVE  IsFiniteSet(Marked(calls, F)) /\ Cardinality(Marked(calls, F)) \in Nat
<1>1. IsFiniteSet(1 .. MaxDepth)
  BY SchdAssumption, FS_Interval
<1>2. Marked(calls, F) \in SUBSET (1 .. MaxDepth)
  BY DEF Marked
<1>3. QED
  BY <1>1, <1>2, FS_Subset, FS_CardinalityType

LEMMA MarkedPush ==
  ASSUME NEW calls \in Seq(Frames), NEW f \in Frames, Len(calls) < MaxDepth, NEW F
  PROVE  Cardinality(Marked(Append(calls, f), F)) = Cardinality(Marked(calls, F)) + Bit(f \in F)
<1> DEFINE n == Len(calls)
           pushed == Append(calls, f)
<1>1. /\ n \in Nat /\ Len(pushed) = n + 1 /\ pushed[n + 1] = f
      /\ \A i \in 1 .. n : pushed[i] = calls[i]
  BY PushedCalls
<1>2. MaxDepth \in Nat /\ n < MaxDepth
  BY SchdAssumption
<1> HIDE DEF n, pushed
<1>3. \A i \in 1 .. MaxDepth : i <= n + 1 <=> i \in 1 .. n \/ i = n + 1
  BY <1>1, <1>2
<1>4. \A i \in 1 .. MaxDepth : i <= n <=> i \in 1 .. n
  BY <1>1, <1>2
<1>5. n + 1 \in 1 .. MaxDepth /\ ~(n + 1 <= n)
  BY <1>1, <1>2
<1>6. CASE f \in F
  <2>1. Marked(pushed, F) = Marked(calls, F) \cup {n + 1}
    <3>1. \A i \in 1 .. MaxDepth : (i <= Len(pushed) /\ pushed[i] \in F) <=>
                                   ((i <= n /\ calls[i] \in F) \/ i = n + 1)
      BY <1>1, <1>3, <1>4, <1>6
    <3>2. QED
      BY <1>5, <3>1 DEF Marked, n
  <2>2. n + 1 \notin Marked(calls, F)
    BY <1>5 DEF Marked, n
  <2>3. QED
    BY <1>6, <2>1, <2>2, MarkedSize, FS_AddElement DEF Bit, pushed
<1>7. CASE f \notin F
  <2>1. \A i \in 1 .. MaxDepth : (i <= Len(pushed) /\ pushed[i] \in F) <=>
                                 (i <= n /\ calls[i] \in F)
    BY <1>1, <1>3, <1>4, <1>5, <1>7
  <2>2. Marked(pushed, F) = Marked(calls, F)
    BY <2>1 DEF Marked, n
  <2>3. QED
    BY <1>7, <2>2, MarkedSize DEF Bit, pushed
<1>8. QED
  BY <1>6, <1>7

LEMMA MarkedPop ==
  ASSUME NEW calls \in Seq(Frames), calls # <<>>, Len(calls) <= MaxDepth, NEW F
  PROVE  Cardinality(Marked(calls, F)) =
           Cardinality(Marked(Popped(calls), F)) + Bit(calls[Len(calls)] \in F)
<1> DEFINE n == Len(calls)
           p == Popped(calls)
<1>1. /\ n \in Nat \ {0} /\ Len(p) = n - 1
      /\ \A i \in 1 .. n - 1 : p[i] = calls[i]
  BY PoppedCalls
<1>2. MaxDepth \in Nat /\ n <= MaxDepth
  BY SchdAssumption
<1> HIDE DEF n, p
<1>3. \A i \in 1 .. MaxDepth : i <= n <=> i \in 1 .. n - 1 \/ i = n
  BY <1>1, <1>2
<1>4. \A i \in 1 .. MaxDepth : i <= n - 1 <=> i \in 1 .. n - 1
  BY <1>1, <1>2
<1>5. n \in 1 .. MaxDepth /\ ~(n <= n - 1)
  BY <1>1, <1>2
<1>6. CASE calls[n] \in F
  <2>1. Marked(calls, F) = Marked(p, F) \cup {n}
    <3>1. \A i \in 1 .. MaxDepth : (i <= n /\ calls[i] \in F) <=>
                                   ((i <= Len(p) /\ p[i] \in F) \/ i = n)
      BY <1>1, <1>3, <1>4, <1>6
    <3>2. QED
      BY <1>5, <3>1 DEF Marked, n
  <2>2. n \notin Marked(p, F)
    BY <1>1, <1>5 DEF Marked
  <2>3. QED
    BY <1>6, <2>1, <2>2, MarkedSize, FS_AddElement DEF Bit, n, p
<1>7. CASE calls[n] \notin F
  <2>1. \A i \in 1 .. MaxDepth : (i <= n /\ calls[i] \in F) <=>
                                 (i <= Len(p) /\ p[i] \in F)
    BY <1>1, <1>3, <1>4, <1>5, <1>7
  <2>2. Marked(calls, F) = Marked(p, F)
    BY <2>1 DEF Marked, n
  <2>3. QED
    BY <1>7, <2>2, MarkedSize DEF Bit, n, p
<1>8. QED
  BY <1>6, <1>7

Pairs(L, S) == UNION {{t} \X S[t] : t \in L}

LEMMA PairsSize ==
  ASSUME NEW L \in SUBSET ThreadIds, NEW S, \A t \in L : S[t] \subseteq 0 .. MaxDepth
  PROVE  IsFiniteSet(Pairs(L, S)) /\ Cardinality(Pairs(L, S)) \in Nat
<1>0. 0 \in Int /\ 1 \in Int /\ MaxDepth \in Int /\ MaxThreads \in Int
  BY SchdAssumption
<1>1. IsFiniteSet(ThreadIds) /\ IsFiniteSet(0 .. MaxDepth)
  BY <1>0, FS_Interval DEF ThreadIds
<1>2. IsFiniteSet(ThreadIds \X (0 .. MaxDepth))
  BY <1>1, FS_Product
<1>3. \A t \in L : {t} \X S[t] \subseteq ThreadIds \X (0 .. MaxDepth)
  OBVIOUS
<1>4. Pairs(L, S) \in SUBSET (ThreadIds \X (0 .. MaxDepth))
  BY <1>3 DEF Pairs
<1>5. QED
  BY <1>2, <1>4, FS_Subset, FS_CardinalityType

LEMMA PairsSplit ==
  ASSUME NEW L \in SUBSET ThreadIds, NEW S, \A t \in L : S[t] \subseteq 0 .. MaxDepth,
         NEW u \in L
  PROVE  Cardinality(Pairs(L, S)) = Cardinality(Pairs(L \ {u}, S)) + Cardinality(S[u])
<1> DEFINE A == Pairs(L \ {u}, S)
           B == {u} \X S[u]
<1>1. Pairs(L, S) = A \cup B
  BY DEF Pairs
<1>2. A \cap B = {}
  <2>1. \A t \in L \ {u} : ({t} \X S[t]) \cap B = {}
    OBVIOUS
  <2>2. QED
    BY <2>1 DEF Pairs
<1>3. IsFiniteSet(A) /\ Cardinality(A) \in Nat
  BY PairsSize
<1>4. IsFiniteSet(S[u])
  <2>1. 0 \in Int /\ MaxDepth \in Int
    BY SchdAssumption
  <2>2. IsFiniteSet(0 .. MaxDepth)
    BY <2>1, FS_Interval
  <2>3. QED
    BY <2>2, FS_Subset
<1>5. IsFiniteSet({u}) /\ Cardinality({u}) = 1
  BY FS_Singleton
<1>6. IsFiniteSet(B) /\ Cardinality(B) = Cardinality(S[u]) /\ Cardinality(S[u]) \in Nat
  BY <1>4, <1>5, FS_Product, FS_CardinalityType
<1> HIDE DEF A, B
<1>7. Cardinality(A \cup B) = Cardinality(A) + Cardinality(B)
  <2>1. Cardinality(A \cup B) = Cardinality(A) + Cardinality(B) - Cardinality({})
    BY <1>2, <1>3, <1>6, FS_Union
  <2>2. Cardinality({}) = 0
    BY FS_EmptySet
  <2>3. QED
    BY <1>3, <1>6, <2>1, <2>2
<1>8. QED
  BY <1>1, <1>6, <1>7 DEF A

LEMMA PairsSubset ==
  ASSUME NEW L, NEW K, NEW S, NEW T, \A t \in L : S[t] = {} \/ (t \in K /\ S[t] = T[t])
  PROVE  Pairs(L, S) \subseteq Pairs(K, T)
<1>1. \A t \in L : \A p \in {t} \X S[t] : t \in K /\ p \in {t} \X T[t]
  OBVIOUS
<1>2. QED
  BY <1>1 DEF Pairs

CallFrames(c) == {f \in Frames : f.call = c}
CalleeFrames(c) == {f \in Frames : f.callee = c}

\* The calls that a call stack has active, and the requests interrupted in it.
NumActive(calls, c) == Cardinality(Marked(calls, CallFrames(c)))
NumInterrupted(calls, c) == Cardinality(Marked(calls, CalleeFrames(c)))

LEMMA NumEmpty ==
  ASSUME NEW c
  PROVE  NumActive(<<>>, c) = 0 /\ NumInterrupted(<<>>, c) = 0
<1>1. Len(<<>>) = 0
  BY EmptySeq
<1>2. \A F : Marked(<<>>, F) = {}
  BY <1>1 DEF Marked
<1>3. QED
  BY <1>2, FS_EmptySet DEF NumActive, NumInterrupted

LEMMA NumPush ==
  ASSUME NEW calls \in Seq(Frames), NEW f \in Frames, Len(calls) < MaxDepth, NEW c
  PROVE  /\ NumActive(Append(calls, f), c) = NumActive(calls, c) + Bit(f.call = c)
         /\ NumInterrupted(Append(calls, f), c) = NumInterrupted(calls, c) + Bit(f.callee = c)
<1>1. f \in CallFrames(c) <=> f.call = c
  BY DEF CallFrames
<1>2. f \in CalleeFrames(c) <=> f.callee = c
  BY DEF CalleeFrames
<1>3. NumActive(Append(calls, f), c) = NumActive(calls, c) + Bit(f \in CallFrames(c))
  BY MarkedPush DEF NumActive
<1>4. NumInterrupted(Append(calls, f), c) = NumInterrupted(calls, c) + Bit(f \in CalleeFrames(c))
  BY MarkedPush DEF NumInterrupted
<1>5. QED
  BY <1>1, <1>2, <1>3, <1>4 DEF Bit

LEMMA NumPop ==
  ASSUME NEW calls \in Seq(Frames), calls # <<>>, Len(calls) <= MaxDepth, NEW c
  PROVE  LET f == calls[Len(calls)]
         IN  /\ NumActive(calls, c) = NumActive(Popped(calls), c) + Bit(f.call = c)
             /\ NumInterrupted(calls, c) = NumInterrupted(Popped(calls), c) + Bit(f.callee = c)
<1> DEFINE f == calls[Len(calls)]
<1>1. f \in Frames
  <2>1. Len(calls) \in 1 .. Len(calls)
    BY PoppedCalls
  <2>2. QED
    BY <2>1, ElementOfSeq
<1>2. f \in CallFrames(c) <=> f.call = c
  BY <1>1 DEF CallFrames
<1>3. f \in CalleeFrames(c) <=> f.callee = c
  BY <1>1 DEF CalleeFrames
<1>4. NumActive(calls, c) = NumActive(Popped(calls), c) + Bit(f \in CallFrames(c))
  BY MarkedPop DEF NumActive
<1>5. NumInterrupted(calls, c) = NumInterrupted(Popped(calls), c) + Bit(f \in CalleeFrames(c))
  BY MarkedPop DEF NumInterrupted
<1> HIDE DEF f
<1>6. /\ NumActive(calls, c) = NumActive(Popped(calls), c) + Bit(f.call = c)
      /\ NumInterrupted(calls, c) = NumInterrupted(Popped(calls), c) + Bit(f.callee = c)
  BY <1>2, <1>3, <1>4, <1>5 DEF Bit
<1>7. QED
  BY <1>6 DEF f

LEMMA InEvaluator ==
  ASSUME NEW ev \in Evaluators, NEW c
  PROVE  /\ ActiveIn(ev, c) \subseteq 0 .. MaxDepth
         /\ WaitingIn(ev, c) \subseteq 0 .. MaxDepth
         /\ Cardinality(ActiveIn(ev, c)) = NumActive(ev.calls, c)
         /\ Cardinality(WaitingIn(ev, c)) = NumInterrupted(ev.calls, c) + Bit(ev.callee = c)
         /\ NumActive(ev.calls, c) \in Nat /\ NumInterrupted(ev.calls, c) \in Nat
<1>1. MaxDepth \in Nat /\ 0 \in 0 .. MaxDepth /\ 0 \notin 1 .. MaxDepth
      /\ 1 .. MaxDepth \subseteq 0 .. MaxDepth
  BY SchdAssumption
<1>2. /\ \A i \in 1 .. Len(ev.calls) : ev.calls[i] \in Frames
      /\ Len(ev.calls) \in Nat
  BY EvaluatorType, ElementOfSeq, LenProperties
<1>3. \A i \in 1 .. MaxDepth : i <= Len(ev.calls) => ev.calls[i] \in Frames
  BY <1>2
<1>4. ActiveIn(ev, c) = Marked(ev.calls, CallFrames(c))
  BY <1>3 DEF ActiveIn, Marked, CallFrames
<1> DEFINE M == Marked(ev.calls, CalleeFrames(c))
<1>5. WaitingIn(ev, c) = M \cup (IF ev.callee = c THEN {0} ELSE {})
  BY <1>3 DEF WaitingIn, Marked, CalleeFrames
<1>6. M \subseteq 1 .. MaxDepth /\ Marked(ev.calls, CallFrames(c)) \subseteq 1 .. MaxDepth
  BY DEF Marked
<1>7. /\ NumActive(ev.calls, c) \in Nat /\ Cardinality(M) \in Nat /\ IsFiniteSet(M)
      /\ NumInterrupted(ev.calls, c) = Cardinality(M)
  BY MarkedSize DEF NumActive, NumInterrupted
<1> HIDE DEF M
<1>8. Cardinality(WaitingIn(ev, c)) = Cardinality(M) + Bit(ev.callee = c)
  <2>1. CASE ev.callee = c
    <3>1. WaitingIn(ev, c) = M \cup {0} /\ 0 \notin M
      BY <1>1, <1>5, <1>6, <2>1
    <3>2. QED
      BY <1>7, <2>1, <3>1, FS_AddElement DEF Bit
  <2>2. CASE ev.callee # c
    <3>1. WaitingIn(ev, c) = M
      BY <1>5, <2>2
    <3>2. QED
      BY <1>7, <2>2, <3>1 DEF Bit
  <2>3. QED
    BY <2>1, <2>2
<1>9. Cardinality(ActiveIn(ev, c)) = NumActive(ev.calls, c)
  BY <1>4 DEF NumActive
<1>10. ActiveIn(ev, c) \subseteq 0 .. MaxDepth /\ WaitingIn(ev, c) \subseteq 0 .. MaxDepth
  BY <1>1, <1>4, <1>5, <1>6
<1>11. QED
  BY <1>7, <1>8, <1>9, <1>10

\* The calls of c of the threads in L, when E gives each thread its evaluator.
ActivePairs(L, E, c) == Pairs(L, [t \in ThreadIds |-> ActiveIn(E[t], c)])
WaitingPairs(L, E, c) == Pairs(L, [t \in ThreadIds |-> WaitingIn(E[t], c)])

LEMMA PairsOfOne ==
  ASSUME NEW E \in [ThreadIds -> Evaluators], NEW L \in SUBSET ThreadIds, NEW u \in L, NEW c
  PROVE  /\ Cardinality(ActivePairs(L, E, c)) =
              Cardinality(ActivePairs(L \ {u}, E, c)) + NumActive(E[u].calls, c)
         /\ Cardinality(WaitingPairs(L, E, c)) =
              Cardinality(WaitingPairs(L \ {u}, E, c)) + NumInterrupted(E[u].calls, c)
                + Bit(E[u].callee = c)
         /\ NumActive(E[u].calls, c) \in Nat /\ NumInterrupted(E[u].calls, c) \in Nat
<1> DEFINE A == [t \in ThreadIds |-> ActiveIn(E[t], c)]
           W == [t \in ThreadIds |-> WaitingIn(E[t], c)]
<1>1. \A t \in ThreadIds : E[t] \in Evaluators
  OBVIOUS
<1>2. \A t \in L : A[t] \subseteq 0 .. MaxDepth /\ W[t] \subseteq 0 .. MaxDepth
  BY <1>1, InEvaluator
<1>3. u \in ThreadIds /\ A[u] = ActiveIn(E[u], c) /\ W[u] = WaitingIn(E[u], c)
  OBVIOUS
<1>4. /\ Cardinality(A[u]) = NumActive(E[u].calls, c)
      /\ Cardinality(W[u]) = NumInterrupted(E[u].calls, c) + Bit(E[u].callee = c)
      /\ NumActive(E[u].calls, c) \in Nat /\ NumInterrupted(E[u].calls, c) \in Nat
  BY <1>1, <1>3, InEvaluator
<1>5. ActivePairs(L, E, c) = Pairs(L, A) /\ ActivePairs(L \ {u}, E, c) = Pairs(L \ {u}, A)
      /\ WaitingPairs(L, E, c) = Pairs(L, W) /\ WaitingPairs(L \ {u}, E, c) = Pairs(L \ {u}, W)
  BY DEF ActivePairs, WaitingPairs
<1> HIDE DEF A, W
<1>6. Cardinality(Pairs(L, A)) = Cardinality(Pairs(L \ {u}, A)) + Cardinality(A[u])
  BY <1>2, PairsSplit
<1>7. Cardinality(Pairs(L, W)) = Cardinality(Pairs(L \ {u}, W)) + Cardinality(W[u])
  BY <1>2, PairsSplit
<1>8. /\ Cardinality(Pairs(L \ {u}, W)) \in Nat /\ Bit(E[u].callee = c) \in Nat
  <2>1. L \ {u} \in SUBSET ThreadIds /\ \A t \in L \ {u} : W[t] \subseteq 0 .. MaxDepth
    BY <1>2
  <2>2. QED
    BY <2>1, PairsSize DEF Bit
<1>9. QED
  BY <1>4, <1>5, <1>6, <1>7, <1>8

LEMMA PairsAreCounted ==
  ASSUME NEW E \in [ThreadIds -> Evaluators], NEW L \in SUBSET ThreadIds, NEW c
  PROVE  /\ IsFiniteSet(ActivePairs(L, E, c)) /\ Cardinality(ActivePairs(L, E, c)) \in Nat
         /\ IsFiniteSet(WaitingPairs(L, E, c)) /\ Cardinality(WaitingPairs(L, E, c)) \in Nat
<1>1. \A t \in L : E[t] \in Evaluators /\ t \in ThreadIds
  OBVIOUS
<1>2. \A t \in L : ActiveIn(E[t], c) \subseteq 0 .. MaxDepth /\ WaitingIn(E[t], c) \subseteq 0 .. MaxDepth
  BY <1>1, InEvaluator
<1>3. QED
  BY <1>1, <1>2, PairsSize DEF ActivePairs, WaitingPairs

SameCalls(a, b) == a.calls = b.calls /\ a.callee = b.callee

\* When only one evaluator changes, the numbers change as its numbers do.
LEMMA PairsChange ==
  ASSUME NEW E \in [ThreadIds -> Evaluators], NEW G \in [ThreadIds -> Evaluators],
         NEW L \in SUBSET ThreadIds, NEW u \in L,
         \A t \in L \ {u} : SameCalls(G[t], E[t]), NEW c
  PROVE  /\ Cardinality(ActivePairs(L, G, c)) - NumActive(G[u].calls, c) =
              Cardinality(ActivePairs(L, E, c)) - NumActive(E[u].calls, c)
         /\ Cardinality(WaitingPairs(L, G, c)) - NumInterrupted(G[u].calls, c) - Bit(G[u].callee = c) =
              Cardinality(WaitingPairs(L, E, c)) - NumInterrupted(E[u].calls, c) - Bit(E[u].callee = c)
<1>1. \A t \in L \ {u} : /\ ActiveIn(G[t], c) = ActiveIn(E[t], c)
                         /\ WaitingIn(G[t], c) = WaitingIn(E[t], c)
  BY DEF SameCalls, ActiveIn, WaitingIn
<1>2. /\ ActivePairs(L \ {u}, G, c) = ActivePairs(L \ {u}, E, c)
      /\ WaitingPairs(L \ {u}, G, c) = WaitingPairs(L \ {u}, E, c)
  BY <1>1 DEF ActivePairs, WaitingPairs, Pairs
<1>3. L \ {u} \in SUBSET ThreadIds
  OBVIOUS
<1>4. /\ Cardinality(ActivePairs(L \ {u}, E, c)) \in Nat
      /\ Cardinality(WaitingPairs(L \ {u}, E, c)) \in Nat
  BY <1>3, PairsAreCounted
<1>5. Bit(G[u].callee = c) \in Nat /\ Bit(E[u].callee = c) \in Nat
  BY DEF Bit
<1> DEFINE AE == Cardinality(ActivePairs(L, E, c))
           AG == Cardinality(ActivePairs(L, G, c))
           WE == Cardinality(WaitingPairs(L, E, c))
           WG == Cardinality(WaitingPairs(L, G, c))
           RA == Cardinality(ActivePairs(L \ {u}, E, c))
           RW == Cardinality(WaitingPairs(L \ {u}, E, c))
<1>6. /\ AE = RA + NumActive(E[u].calls, c)
      /\ WE = RW + NumInterrupted(E[u].calls, c) + Bit(E[u].callee = c)
      /\ NumActive(E[u].calls, c) \in Nat /\ NumInterrupted(E[u].calls, c) \in Nat
  BY PairsOfOne
<1>7. /\ AG = RA + NumActive(G[u].calls, c)
      /\ WG = RW + NumInterrupted(G[u].calls, c) + Bit(G[u].callee = c)
      /\ NumActive(G[u].calls, c) \in Nat /\ NumInterrupted(G[u].calls, c) \in Nat
  <2>1. /\ AG = Cardinality(ActivePairs(L \ {u}, G, c)) + NumActive(G[u].calls, c)
        /\ WG = Cardinality(WaitingPairs(L \ {u}, G, c)) + NumInterrupted(G[u].calls, c)
                + Bit(G[u].callee = c)
        /\ NumActive(G[u].calls, c) \in Nat /\ NumInterrupted(G[u].calls, c) \in Nat
    BY PairsOfOne
  <2>2. QED
    BY <1>2, <2>1
<1>8. RA \in Nat /\ RW \in Nat
  BY <1>4
<1> HIDE DEF AE, AG, WE, WG, RA, RW
<1>9. /\ AG - NumActive(G[u].calls, c) = AE - NumActive(E[u].calls, c)
      /\ WG - NumInterrupted(G[u].calls, c) - Bit(G[u].callee = c) =
           WE - NumInterrupted(E[u].calls, c) - Bit(E[u].callee = c)
  BY <1>5, <1>6, <1>7, <1>8
<1>10. QED
  BY <1>9 DEF AE, AG, WE, WG

-----------------------------------------------------------------------------
(* The history counters and the calls.                                       *)

Evals == [t \in ThreadIds |-> EvaluatorOf(t)]

EvalsFacts ==
  /\ Evals \in [ThreadIds -> Evaluators]
  /\ Live \subseteq ThreadIds /\ curthread \in Live
  /\ Evals[curthread] = stkm
  /\ \A t \in ThreadIds : t # curthread => Evals[t] = info[t].stackeval
  /\ \A c : ActiveCalls(c) = ActivePairs(Live, Evals, c) /\ WaitingCalls(c) = WaitingPairs(Live, Evals, c)

LEMMA EvalsAreCounted == TypeOK => EvalsFacts
<1> SUFFICES ASSUME TypeOK PROVE EvalsFacts
  OBVIOUS
<1>1. Live \subseteq ThreadIds /\ curthread \in Live /\ curthread \in ThreadIds
  BY DEF TypeOK, Live
<1>2. \A t \in ThreadIds : EvaluatorOf(t) \in Evaluators
  BY DEF TypeOK, EvaluatorOf, ThreadInfos
<1>3. Evals \in [ThreadIds -> Evaluators]
  BY <1>2 DEF Evals
<1>4. \A t \in ThreadIds : Evals[t] = EvaluatorOf(t)
  BY DEF Evals
<1>5. Evals[curthread] = stkm /\ \A t \in ThreadIds : t # curthread => Evals[t] = info[t].stackeval
  BY <1>1, <1>4 DEF EvaluatorOf
<1>6. ASSUME NEW c
      PROVE  ActiveCalls(c) = ActivePairs(Live, Evals, c) /\ WaitingCalls(c) = WaitingPairs(Live, Evals, c)
  <2>1. \A t \in Live : /\ [u \in ThreadIds |-> ActiveIn(Evals[u], c)][t] = ActiveIn(EvaluatorOf(t), c)
                        /\ [u \in ThreadIds |-> WaitingIn(Evals[u], c)][t] = WaitingIn(EvaluatorOf(t), c)
    BY <1>1, <1>4
  <2>2. QED
    BY <2>1 DEF ActiveCalls, WaitingCalls, ActivePairs, WaitingPairs, Pairs, Live
<1>7. QED
  BY <1>1, <1>3, <1>5, <1>6 DEF EvalsFacts

LEMMA NextEvalsAreCounted == TypeOK' => EvalsFacts'
  BY EvalsAreCounted, PTL

Requested(h, c) == h[c.obj][c.op].req - h[c.obj][c.op].act

LEMMA HistoryCounts ==
  ASSUME NEW h \in HistoryType, NEW c \in Calls, NEW d \in Calls
  PROVE  /\ active(h, c, c.op) \in Int /\ Requested(h, c) \in Int
         /\ active(UpdateHistCount(h, d, "req"), c, c.op) = active(h, c, c.op)
         /\ active(UpdateHistCount(h, d, "act"), c, c.op) = active(h, c, c.op) + Bit(d = c)
         /\ active(UpdateHistCount(h, d, "fin"), c, c.op) = active(h, c, c.op) - Bit(d = c)
         /\ Requested(UpdateHistCount(h, d, "req"), c) = Requested(h, c) + Bit(d = c)
         /\ Requested(UpdateHistCount(h, d, "act"), c) = Requested(h, c) - Bit(d = c)
         /\ Requested(UpdateHistCount(h, d, "fin"), c) = Requested(h, c)
<1>1. /\ c.obj \in Objs /\ c.op \in Ops /\ d.obj \in Objs /\ d.op \in Ops
      /\ d = c <=> d.obj = c.obj /\ d.op = c.op
  BY DEF Calls
<1>2. h[c.obj][c.op] \in Histories
  BY <1>1 DEF HistoryType
<1>3. active(h, c, c.op) \in Int /\ Requested(h, c) \in Int
  BY <1>2 DEF active, Requested, Histories
<1>4. CASE d = c
  <2>1. \A kind : UpdateHistCount(h, d, kind)[c.obj][c.op] = Counted(h[c.obj][c.op], kind)
    BY <1>1, <1>4 DEF UpdateHistCount, HistoryType
  <2> DEFINE r == h[c.obj][c.op]
  <2>2. \A kind : /\ Counted(r, kind).req = r.req + (IF kind = "req" THEN 1 ELSE 0)
                  /\ Counted(r, kind).act = r.act + (IF kind = "act" THEN 1 ELSE 0)
                  /\ Counted(r, kind).fin = r.fin + (IF kind = "fin" THEN 1 ELSE 0)
    BY DEF Counted
  <2>3. r.req \in Nat /\ r.act \in Nat /\ r.fin \in Nat
    BY <1>2 DEF Histories
  <2>4. \A kind : /\ active(UpdateHistCount(h, d, kind), c, c.op) = Counted(r, kind).act - Counted(r, kind).fin
                  /\ Requested(UpdateHistCount(h, d, kind), c) = Counted(r, kind).req - Counted(r, kind).act
    BY <2>1, Zenon DEF active, Requested
  <2>5. active(h, c, c.op) = r.act - r.fin /\ Requested(h, c) = r.req - r.act /\ Bit(d = c) = 1
    BY <1>4 DEF active, Requested, Bit
  <2> HIDE DEF r
  <2>6. QED
    BY <1>3, <2>2, <2>3, <2>4, <2>5
<1>5. CASE d # c
  <2>1. \A kind : UpdateHistCount(h, d, kind)[c.obj][c.op] = h[c.obj][c.op]
    BY <1>1, <1>5 DEF UpdateHistCount, HistoryType
  <2>2. QED
    BY <1>2, <1>3, <1>5, <2>1 DEF active, Requested, Bit
<1>6. QED
  BY <1>3, <1>4, <1>5

LEMMA MovesCounts ==
  ASSUME TypeOK, TypeOK', NEW calls, NEW callee, NEW phase, Moves(calls, callee, phase), NEW c
  PROVE  /\ Cardinality(ActiveCalls(c)') - NumActive(calls, c) =
              Cardinality(ActiveCalls(c)) - NumActive(stkm.calls, c)
         /\ Cardinality(WaitingCalls(c)') - NumInterrupted(calls, c) - Bit(callee = c) =
              Cardinality(WaitingCalls(c)) - NumInterrupted(stkm.calls, c) - Bit(stkm.callee = c)
         /\ NumActive(calls, c) \in Nat /\ NumInterrupted(calls, c) \in Nat
         /\ NumActive(stkm.calls, c) \in Nat /\ NumInterrupted(stkm.calls, c) \in Nat
<1>1. EvalsFacts /\ EvalsFacts'
  BY EvalsAreCounted, NextEvalsAreCounted
<1>2. /\ UNCHANGED <<threads, curthread>> /\ Live' = Live
      /\ \A t \in ThreadIds \ {curthread} : info'[t].stackeval = info[t].stackeval
      /\ stkm'.calls = calls /\ stkm'.callee = callee
  BY DEF Moves, Live
<1> DEFINE E == Evals
           G == Evals'
<1>3. /\ E \in [ThreadIds -> Evaluators] /\ G \in [ThreadIds -> Evaluators]
      /\ Live \in SUBSET ThreadIds /\ curthread \in Live
      /\ E[curthread] = stkm /\ G[curthread] = stkm'
      /\ \A t \in Live \ {curthread} : G[t] = E[t]
  BY <1>1, <1>2 DEF EvalsFacts
<1>4. /\ ActiveCalls(c) = ActivePairs(Live, E, c) /\ WaitingCalls(c) = WaitingPairs(Live, E, c)
      /\ ActiveCalls(c)' = ActivePairs(Live, G, c) /\ WaitingCalls(c)' = WaitingPairs(Live, G, c)
  BY <1>1, <1>2 DEF EvalsFacts
<1> HIDE DEF E, G
<1>5. \A t \in Live \ {curthread} : SameCalls(G[t], E[t])
  BY <1>3 DEF SameCalls
<1>6. /\ Cardinality(ActivePairs(Live, G, c)) - NumActive(G[curthread].calls, c) =
           Cardinality(ActivePairs(Live, E, c)) - NumActive(E[curthread].calls, c)
      /\ Cardinality(WaitingPairs(Live, G, c)) - NumInterrupted(G[curthread].calls, c)
             - Bit(G[curthread].callee = c) =
           Cardinality(WaitingPairs(Live, E, c)) - NumInterrupted(E[curthread].calls, c)
             - Bit(E[curthread].callee = c)
  BY <1>3, <1>5, PairsChange
<1>7. \A ev \in Evaluators : NumActive(ev.calls, c) \in Nat /\ NumInterrupted(ev.calls, c) \in Nat
  BY InEvaluator
<1>8. QED
  BY <1>2, <1>3, <1>4, <1>6, <1>7 DEF TypeOK

DepthOK(ev) ==
  /\ Len(ev.calls) <= MaxDepth
  /\ ev.callee # NoCall => Len(ev.calls) < MaxDepth

DepthInv == \A t \in Live : DepthOK(EvaluatorOf(t))

\* By how much the counters exceed the calls.
MoreActive(c) == active(hist, c, c.op) - Cardinality(ActiveCalls(c))
MoreWaiting(c) == Requested(hist, c) - Cardinality(WaitingCalls(c))

Adds(c, a, w) == MoreActive(c)' = MoreActive(c) + a /\ MoreWaiting(c)' = MoreWaiting(c) + w

LEMMA CallsAreCounted ==
  ASSUME TypeOK, TypeOK', NEW c \in Calls
  PROVE  /\ IsFiniteSet(ActiveCalls(c)) /\ Cardinality(ActiveCalls(c)) \in Nat
         /\ IsFiniteSet(WaitingCalls(c)) /\ Cardinality(WaitingCalls(c)) \in Nat
         /\ Cardinality(ActiveCalls(c)') \in Nat /\ Cardinality(WaitingCalls(c)') \in Nat
         /\ active(hist, c, c.op) \in Int /\ Requested(hist, c) \in Int
         /\ active(hist', c, c.op) \in Int /\ Requested(hist', c) \in Int
<1>1. EvalsFacts /\ EvalsFacts'
  BY EvalsAreCounted, NextEvalsAreCounted
<1>2. /\ IsFiniteSet(ActiveCalls(c)) /\ Cardinality(ActiveCalls(c)) \in Nat
      /\ IsFiniteSet(WaitingCalls(c)) /\ Cardinality(WaitingCalls(c)) \in Nat
  BY <1>1, PairsAreCounted DEF EvalsFacts
<1> DEFINE G == Evals'
           L == Live'
<1>3. /\ G \in [ThreadIds -> Evaluators] /\ L \in SUBSET ThreadIds
      /\ ActiveCalls(c)' = ActivePairs(L, G, c) /\ WaitingCalls(c)' = WaitingPairs(L, G, c)
  BY <1>1 DEF EvalsFacts
<1> HIDE DEF G, L
<1>4. Cardinality(ActivePairs(L, G, c)) \in Nat /\ Cardinality(WaitingPairs(L, G, c)) \in Nat
  BY <1>3, PairsAreCounted
<1>5. hist \in HistoryType /\ hist' \in HistoryType
  BY DEF TypeOK, HistoryType
<1>6. QED
  BY <1>2, <1>3, <1>4, <1>5, HistoryCounts

LEMMA MovesAdds ==
  ASSUME TypeOK, TypeOK', NEW calls, NEW callee, NEW phase, Moves(calls, callee, phase),
         NEW c \in Calls, NEW a \in Int, NEW w \in Int,
         active(hist', c, c.op) - NumActive(calls, c) =
           active(hist, c, c.op) - NumActive(stkm.calls, c) + a,
         Requested(hist', c) - NumInterrupted(calls, c) - Bit(callee = c) =
           Requested(hist, c) - NumInterrupted(stkm.calls, c) - Bit(stkm.callee = c) + w
  PROVE  Adds(c, a, w)
<1> DEFINE A == Cardinality(ActiveCalls(c))
           AA == Cardinality(ActiveCalls(c)')
           W == Cardinality(WaitingCalls(c))
           WW == Cardinality(WaitingCalls(c)')
           n == NumActive(calls, c)
           m == NumActive(stkm.calls, c)
           k == NumInterrupted(calls, c)
           l == NumInterrupted(stkm.calls, c)
<1>1. AA - n = A - m /\ WW - k - Bit(callee = c) = W - l - Bit(stkm.callee = c)
      /\ n \in Nat /\ m \in Nat /\ k \in Nat /\ l \in Nat
  BY MovesCounts
<1>2. A \in Nat /\ AA \in Nat /\ W \in Nat /\ WW \in Nat
      /\ active(hist, c, c.op) \in Int /\ Requested(hist, c) \in Int
      /\ active(hist', c, c.op) \in Int /\ Requested(hist', c) \in Int
  BY CallsAreCounted
<1>3. Bit(callee = c) \in Int /\ Bit(stkm.callee = c) \in Int
  BY DEF Bit
<1>4. /\ MoreActive(c) = active(hist, c, c.op) - A /\ MoreWaiting(c) = Requested(hist, c) - W
      /\ MoreActive(c)' = active(hist', c, c.op) - AA /\ MoreWaiting(c)' = Requested(hist', c) - WW
  BY DEF MoreActive, MoreWaiting
<1>5. /\ active(hist', c, c.op) - n = active(hist, c, c.op) - m + a
      /\ Requested(hist', c) - k - Bit(callee = c) = Requested(hist, c) - l - Bit(stkm.callee = c) + w
  OBVIOUS
<1> HIDE DEF A, AA, W, WW, n, m, k, l
<1>6. active(hist', c, c.op) - AA = active(hist, c, c.op) - A + a
  BY <1>1, <1>2, <1>5
<1>7. Requested(hist', c) - WW = Requested(hist, c) - W + w
  <2> DEFINE p == Bit(callee = c)
             q == Bit(stkm.callee = c)
             r == Requested(hist, c)
             s == Requested(hist', c)
  <2>1. /\ WW - k - p = W - l - q /\ s - k - p = r - l - q + w
        /\ p \in Int /\ q \in Int /\ r \in Int /\ s \in Int
        /\ W \in Int /\ WW \in Int /\ k \in Int /\ l \in Int
    BY <1>1, <1>2, <1>3, <1>5
  <2> HIDE DEF p, q, r, s
  <2>2. s - WW = r - W + w
    BY <2>1
  <2>3. QED
    BY <2>2 DEF r, s
<1>8. QED
  BY <1>4, <1>6, <1>7 DEF Adds

LEMMA GoingAdds ==
  ASSUME TypeOK, TypeOK', NEW c \in Calls, Goes \/ GivesUp \/ Ends
  PROVE  Adds(c, 0, 0)
<1>1. hist' = hist
  BY DEF Goes, GivesUp, Ends
<1>2. \E phase : Moves(stkm.calls, stkm.callee, phase)
  BY WorkFields DEF Goes, GivesUp, Ends, TypeOK
<1>3. /\ active(hist, c, c.op) \in Int /\ Requested(hist, c) \in Int
      /\ NumActive(stkm.calls, c) \in Nat /\ NumInterrupted(stkm.calls, c) \in Nat
      /\ Bit(stkm.callee = c) \in Int
  <2>1. stkm \in Evaluators
    BY DEF TypeOK
  <2>2. NumActive(stkm.calls, c) \in Nat /\ NumInterrupted(stkm.calls, c) \in Nat
    BY <2>1, InEvaluator
  <2>3. Bit(stkm.callee = c) \in Int
    BY DEF Bit
  <2>4. QED
    BY <2>2, <2>3, CallsAreCounted
<1>4. QED
  BY <1>1, <1>2, <1>3, MovesAdds

LEMMA RequestAdds ==
  ASSUME TypeOK, TypeOK', NEW c \in Calls, NEW d \in Calls, Requests(d)
  PROVE  Adds(c, 0, 0)
<1>1. /\ Moves(stkm.calls, d, stkm'.phase) /\ hist' = UpdateHistCount(hist, d, "req")
      /\ stkm.callee = NoCall /\ hist \in HistoryType
  BY WorkFields DEF Requests, TypeOK, HistoryType
<1>2. NoCall # c
  BY SchdAssumption
<1>3. /\ active(hist', c, c.op) = active(hist, c, c.op)
      /\ Requested(hist', c) = Requested(hist, c) + Bit(d = c)
      /\ active(hist, c, c.op) \in Int /\ Requested(hist, c) \in Int
  BY <1>1, HistoryCounts
<1>4. NumActive(stkm.calls, c) \in Nat /\ NumInterrupted(stkm.calls, c) \in Nat
  BY InEvaluator DEF TypeOK
<1>5. Bit(stkm.callee = c) = 0 /\ Bit(d = c) \in Int
  BY <1>1, <1>2 DEF Bit
<1>6. QED
  BY <1>1, <1>3, <1>4, <1>5, MovesAdds

LEMMA ActivationAdds ==
  ASSUME TypeOK, TypeOK', DepthInv, NEW c \in Calls, NEW d \in Calls, Activates(d)
  PROVE  Adds(c, 0, 0)
<1> DEFINE f == [call |-> d, phase |-> "body", callee |-> NoCall]
<1>0. NoCall # c /\ NoCall # d
  BY SchdAssumption
<1>1. f \in Frames /\ f.call = d /\ f.callee = NoCall
  BY DEF Frames, PhaseMatchesCallee, Phases
<1>2. /\ Moves(Append(stkm.calls, f), NoCall, "body")
      /\ hist' = UpdateHistCount(hist, d, "act") /\ stkm.callee = d
      /\ hist \in HistoryType /\ stkm.calls \in Seq(Frames)
  BY EvaluatorType DEF Activates, TypeOK, HistoryType
<1>3. Len(stkm.calls) < MaxDepth
  BY <1>0, <1>2 DEF DepthInv, DepthOK, Live, EvaluatorOf
<1> HIDE DEF f
<1>4. /\ active(hist', c, c.op) = active(hist, c, c.op) + Bit(d = c)
      /\ Requested(hist', c) = Requested(hist, c) - Bit(d = c)
      /\ active(hist, c, c.op) \in Int /\ Requested(hist, c) \in Int
  BY <1>2, HistoryCounts
<1>5. NumActive(stkm.calls, c) \in Nat /\ NumInterrupted(stkm.calls, c) \in Nat
  BY InEvaluator DEF TypeOK
<1>6. /\ NumActive(Append(stkm.calls, f), c) = NumActive(stkm.calls, c) + Bit(d = c)
      /\ NumInterrupted(Append(stkm.calls, f), c) = NumInterrupted(stkm.calls, c) + Bit(NoCall = c)
  BY <1>1, <1>2, <1>3, NumPush
<1>7. Bit(NoCall = c) = 0 /\ Bit(d = c) \in Int /\ Bit(stkm.callee = c) = Bit(d = c)
  BY <1>0, <1>2 DEF Bit
<1>8. /\ active(hist', c, c.op) - NumActive(Append(stkm.calls, f), c) =
           active(hist, c, c.op) - NumActive(stkm.calls, c) + 0
      /\ Requested(hist', c) - NumInterrupted(Append(stkm.calls, f), c) - Bit(NoCall = c) =
           Requested(hist, c) - NumInterrupted(stkm.calls, c) - Bit(stkm.callee = c) + 0
  BY <1>4, <1>5, <1>6, <1>7
<1>9. QED
  BY <1>2, <1>8, MovesAdds

LEMMA CompletionAdds ==
  ASSUME TypeOK, TypeOK', DepthInv, NEW c \in Calls, NEW d \in Calls, Completes(d)
  PROVE  Adds(c, 0, Bit(Top(stkm).callee = c))
<1> DEFINE f == stkm.calls[Len(stkm.calls)]
<1>1. /\ Moves(Popped(stkm.calls), NoCall, "body") /\ f.call = d /\ f = Top(stkm)
      /\ hist' = UpdateHistCount(hist, d, "fin") /\ stkm.callee = NoCall /\ stkm.calls # <<>>
      /\ hist \in HistoryType /\ stkm.calls \in Seq(Frames)
  BY EvaluatorType DEF Completes, TypeOK, HistoryType, Top
<1>2. Len(stkm.calls) <= MaxDepth
  BY DEF DepthInv, DepthOK, Live, EvaluatorOf
<1>3. /\ active(hist', c, c.op) = active(hist, c, c.op) - Bit(d = c)
      /\ Requested(hist', c) = Requested(hist, c)
      /\ active(hist, c, c.op) \in Int /\ Requested(hist, c) \in Int
  BY <1>1, HistoryCounts
<1>4. /\ NumActive(stkm.calls, c) = NumActive(Popped(stkm.calls), c) + Bit(f.call = c)
      /\ NumInterrupted(stkm.calls, c) = NumInterrupted(Popped(stkm.calls), c) + Bit(f.callee = c)
  BY <1>1, <1>2, NumPop
<1>5. NumActive(Popped(stkm.calls), c) \in Nat /\ NumInterrupted(Popped(stkm.calls), c) \in Nat
  BY MarkedSize DEF NumActive, NumInterrupted
<1> HIDE DEF f
<1>6. Bit(f.call = c) = Bit(d = c) /\ Bit(d = c) \in Int /\ Bit(f.callee = c) \in Int
  BY <1>1 DEF Bit
<1>7. Bit(NoCall = c) = 0 /\ Bit(stkm.callee = c) = 0
  BY <1>1, SchdAssumption DEF Bit
<1>8. /\ active(hist', c, c.op) - NumActive(Popped(stkm.calls), c) =
           active(hist, c, c.op) - NumActive(stkm.calls, c) + 0
      /\ Requested(hist', c) - NumInterrupted(Popped(stkm.calls), c) - Bit(NoCall = c) =
           Requested(hist, c) - NumInterrupted(stkm.calls, c) - Bit(stkm.callee = c) + Bit(f.callee = c)
  BY <1>3, <1>4, <1>5, <1>6, <1>7
<1>9. Adds(c, 0, Bit(f.callee = c))
  BY <1>1, <1>6, <1>8, MovesAdds
<1>10. QED
  BY <1>1, <1>9

LEMMA CompletionsAdd ==
  ASSUME TypeOK, TypeOK', DepthInv, NEW c \in Calls, NEW d \in Calls, NEW e \in Calls,
         CompletesTwo(d, e)
  PROVE  Adds(c, 0, Bit(Top(stkm).callee = c) + Bit(Top(PopFrame(stkm)).callee = c))
<1> DEFINE f == stkm.calls[Len(stkm.calls)]
           s == Popped(stkm.calls)
           g == s[Len(s)]
           h == UpdateHistCount(hist, d, "fin")
<1>1. /\ Moves(Popped(s), NoCall, "body") /\ f.call = d /\ f = Top(stkm)
      /\ hist' = UpdateHistCount(h, e, "fin") /\ stkm.callee = NoCall
      /\ stkm.calls # <<>> /\ s # <<>> /\ hist \in HistoryType /\ stkm.calls \in Seq(Frames)
      /\ stkm.phase = "body" /\ Top(PopFrame(stkm)).call = e
  BY EvaluatorType DEF CompletesTwo, TypeOK, HistoryType, Top
<1>2. PopFrame(stkm).calls = s /\ g = Top(PopFrame(stkm)) /\ g.call = e
  BY <1>1, WorkFields DEF TypeOK, Top
<1>3. Len(stkm.calls) <= MaxDepth /\ MaxDepth \in Nat
  BY SchdAssumption DEF DepthInv, DepthOK, Live, EvaluatorOf
<1>4. s \in Seq(Frames) /\ Len(s) <= MaxDepth
  BY <1>1, <1>3, PoppedCalls
<1>5. h \in HistoryType
  BY <1>1, UpdateHistCountType
<1>6. /\ active(h, c, c.op) = active(hist, c, c.op) - Bit(d = c)
      /\ Requested(h, c) = Requested(hist, c)
      /\ active(hist, c, c.op) \in Int /\ Requested(hist, c) \in Int
  BY <1>1, HistoryCounts
<1> HIDE DEF h
<1>7. /\ active(hist', c, c.op) = active(h, c, c.op) - Bit(e = c)
      /\ Requested(hist', c) = Requested(h, c)
  BY <1>1, <1>5, HistoryCounts
<1>8. /\ NumActive(stkm.calls, c) = NumActive(s, c) + Bit(f.call = c)
      /\ NumInterrupted(stkm.calls, c) = NumInterrupted(s, c) + Bit(f.callee = c)
  BY <1>1, <1>3, NumPop
<1> HIDE DEF s, f
<1>9. /\ NumActive(s, c) = NumActive(Popped(s), c) + Bit(g.call = c)
      /\ NumInterrupted(s, c) = NumInterrupted(Popped(s), c) + Bit(g.callee = c)
  BY <1>1, <1>4, NumPop
<1>10. NumActive(Popped(s), c) \in Nat /\ NumInterrupted(Popped(s), c) \in Nat
  BY MarkedSize DEF NumActive, NumInterrupted
<1> HIDE DEF g
<1>11. /\ Bit(f.call = c) = Bit(d = c) /\ Bit(d = c) \in Int /\ Bit(f.callee = c) \in Int
       /\ Bit(g.call = c) = Bit(e = c) /\ Bit(e = c) \in Int /\ Bit(g.callee = c) \in Int
  BY <1>1, <1>2 DEF Bit
<1>12. Bit(NoCall = c) = 0 /\ Bit(stkm.callee = c) = 0
  BY <1>1, SchdAssumption DEF Bit
<1>13. active(hist', c, c.op) - NumActive(Popped(s), c) =
         active(hist, c, c.op) - NumActive(stkm.calls, c) + 0
  BY <1>6, <1>7, <1>8, <1>9, <1>10, <1>11
<1>14. Requested(hist', c) - NumInterrupted(Popped(s), c) - Bit(NoCall = c) =
         Requested(hist, c) - NumInterrupted(stkm.calls, c) - Bit(stkm.callee = c)
           + (Bit(f.callee = c) + Bit(g.callee = c))
  BY <1>6, <1>7, <1>8, <1>9, <1>10, <1>11, <1>12
<1>15. Bit(f.callee = c) + Bit(g.callee = c) \in Int
  BY <1>11
<1>16. Adds(c, 0, Bit(f.callee = c) + Bit(g.callee = c))
  BY <1>1, <1>13, <1>14, <1>15, MovesAdds
<1>17. QED
  BY <1>1, <1>2, <1>16

LEMMA PopAdds ==
  ASSUME TypeOK, TypeOK', DepthInv, NEW c \in Calls, Pops
  PROVE  Adds(c, Bit(Top(stkm).call = c), 0)
<1> DEFINE f == stkm.calls[Len(stkm.calls)]
<1>1. /\ Moves(Popped(stkm.calls), f.callee, f.phase) /\ f = Top(stkm)
      /\ hist' = hist /\ stkm.callee = NoCall /\ stkm.calls # <<>>
      /\ stkm.calls \in Seq(Frames)
  BY EvaluatorType DEF Pops, TypeOK, Top
<1>2. Len(stkm.calls) <= MaxDepth
  BY DEF DepthInv, DepthOK, Live, EvaluatorOf
<1>3. /\ active(hist, c, c.op) \in Int /\ Requested(hist, c) \in Int
  BY CallsAreCounted
<1>4. /\ NumActive(stkm.calls, c) = NumActive(Popped(stkm.calls), c) + Bit(f.call = c)
      /\ NumInterrupted(stkm.calls, c) = NumInterrupted(Popped(stkm.calls), c) + Bit(f.callee = c)
  BY <1>1, <1>2, NumPop
<1>5. NumActive(Popped(stkm.calls), c) \in Nat /\ NumInterrupted(Popped(stkm.calls), c) \in Nat
  BY MarkedSize DEF NumActive, NumInterrupted
<1> HIDE DEF f
<1>6. Bit(f.call = c) \in Int /\ Bit(f.callee = c) \in Int /\ Bit(stkm.callee = c) = 0
  BY <1>1, SchdAssumption DEF Bit
<1>7. active(hist', c, c.op) - NumActive(Popped(stkm.calls), c) =
        active(hist, c, c.op) - NumActive(stkm.calls, c) + Bit(f.call = c)
  BY <1>1, <1>3, <1>4, <1>5, <1>6
<1>8. Requested(hist', c) - NumInterrupted(Popped(stkm.calls), c) - Bit(f.callee = c) =
        Requested(hist, c) - NumInterrupted(stkm.calls, c) - Bit(stkm.callee = c) + 0
  BY <1>1, <1>3, <1>4, <1>5, <1>6
<1>9. Adds(c, Bit(f.call = c), 0)
  BY <1>1, <1>6, <1>7, <1>8, MovesAdds
<1>10. QED
  BY <1>1, <1>9

LEMMA PushAdds ==
  ASSUME TypeOK, TypeOK', NEW c \in Calls, Pushes
  PROVE  Adds(c, 0, 0)
<1> DEFINE f == [call |-> NoCall, phase |-> stkm.phase, callee |-> stkm.callee]
<1>0. NoCall # c
  BY SchdAssumption
<1>1. f \in Frames /\ f.call = NoCall /\ f.callee = stkm.callee
  BY DEF TypeOK, Evaluators, Frames, PhaseMatchesCallee
<1>2. /\ Moves(Append(stkm.calls, f), NoCall, "body")
      /\ hist' = hist /\ stkm.calls \in Seq(Frames) /\ Len(stkm.calls) < MaxDepth
  BY EvaluatorType DEF Pushes, TypeOK
<1> HIDE DEF f
<1>3. /\ active(hist, c, c.op) \in Int /\ Requested(hist, c) \in Int
  BY CallsAreCounted
<1>4. NumActive(stkm.calls, c) \in Nat /\ NumInterrupted(stkm.calls, c) \in Nat
  BY InEvaluator DEF TypeOK
<1>5. /\ NumActive(Append(stkm.calls, f), c) = NumActive(stkm.calls, c) + Bit(NoCall = c)
      /\ NumInterrupted(Append(stkm.calls, f), c) = NumInterrupted(stkm.calls, c) + Bit(stkm.callee = c)
  BY <1>1, <1>2, NumPush
<1>6. Bit(NoCall = c) = 0 /\ Bit(stkm.callee = c) \in Int
  BY <1>0 DEF Bit
<1>7. active(hist', c, c.op) - NumActive(Append(stkm.calls, f), c) =
        active(hist, c, c.op) - NumActive(stkm.calls, c) + 0
  BY <1>2, <1>3, <1>4, <1>5, <1>6
<1>8. Requested(hist', c) - NumInterrupted(Append(stkm.calls, f), c) - Bit(NoCall = c) =
        Requested(hist, c) - NumInterrupted(stkm.calls, c) - Bit(stkm.callee = c) + 0
  BY <1>2, <1>3, <1>4, <1>5, <1>6
<1>9. QED
  BY <1>2, <1>7, <1>8, MovesAdds

\* An evaluator without calls.
NoCalls(ev) == ev.calls = <<>> /\ ev.callee = NoCall

LEMMA NoCallsIn ==
  ASSUME NEW ev, NoCalls(ev), NEW c \in Calls
  PROVE  ActiveIn(ev, c) = {} /\ WaitingIn(ev, c) = {}
<1>1. Len(<<>>) = 0 /\ \A i \in 1 .. MaxDepth : ~(i <= 0)
  BY EmptySeq, SchdAssumption
<1>2. NoCall # c
  BY SchdAssumption
<1>3. QED
  BY <1>1, <1>2 DEF NoCalls, ActiveIn, WaitingIn

\* The calls of the threads that go on are among the calls before the step.
CarriedOver ==
  \A t \in Live' : \/ t \in Live /\ SameCalls(EvaluatorOf(t)', EvaluatorOf(t))
                   \/ NoCalls(EvaluatorOf(t)')

\* And none of those is lost.
AllCarriedOver ==
  \A t \in Live : \/ t \in Live' /\ SameCalls(EvaluatorOf(t)', EvaluatorOf(t))
                  \/ NoCalls(EvaluatorOf(t))

LEMMA CarriedCalls ==
  ASSUME NEW c \in Calls
  PROVE  /\ CarriedOver => /\ ActiveCalls(c)' \subseteq ActiveCalls(c)
                           /\ WaitingCalls(c)' \subseteq WaitingCalls(c)
         /\ AllCarriedOver => /\ ActiveCalls(c) \subseteq ActiveCalls(c)'
                              /\ WaitingCalls(c) \subseteq WaitingCalls(c)'
<1>1. \A ev, g : SameCalls(ev, g) => ActiveIn(ev, c) = ActiveIn(g, c) /\ WaitingIn(ev, c) = WaitingIn(g, c)
  BY DEF SameCalls, ActiveIn, WaitingIn
<1>2. \A ev : NoCalls(ev) => ActiveIn(ev, c) = {} /\ WaitingIn(ev, c) = {}
  BY NoCallsIn
<1>3. /\ \A p : p \in ActiveCalls(c) <=> \E t \in Live : p \in {t} \X ActiveIn(EvaluatorOf(t), c)
      /\ \A p : p \in WaitingCalls(c) <=> \E t \in Live : p \in {t} \X WaitingIn(EvaluatorOf(t), c)
  BY DEF ActiveCalls, WaitingCalls, Live
<1>4. /\ \A p : p \in ActiveCalls(c)' <=> \E t \in Live' : p \in {t} \X ActiveIn(EvaluatorOf(t)', c)
      /\ \A p : p \in WaitingCalls(c)' <=> \E t \in Live' : p \in {t} \X WaitingIn(EvaluatorOf(t)', c)
  BY DEF ActiveCalls, WaitingCalls, Live, ActiveIn, WaitingIn
<1>5. ASSUME CarriedOver
      PROVE  ActiveCalls(c)' \subseteq ActiveCalls(c) /\ WaitingCalls(c)' \subseteq WaitingCalls(c)
  <2>1. \A t \in Live' :
          /\ \A p \in {t} \X ActiveIn(EvaluatorOf(t)', c) : t \in Live /\ p \in {t} \X ActiveIn(EvaluatorOf(t), c)
          /\ \A p \in {t} \X WaitingIn(EvaluatorOf(t)', c) : t \in Live /\ p \in {t} \X WaitingIn(EvaluatorOf(t), c)
    BY <1>1, <1>2, <1>5 DEF CarriedOver
  <2>2. QED
    BY <1>3, <1>4, <2>1
<1>6. ASSUME AllCarriedOver
      PROVE  ActiveCalls(c) \subseteq ActiveCalls(c)' /\ WaitingCalls(c) \subseteq WaitingCalls(c)'
  <2>1. \A t \in Live :
          /\ \A p \in {t} \X ActiveIn(EvaluatorOf(t), c) : t \in Live' /\ p \in {t} \X ActiveIn(EvaluatorOf(t)', c)
          /\ \A p \in {t} \X WaitingIn(EvaluatorOf(t), c) : t \in Live' /\ p \in {t} \X WaitingIn(EvaluatorOf(t)', c)
    BY <1>1, <1>2, <1>6 DEF AllCarriedOver
  <2>2. QED
    BY <1>3, <1>4, <2>1
<1>7. QED
  BY <1>5, <1>6

LEMMA CarryingAdds ==
  ASSUME TypeOK, TypeOK', NEW c \in Calls, hist' = hist, CarriedOver
  PROVE  /\ \E a, w \in Nat : Adds(c, a, w)
         /\ AllCarriedOver => Adds(c, 0, 0)
<1> DEFINE A == Cardinality(ActiveCalls(c))
           AA == Cardinality(ActiveCalls(c)')
           W == Cardinality(WaitingCalls(c))
           WW == Cardinality(WaitingCalls(c)')
           x == active(hist, c, c.op)
           y == Requested(hist, c)
<1>1. /\ A \in Nat /\ AA \in Nat /\ W \in Nat /\ WW \in Nat /\ x \in Int /\ y \in Int
      /\ IsFiniteSet(ActiveCalls(c)) /\ IsFiniteSet(WaitingCalls(c))
  BY CallsAreCounted
<1>2. AA <= A /\ WW <= W
  <2>1. ActiveCalls(c)' \in SUBSET ActiveCalls(c) /\ WaitingCalls(c)' \in SUBSET WaitingCalls(c)
    BY CarriedCalls
  <2>2. QED
    BY <1>1, <2>1, FS_Subset
<1>3. AllCarriedOver => AA = A /\ WW = W
  BY CarriedCalls
<1>4. /\ MoreActive(c) = x - A /\ MoreWaiting(c) = y - W
      /\ MoreActive(c)' = x - AA /\ MoreWaiting(c)' = y - WW
  BY DEF MoreActive, MoreWaiting
<1> HIDE DEF A, AA, W, WW, x, y
<1>5. /\ A - AA \in Nat /\ W - WW \in Nat
      /\ x - AA = x - A + (A - AA) /\ y - WW = y - W + (W - WW)
  BY <1>1, <1>2
<1>6. Adds(c, A - AA, W - WW)
  BY <1>4, <1>5 DEF Adds
<1>7. AllCarriedOver => A - AA = 0 /\ W - WW = 0
  BY <1>1, <1>3
<1>8. QED
  BY <1>5, <1>6, <1>7

LEMMA CarryingKinds ==
  ASSUME Starts \/ Stops \/ Switches \/ Selects
  PROVE  CarriedOver /\ hist' = hist
<1>1. CASE Starts
  <2>1. \A t \in Live : t \in Live' /\ SameCalls(EvaluatorOf(t)', EvaluatorOf(t))
    BY <1>1 DEF Starts, Live, SameCalls, SameWork, EvaluatorOf
  <2>2. \A t \in {next_thread_id} : NoCalls(EvaluatorOf(t)')
    BY <1>1 DEF Starts, Live, Fresh, NoCalls, EvaluatorOf
  <2>3. \A t \in Live' : t \in Live \/ t \in {next_thread_id}
    BY <1>1 DEF Starts, Live
  <2>4. QED
    BY <1>1, <2>1, <2>2, <2>3 DEF CarriedOver, Starts
<1>2. CASE Stops
  <2>1. \A t \in Live' : t \in Live /\ SameCalls(EvaluatorOf(t)', EvaluatorOf(t))
    BY <1>2 DEF Stops, Live, SameCalls, SameWork, EvaluatorOf
  <2>2. QED
    BY <1>2, <2>1 DEF CarriedOver, Stops
<1>3. CASE Switches
  <2>1. \A t \in threads' : t \in Live /\ SameCalls(EvaluatorOf(t)', EvaluatorOf(t))
    BY <1>3 DEF Switches, Live, SameCalls, SameWork
  <2>2. curthread' \notin threads' => curthread' = curthread /\ SameWork(stkm', stkm)
    BY <1>3 DEF Switches
  <2>3. \A t \in {curthread} : curthread' = curthread => EvaluatorOf(t)' = stkm' /\ EvaluatorOf(t) = stkm
    BY DEF EvaluatorOf
  <2>4. \A t \in Live' : t \in Live /\ SameCalls(EvaluatorOf(t)', EvaluatorOf(t))
    BY <2>1, <2>2, <2>3 DEF Live, SameCalls, SameWork
  <2>5. QED
    BY <1>3, <2>4 DEF CarriedOver, Switches
<1>4. CASE Selects
  <2>1. \A t \in Live' : t \in Live /\ SameCalls(EvaluatorOf(t)', EvaluatorOf(t))
    BY <1>4 DEF Selects, Live, SameCalls, SameWork
  <2>2. QED
    BY <1>4, <2>1 DEF CarriedOver, Selects
<1>5. QED
  BY <1>1, <1>2, <1>3, <1>4

LEMMA DepthStep ==
  ASSUME TypeOK, DepthInv, WorkKinds
  PROVE  DepthInv'
<1>0. /\ MaxDepth \in Nat /\ DepthOK(stkm) /\ stkm.calls \in Seq(Frames) /\ Len(stkm.calls) \in Nat
      /\ threads \subseteq ThreadIds /\ stkm \in Evaluators
  BY SchdAssumption, EvaluatorType, LenProperties DEF DepthInv, Live, EvaluatorOf, TypeOK
<1>1. \A ev : NoCalls(ev) => DepthOK(ev)
  <2>1. Len(<<>>) = 0
    BY EmptySeq
  <2>2. QED
    BY <1>0, <2>1 DEF NoCalls, DepthOK
<1>2. ASSUME CarriedOver PROVE DepthInv'
  <2>1. \A t \in Live' : DepthOK(EvaluatorOf(t)')
    BY <1>1, <1>2 DEF CarriedOver, DepthInv, SameCalls, DepthOK
  <2>2. QED
    BY <2>1 DEF DepthInv, DepthOK
<1>3. ASSUME NEW calls, NEW callee, NEW phase, Moves(calls, callee, phase),
             Len(calls) <= MaxDepth, callee # NoCall => Len(calls) < MaxDepth
      PROVE  DepthInv'
  <2>1. Live' = Live /\ curthread' = curthread
    BY <1>3 DEF Moves, Live
  <2>2. \A t \in Live \ {curthread} : EvaluatorOf(t)' = EvaluatorOf(t)
    BY <1>0, <1>3 DEF Moves, Live, EvaluatorOf
  <2>3. \A t \in {curthread} : EvaluatorOf(t)' = stkm'
    BY <2>1 DEF EvaluatorOf
  <2>4. DepthOK(stkm')
    BY <1>3 DEF Moves, DepthOK
  <2>5. \A t \in Live : DepthOK(EvaluatorOf(t)')
    BY <2>2, <2>3, <2>4 DEF DepthInv
  <2>6. QED
    BY <2>1, <2>5 DEF DepthInv, DepthOK
<1>4. ASSUME NEW c \in Calls, Requests(c) PROVE DepthInv'
  BY <1>0, <1>3, <1>4 DEF Requests, DepthOK
<1>5. ASSUME NEW c \in Calls, Activates(c) PROVE DepthInv'
  <2> DEFINE f == [call |-> c, phase |-> "body", callee |-> NoCall]
  <2>1. f \in Frames
    BY DEF Frames, PhaseMatchesCallee, Phases
  <2>2. Moves(Append(stkm.calls, f), NoCall, "body") /\ stkm.callee # NoCall
    BY <1>5, SchdAssumption DEF Activates
  <2> HIDE DEF f
  <2>3. Len(Append(stkm.calls, f)) = Len(stkm.calls) + 1
    BY <1>0, <2>1, PushedCalls
  <2>4. Len(Append(stkm.calls, f)) <= MaxDepth
    BY <1>0, <2>2, <2>3 DEF DepthOK
  <2>5. QED
    BY <1>3, <2>2, <2>4
<1>6. stkm.calls # <<>> => /\ Popped(stkm.calls) \in Seq(Frames)
                           /\ Len(Popped(stkm.calls)) = Len(stkm.calls) - 1
  BY <1>0, PoppedCalls
<1>7. ASSUME NEW c \in Calls, Completes(c) PROVE DepthInv'
  <2>1. stkm.calls # <<>> /\ Moves(Popped(stkm.calls), NoCall, "body")
    BY <1>7 DEF Completes
  <2>2. Len(Popped(stkm.calls)) <= MaxDepth
    BY <1>0, <1>6, <2>1 DEF DepthOK
  <2>3. QED
    BY <1>3, <2>1, <2>2
<1>8. ASSUME NEW c \in Calls, NEW d \in Calls, CompletesTwo(c, d) PROVE DepthInv'
  <2> DEFINE s == Popped(stkm.calls)
  <2>1. stkm.calls # <<>> /\ s # <<>> /\ Moves(Popped(s), NoCall, "body")
    BY <1>8 DEF CompletesTwo
  <2>2. s \in Seq(Frames) /\ Len(s) = Len(stkm.calls) - 1
    BY <1>6, <2>1
  <2> HIDE DEF s
  <2>3. Len(Popped(s)) = Len(s) - 1
    BY <2>1, <2>2, PoppedCalls
  <2>4. Len(Popped(s)) <= MaxDepth
    BY <1>0, <2>2, <2>3 DEF DepthOK
  <2>5. QED
    BY <1>3, <2>1, <2>4
<1>9. CASE Ends \/ Goes \/ GivesUp
  <2>1. \E phase : Moves(stkm.calls, stkm.callee, phase)
    BY <1>0, <1>9, WorkFields DEF Goes, GivesUp, Ends
  <2>2. QED
    BY <1>0, <1>3, <2>1 DEF DepthOK
<1>10. CASE Pops
  <2>1. stkm.calls # <<>> /\ Moves(Popped(stkm.calls), Top(stkm).callee, Top(stkm).phase)
    BY <1>10 DEF Pops
  <2>2. Len(Popped(stkm.calls)) < MaxDepth
    BY <1>0, <1>6, <2>1 DEF DepthOK
  <2>3. Len(Popped(stkm.calls)) <= MaxDepth
    BY <1>0, <1>6, <2>1, <2>2
  <2>4. QED
    BY <1>3, <2>1, <2>2, <2>3
<1>11. CASE Pushes
  <2> DEFINE f == [call |-> NoCall, phase |-> stkm.phase, callee |-> stkm.callee]
  <2>1. f \in Frames
    BY <1>0 DEF Evaluators, Frames, PhaseMatchesCallee
  <2>2. Moves(Append(stkm.calls, f), NoCall, "body") /\ Len(stkm.calls) < MaxDepth
    BY <1>11 DEF Pushes
  <2> HIDE DEF f
  <2>3. Len(Append(stkm.calls, f)) = Len(stkm.calls) + 1
    BY <1>0, <2>1, PushedCalls
  <2>4. Len(Append(stkm.calls, f)) <= MaxDepth
    BY <1>0, <2>2, <2>3
  <2>5. QED
    BY <1>3, <2>2, <2>4
<1>12. CASE Resets
  <2>1. \A t \in Live' : EvaluatorOf(t)' = stkm'
    BY <1>12 DEF Resets, Live, EvaluatorOf
  <2>2. NoCalls(stkm')
    BY <1>12 DEF Resets, Fresh, NoCalls
  <2>3. \A t \in Live' : DepthOK(EvaluatorOf(t)')
    BY <1>1, <2>1, <2>2
  <2>4. QED
    BY <2>3 DEF DepthInv, DepthOK
<1>13. CASE Starts \/ Stops \/ Switches \/ Selects
  BY <1>2, <1>13, CarryingKinds
<1>14. QED
  BY <1>4, <1>5, <1>7, <1>8, <1>9, <1>10, <1>11, <1>12, <1>13 DEF WorkKinds

\* A step never lowers the surplus of the counters.
LEMMA NothingIsMissed ==
  ASSUME TypeOK, TypeOK', DepthInv, WorkKinds, ~Resets, NEW c \in Calls
  PROVE  \E a, w \in Nat : Adds(c, a, w)
<1>0. 0 \in Nat /\ (\A b : Bit(b) \in Nat) /\ (\A b, d : Bit(b) + Bit(d) \in Nat)
  BY DEF Bit
<1>1. ASSUME NEW d \in Calls, Requests(d) \/ Activates(d) \/ Completes(d)
      PROVE  \E a, w \in Nat : Adds(c, a, w)
  BY <1>0, <1>1, RequestAdds, ActivationAdds, CompletionAdds
<1>2. ASSUME NEW d \in Calls, NEW e \in Calls, CompletesTwo(d, e)
      PROVE  \E a, w \in Nat : Adds(c, a, w)
  BY <1>0, <1>2, CompletionsAdd
<1>3. CASE Ends \/ Goes \/ GivesUp
  BY <1>0, <1>3, GoingAdds
<1>4. CASE Starts \/ Stops \/ Switches \/ Selects
  BY <1>4, CarryingKinds, CarryingAdds
<1>5. CASE Pops \/ Pushes
  BY <1>0, <1>5, PopAdds, PushAdds
<1>6. QED
  BY <1>1, <1>2, <1>3, <1>4, <1>5 DEF WorkKinds

Exact == \A c \in Calls : MoreActive(c) = 0 /\ MoreWaiting(c) = 0
Enough == \A c \in Calls : MoreActive(c) \in Nat /\ MoreWaiting(c) \in Nat

LEMMA CountersMean ==
  ASSUME TypeOK
  PROVE  /\ Enough <=> HistoryNeverUndercounts
         /\ Exact <=> HistoryIsExact
<1>1. EvalsFacts /\ hist \in HistoryType
  BY EvalsAreCounted DEF TypeOK, HistoryType
<1>2. \A c \in Calls : /\ Cardinality(ActiveCalls(c)) \in Nat /\ Cardinality(WaitingCalls(c)) \in Nat
                       /\ active(hist, c, c.op) \in Int /\ Requested(hist, c) \in Int
  BY <1>1, PairsAreCounted, HistoryCounts DEF EvalsFacts
<1>3. \A c \in Calls :
        /\ MoreActive(c) = active(hist, c, c.op) - Cardinality(ActiveCalls(c))
        /\ MoreWaiting(c) = Requested(hist, c) - Cardinality(WaitingCalls(c))
        /\ Requested(hist, c) = hist[c.obj][c.op].req - hist[c.obj][c.op].act
  BY DEF MoreActive, MoreWaiting, Requested
<1>4. \A m, n \in Int : /\ m - n \in Nat <=> m >= n
                        /\ m - n = 0 <=> m = n
  OBVIOUS
<1>5. \A c \in Calls :
        /\ MoreActive(c) \in Nat <=> active(hist, c, c.op) >= Cardinality(ActiveCalls(c))
        /\ MoreActive(c) = 0 <=> active(hist, c, c.op) = Cardinality(ActiveCalls(c))
        /\ MoreWaiting(c) \in Nat <=> Requested(hist, c) >= Cardinality(WaitingCalls(c))
        /\ MoreWaiting(c) = 0 <=> Requested(hist, c) = Cardinality(WaitingCalls(c))
  BY <1>2, <1>3, <1>4
<1>6. Enough <=> HistoryNeverUndercounts
  BY <1>3, <1>5 DEF Enough, HistoryNeverUndercounts
<1>7. Exact <=> HistoryIsExact
  BY <1>3, <1>5 DEF Exact, HistoryIsExact
<1>8. QED
  BY <1>6, <1>7

Blank == threads = {DebugThread} /\ curthread = DebugThread /\ NoCalls(stkm) /\ hist = NoHistory

LEMMA BlankIsExact == Blank => Exact /\ Enough /\ DepthInv
<1> SUFFICES ASSUME Blank PROVE Exact /\ Enough /\ DepthInv
  OBVIOUS
<1>1. Live = {DebugThread} /\ EvaluatorOf(DebugThread) = stkm /\ NoCalls(stkm)
  BY DEF Blank, Live, EvaluatorOf
<1>2. \A c \in Calls : ActiveCalls(c) = {} /\ WaitingCalls(c) = {}
  BY <1>1, NoCallsIn DEF ActiveCalls, WaitingCalls, Live
<1>3. Cardinality({}) = 0
  BY FS_EmptySet
<1>4. \A c \in Calls : active(hist, c, c.op) = 0 /\ Requested(hist, c) = 0
  BY DEF Blank, NoHistory, active, Requested, Calls
<1>5. \A c \in Calls : MoreActive(c) = 0 /\ MoreWaiting(c) = 0
  BY <1>2, <1>3, <1>4 DEF MoreActive, MoreWaiting
<1>6. DepthInv
  <2>1. Len(<<>>) = 0 /\ MaxDepth \in Nat
    BY EmptySeq, SchdAssumption
  <2>2. QED
    BY <1>1, <2>1 DEF DepthInv, DepthOK, NoCalls
<1>7. QED
  BY <1>5, <1>6 DEF Exact, Enough

LEMMA NextBlankIsExact == Blank' => Exact' /\ Enough' /\ DepthInv'
  BY BlankIsExact, PTL

LEMMA ResetIsBlank == Resets => Blank'
  BY DEF Resets, Blank, Fresh, NoCalls

LEMMA InitIsBlank == Init => Blank
  BY DEF Init, InitState, Blank, NoCalls, InitEvaluatorStatus, NoHistory

LEMMA EnoughStep ==
  ASSUME TypeOK, TypeOK', IdsHandedOut, DepthInv, Enough, [Next]_vars
  PROVE  DepthInv' /\ Enough'
<1>1. WorkKinds
  BY StepKinds
<1>2. CASE Resets
  BY <1>2, ResetIsBlank, NextBlankIsExact
<1>3. CASE ~Resets
  <2>1. \A c \in Calls : \E a, w \in Nat : Adds(c, a, w)
    BY <1>1, <1>3, NothingIsMissed
  <2>2. \A c \in Calls : MoreActive(c)' \in Nat /\ MoreWaiting(c)' \in Nat
    BY <2>1 DEF Adds, Enough
  <2>3. Enough'
    BY <2>2 DEF Enough
  <2>4. QED
    BY <1>1, <2>3, DepthStep
<1>4. QED
  BY <1>2, <1>3

\* Stop statements and debugger commands drop evaluators together with their
\* calls, but the history counters never report less than what is going on:
\* #active is at least the number of calls on the threads' call stacks and
\* #waiting at least the number of requests under way (ExeGUARD, ExeAPPLY,
\* ExeRETURN, GotoTrapHandler), for every program and sequence of commands.
THEOREM CountersNeverUndercount == Spec => []HistoryNeverUndercounts
<1> DEFINE IInv == TypeOK /\ IdsHandedOut /\ OneRunningThread /\ DepthInv /\ Enough
<1>1. Init => IInv
  <2>1. Init => IdsHandedOut /\ OneRunningThread
    BY SchdAssumption
       DEF Init, InitState, ThreadInfo, IdsHandedOut, OneRunningThread, DebugThread, ThreadIds
  <2>2. QED
    BY <2>1, InitTypeOK, InitIsBlank, BlankIsExact
<1>2. IInv /\ [Next]_vars => IInv'
  BY NextTypeOK, OneRunningStep, EnoughStep
<1>3. IInv => HistoryNeverUndercounts
  BY CountersMean
<1>4. QED
  BY <1>1, <1>2, <1>3, PTL DEF Spec

LEMMA NothingPending ==
  ASSUME TypeOK, CommandInv, session = "running"
  PROVE  /\ \A i \in 1 .. Len(stkm.calls) : stkm.calls[i].callee = NoCall
         /\ curthread = DebugThread /\ stkm.phase = "end" /\ stkm.calls # <<>> => Top(stkm).call = NoCall
         /\ curthread # DebugThread /\ stkm.phase = "end" => NoCalls(stkm)
<1>1. /\ curthread \in threads
      /\ curthread # DebugThread => ThreadCode(stkm)
      /\ curthread = DebugThread => CommandCode(stkm)
  BY DEF CommandInv, Evaluates, EvaluatorOf
<1>2. stkm.phase = "end" => stkm.callee = NoCall
  BY WorkFields DEF TypeOK
<1>3. QED
  BY <1>1, <1>2 DEF ThreadCode, CommandCode, NoCalls, Top

LEMMA AllCarried ==
  ASSUME Undisturbed, TypeOK, CommandInv, Starts \/ Switches
  PROVE  AllCarriedOver
<1>1. CASE Starts
  <2>1. \A t \in Live : t \in Live' /\ SameCalls(EvaluatorOf(t)', EvaluatorOf(t))
    BY <1>1 DEF Starts, Live, SameCalls, SameWork, EvaluatorOf
  <2>2. QED
    BY <2>1 DEF AllCarriedOver
<1>2. CASE Switches
  <2>1. session = "running" /\ curthread \in threads /\ Live = threads
    BY <1>2 DEF Switches, CommandInv, Evaluates, Live
  <2>2. \A t \in threads' : t \in Live' /\ SameCalls(EvaluatorOf(t)', EvaluatorOf(t))
    BY <1>2 DEF Switches, Live, SameCalls, SameWork
  <2>3. ASSUME NEW t \in Live, t \notin threads' PROVE NoCalls(EvaluatorOf(t))
    <3>1. t = curthread /\ curthread # DebugThread /\ stkm.phase = "end"
      BY <1>2, <2>1, <2>3 DEF Switches
    <3>2. NoCalls(stkm)
      BY <2>1, <3>1, NothingPending
    <3>3. QED
      BY <3>1, <3>2 DEF EvaluatorOf
  <2>4. QED
    BY <2>2, <2>3 DEF AllCarriedOver
<1>3. QED
  BY <1>1, <1>2

\* Without stop statements and without commands given while another one is
\* interrupted, the surplus of the counters stays as it is.
LEMMA NothingIsLost ==
  ASSUME Undisturbed, TypeOK, TypeOK', CommandInv, DepthInv, WorkKinds, ~Resets, NEW c \in Calls
  PROVE  Adds(c, 0, 0)
<1>0. NoCall # c /\ Bit(NoCall = c) = 0 /\ stkm \in Evaluators /\ stkm.calls \in Seq(Frames)
  BY SchdAssumption, EvaluatorType DEF Bit, TypeOK
<1>1. ASSUME NEW d \in Calls, Requests(d) PROVE Adds(c, 0, 0)
  BY <1>1, RequestAdds
<1>2. ASSUME NEW d \in Calls, Activates(d) PROVE Adds(c, 0, 0)
  BY <1>2, ActivationAdds
<1>3. ASSUME NEW d \in Calls, Completes(d) PROVE Adds(c, 0, 0)
  <2>1. stkm.calls # <<>> /\ session = "running"
    BY <1>3 DEF Completes
  <2>2. Len(stkm.calls) \in 1 .. Len(stkm.calls)
    BY <1>0, <2>1, PoppedCalls
  <2>3. Top(stkm).callee = NoCall
    BY <2>1, <2>2, NothingPending DEF Top
  <2>4. QED
    BY <1>0, <1>3, <2>3, CompletionAdds
<1>4. ASSUME NEW d \in Calls, NEW e \in Calls, CompletesTwo(d, e) PROVE Adds(c, 0, 0)
  <2> DEFINE s == Popped(stkm.calls)
             n == Len(stkm.calls)
  <2>1. stkm.calls # <<>> /\ s # <<>> /\ session = "running"
    BY <1>4 DEF CompletesTwo
  <2>2. /\ n \in Nat \ {0} /\ s \in Seq(Frames) /\ Len(s) = n - 1
        /\ \A i \in 1 .. n - 1 : s[i] = stkm.calls[i]
    BY <1>0, <2>1, PoppedCalls
  <2>3. Len(s) \in Nat \ {0}
    BY <2>1, <2>2, PoppedCalls
  <2>4. PopFrame(stkm).calls = s
    BY <1>0, WorkFields
  <2> HIDE DEF s
  <2>5. n \in 1 .. n /\ n - 1 \in 1 .. n - 1 /\ n - 1 \in 1 .. n
    <3>1. n \in Nat \ {0} /\ n - 1 \in Nat \ {0}
      BY <2>2, <2>3
    <3> HIDE DEF n
    <3>2. QED
      BY <3>1
  <2>6. Top(PopFrame(stkm)) = stkm.calls[n - 1] /\ Top(stkm) = stkm.calls[n]
    BY <2>2, <2>4, <2>5 DEF Top
  <2>7. Top(PopFrame(stkm)).callee = NoCall /\ Top(stkm).callee = NoCall
    BY <2>1, <2>5, <2>6, NothingPending
  <2>8. Bit(NoCall = c) + Bit(NoCall = c) = 0
    BY <1>0
  <2>9. QED
    BY <1>4, <2>7, <2>8, CompletionsAdd
<1>5. CASE Ends \/ Goes \/ GivesUp
  BY <1>5, GoingAdds
<1>6. CASE Starts \/ Switches
  BY <1>6, CarryingKinds, CarryingAdds, AllCarried
<1>7. ~Stops /\ ~Selects
  BY DEF Undisturbed, Stops, Selects
<1>8. CASE Pops
  <2>1. Top(stkm).call = NoCall
    BY <1>8, NothingPending DEF Pops
  <2>2. QED
    BY <1>0, <1>8, <2>1, PopAdds
<1>9. CASE Pushes
  BY <1>9, PushAdds
<1>10. QED
  BY <1>1, <1>2, <1>3, <1>4, <1>5, <1>6, <1>7, <1>8, <1>9 DEF WorkKinds

LEMMA ExactStep ==
  ASSUME Undisturbed, TypeOK, TypeOK', IdsHandedOut, CommandInv, DepthInv, Exact, [Next]_vars
  PROVE  Exact'
<1>1. WorkKinds
  BY StepKinds
<1>2. CASE Resets
  BY <1>2, ResetIsBlank, NextBlankIsExact
<1>3. CASE ~Resets
  <2>1. \A c \in Calls : Adds(c, 0, 0)
    BY <1>1, <1>3, NothingIsLost
  <2>2. \A c \in Calls : MoreActive(c)' = 0 /\ MoreWaiting(c)' = 0
    BY <2>1 DEF Adds, Exact
  <2>3. QED
    BY <2>2 DEF Exact
<1>4. QED
  BY <1>2, <1>3

\* The history counters tell the truth, whatever the slices, the priorities and
\* the exits from several operations at once, for every program without stop
\* statements whose evaluation the user does not disturb: #active is the number
\* of calls on the threads' call stacks, #waiting that of the requests under way.
THEOREM CountersAreExact ==
  ASSUME Undisturbed
  PROVE  Spec => []HistoryIsExact
<1> DEFINE IInv == /\ TypeOK /\ IdsHandedOut /\ OneRunningThread
                   /\ CommandInv /\ DepthInv /\ Enough /\ Exact
<1>1. Init => IInv
  <2>1. Init => IdsHandedOut /\ OneRunningThread
    BY SchdAssumption
       DEF Init, InitState, ThreadInfo, IdsHandedOut, OneRunningThread, DebugThread, ThreadIds
  <2>2. Init => CommandInv
    BY DEF Init, InitState, CommandInv, NoCommand, InitEvaluatorStatus
  <2>3. QED
    BY <2>1, <2>2, InitTypeOK, InitIsBlank, BlankIsExact
<1>2. IInv /\ [Next]_vars => IInv'
  BY NextTypeOK, OneRunningStep, CommandStep, EnoughStep, ExactStep
<1>3. IInv => HistoryIsExact
  BY CountersMean
<1>4. QED
  BY <1>1, <1>2, <1>3, PTL DEF Spec
=============================================================================
