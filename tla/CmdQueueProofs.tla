--------------------------- MODULE CmdQueueProofs ---------------------------
(***************************************************************************)
(* Unless a wait returns without a signal the API command queue implements *)
(* request and response, for any number of clients: the queue's lock, held *)
(* from the storing of a command to the taking of its result, and          *)
(* MUTEX_METHOD, held until the exception has been read, give every call   *)
(* the fields all calls share.                                             *)
(***************************************************************************)
EXTENDS CmdQueue, TLAPS

\* A thread that is in EnqueueCommand or EnqueueStringCommand, the queue locked.
HoldsQueue == {"enqueued", "locked", "signalled", "waiting", "collect"}

Locks ==
  /\ \A t \in Threads : queueLock = t <=> pc[t] \in HoldsQueue
  /\ \A t \in Threads : commandLock = t <=> pc[t] \in {"locked", "signalled"}
  /\ \A t \in Clients : methodLock = t <=> pc[t] # "idle"
  /\ commandLock = Main <=> mainPc \in {"execute", "command"}
  /\ \A t \in waiters : pc[t] = "waiting"
  /\ pc[InputThread] # "throwing"
  /\ pc[InputThread] # "idle" => console

\* A stored command is that of the call that holds the queue, and it has not
\* been woken up.
Slots ==
  /\ currentCommand # None => queueLock = currentCommand
  /\ currentStringCommand # None => queueLock = currentStringCommand
  /\ \A t \in Threads : InQueue(t) => pc[t] \in {"enqueued", "locked", "signalled"} \/ t \in waiters

\* What the executing thread knows.
Execution ==
  /\ mainPc \in {"acquire", "execute", "command"}
       => currentCommand # None \/ currentStringCommand # None
  /\ mainPc = "command" => currentStringCommand = None /\ exceptionType = "NONE"
  /\ mainPc = "signal" =>
       /\ currentCommand = None /\ currentStringCommand = None
       /\ queueLock \in Threads
       /\ pc[queueLock] \in {"enqueued", "locked", "signalled"} \/ queueLock \in waiters
  /\ mainPc # "aborted"
  /\ quit => console /\ mainPc \in {"signal", "loop", "exited"}

\* The result and the exception are those of the call that is to read them.
Results ==
  /\ result # None =>
       /\ currentCommand = None /\ currentStringCommand = None
       /\ queueLock \in Threads /\ result \in PossibleOutcomes(queueLock)
       /\ queueLock \in Clients => exceptionType = "NONE"
  /\ \A t \in Clients : pc[t] = "throwing" => exceptionType # "NONE"
  /\ \A t \in Clients :
       CallState(t) = "executed" /\ exceptionType # "NONE" => exceptionOf = t

QueueInv == TypeOK /\ Locks /\ Slots /\ Execution /\ Results

-----------------------------------------------------------------------------
(* The outcomes.                                                             *)

LEMMA ThreadFacts ==
  /\ Clients \subseteq Threads
  /\ Main \notin Threads /\ None \notin Threads /\ None # Main
  /\ \A t \in Threads : t \in Clients <=> t # InputThread
  /\ InputThread \in Threads
  /\ InputThread # None
BY CmdQueueAssumption DEF Threads

LEMMA OutcomeFacts ==
  /\ \A t \in Threads : PossibleOutcomes(t) \subseteq AllOutcomes
  /\ None \notin AllOutcomes
  /\ \A t \in Threads : None \notin PossibleOutcomes(t)
  /\ \A c \in Clients : /\ Nil \in PossibleOutcomes(c)
                       /\ Outcome("value", c) \in PossibleOutcomes(c)
                       /\ Outcome("API", c) \in PossibleOutcomes(c)
                       /\ Outcome("VDM", c) \in PossibleOutcomes(c)
  /\ Outcome("continue", InputThread) \in PossibleOutcomes(InputThread)
  /\ Outcome("quit", InputThread) \in PossibleOutcomes(InputThread)
<1>1. \A t \in Threads : PossibleOutcomes(t) \subseteq AllOutcomes
  BY DEF AllOutcomes
<1>2. None \notin AllOutcomes
  BY NoneAssumption
<1>3. QED
  BY <1>1, <1>2, ThreadFacts DEF PossibleOutcomes

-----------------------------------------------------------------------------
(* The invariant.                                                            *)

LEMMA InitQueueInv == Init => QueueInv
<1> SUFFICES ASSUME Init PROVE QueueInv
  OBVIOUS
<1> USE ThreadFacts DEF Init
<1>1. TypeOK
  BY DEF TypeOK, ThreadPCs, MainPCs
<1>2. Locks /\ Slots /\ Execution /\ Results
  BY DEF Locks, Slots, Execution, Results, HoldsQueue, InQueue, CallState
<1>3. QED
  BY <1>1, <1>2 DEF QueueInv

LEMMA CallerStep ==
  ASSUME QueueInv, NEW t \in Threads, Call(t) \/ Step(t)
  PROVE  QueueInv'
<1> USE ThreadFacts, OutcomeFacts
    DEF QueueInv, callVars, lockVars, commandVars, resultVars, mainVars, modeVars, Goto
<1>1. CASE Call(t)
  <2>1. TypeOK'
    BY <1>1 DEF Call, TypeOK, ThreadPCs, MainPCs
  <2>2. Locks'
    BY <1>1 DEF Call, TypeOK, Locks, HoldsQueue
  <2>3. Slots'
    BY <1>1 DEF Call, TypeOK, Locks, Slots, HoldsQueue, InQueue
  <2>4. Execution'
    BY <1>1 DEF Call, TypeOK, Locks, Slots, Execution, HoldsQueue
  <2>5. Results'
    BY <1>1 DEF Call, TypeOK, Locks, Slots, Results, HoldsQueue, InQueue, CallState
  <2>6. QED
    BY <2>1, <2>2, <2>3, <2>4, <2>5
<1>2. CASE Enqueue(t)
  <2>0. currentCommand = None /\ currentStringCommand = None /\ mainPc' = mainPc
    BY <1>2 DEF Enqueue, TypeOK, Slots, Slot
  <2>1. TypeOK'
    BY <1>2 DEF Enqueue, TypeOK, ThreadPCs, MainPCs
  <2>2. Locks'
    BY <1>2, <2>0 DEF Enqueue, TypeOK, Locks, HoldsQueue
  <2>3. Slots'
    BY <1>2, <2>0 DEF Enqueue, TypeOK, Locks, Slots, HoldsQueue, InQueue
  <2>4. Execution'
    BY <1>2, <2>0 DEF Enqueue, TypeOK, Locks, Slots, Execution, HoldsQueue
  <2>5. Results'
    <3>1. result' = None /\ exceptionType' = exceptionType /\ exceptionOf' = exceptionOf
      BY <1>2 DEF Enqueue, Results
    <3>2. pc' = [pc EXCEPT ![t] = "enqueued"] /\ pc \in [Threads -> ThreadPCs]
      BY <1>2 DEF Enqueue, TypeOK
    <3>3. ASSUME NEW u \in Clients, u # t
          PROVE  pc'[u] = pc[u] /\ CallState(u)' = CallState(u)
      BY <1>2, <2>0, <3>2, <3>3 DEF Enqueue, InQueue, CallState
    <3>4. t \in Clients => CallState(t)' = "requested" /\ pc'[t] = "enqueued"
      BY <1>2, <2>0, <3>2 DEF Enqueue, InQueue, CallState, Slot
    <3>5. QED
      BY <3>1, <3>3, <3>4 DEF Results
  <2>6. QED
    BY <2>1, <2>2, <2>3, <2>4, <2>5
<1>3. CASE LockCommand(t)
  <2>1. TypeOK'
    BY <1>3 DEF LockCommand, TypeOK, ThreadPCs, MainPCs
  <2>2. Locks'
    BY <1>3 DEF LockCommand, TypeOK, Locks, HoldsQueue
  <2>3. Slots'
    BY <1>3 DEF LockCommand, TypeOK, Locks, Slots, HoldsQueue, InQueue
  <2>4. Execution'
    BY <1>3 DEF LockCommand, TypeOK, Locks, Slots, Execution, HoldsQueue
  <2>5. Results'
    BY <1>3 DEF LockCommand, TypeOK, Locks, Slots, Results, HoldsQueue, InQueue, CallState
  <2>6. QED
    BY <2>1, <2>2, <2>3, <2>4, <2>5
<1>4. CASE SignalCommand(t)
  <2>1. TypeOK'
    BY <1>4 DEF SignalCommand, TypeOK, ThreadPCs, MainPCs
  <2>2. Locks'
    BY <1>4 DEF SignalCommand, TypeOK, Locks, HoldsQueue
  <2>3. Slots'
    BY <1>4 DEF SignalCommand, TypeOK, Locks, Slots, HoldsQueue, InQueue
  <2>4. Execution'
    BY <1>4 DEF SignalCommand, TypeOK, Locks, Slots, Execution, HoldsQueue
  <2>5. Results'
    BY <1>4 DEF SignalCommand, TypeOK, Locks, Slots, Results, HoldsQueue, InQueue, CallState
  <2>6. QED
    BY <2>1, <2>2, <2>3, <2>4, <2>5
<1>5. CASE WaitAnswer(t)
  <2>1. TypeOK'
    BY <1>5 DEF WaitAnswer, TypeOK, ThreadPCs, MainPCs
  <2>2. Locks'
    BY <1>5 DEF WaitAnswer, TypeOK, Locks, HoldsQueue
  <2>3. Slots'
    BY <1>5 DEF WaitAnswer, TypeOK, Locks, Slots, HoldsQueue, InQueue
  <2>4. Execution'
    BY <1>5 DEF WaitAnswer, TypeOK, Locks, Slots, Execution, HoldsQueue
  <2>5. Results'
    BY <1>5 DEF WaitAnswer, TypeOK, Locks, Slots, Results, HoldsQueue, InQueue, CallState
  <2>6. QED
    BY <2>1, <2>2, <2>3, <2>4, <2>5
<1>6. CASE WakeUp(t)
  <2>1. TypeOK'
    BY <1>6 DEF WakeUp, TypeOK, ThreadPCs, MainPCs
  <2>2. Locks'
    BY <1>6 DEF WakeUp, TypeOK, Locks, HoldsQueue
  <2>3. Slots'
    BY <1>6 DEF WakeUp, TypeOK, Locks, Slots, HoldsQueue, InQueue
  <2>4. Execution'
    BY <1>6 DEF WakeUp, TypeOK, Locks, Slots, Execution, HoldsQueue
  <2>5. Results'
    BY <1>6 DEF WakeUp, TypeOK, Locks, Slots, Results, HoldsQueue, InQueue, CallState
  <2>6. QED
    BY <2>1, <2>2, <2>3, <2>4, <2>5
<1>7. CASE Collect(t)
  <2>1. TypeOK'
    BY <1>7 DEF Collect, TypeOK, ThreadPCs, MainPCs
  <2>2. Locks'
    BY <1>7 DEF Collect, TypeOK, Locks, HoldsQueue
  <2>3. Slots'
    BY <1>7 DEF Collect, TypeOK, Locks, Slots, HoldsQueue, InQueue
  <2>4. Execution'
    BY <1>7 DEF Collect, TypeOK, Locks, Slots, Execution, HoldsQueue
  <2>5. Results'
    BY <1>7 DEF Collect, TypeOK, Locks, Slots, Results, HoldsQueue, InQueue, CallState
  <2>6. QED
    BY <2>1, <2>2, <2>3, <2>4, <2>5
<1>8. CASE Rethrow(t)
  <2>0. t \in Clients /\ exceptionType # "NONE" /\ exceptionOf = t
    BY <1>8 DEF Rethrow, Locks, Slots, Results, CallState, TypeOK, InQueue, HoldsQueue
  <2>1. TypeOK'
    BY <1>8, <2>0 DEF Rethrow, TypeOK, ThreadPCs, MainPCs
  <2>2. Locks'
    BY <1>8 DEF Rethrow, TypeOK, Locks, HoldsQueue
  <2>3. Slots'
    BY <1>8 DEF Rethrow, TypeOK, Locks, Slots, HoldsQueue, InQueue
  <2>4. Execution'
    BY <1>8 DEF Rethrow, TypeOK, Locks, Slots, Execution, HoldsQueue
  <2>5. Results'
    BY <1>8 DEF Rethrow, TypeOK, Locks, Slots, Results, HoldsQueue, InQueue, CallState
  <2>6. QED
    BY <2>1, <2>2, <2>3, <2>4, <2>5
<1>9. CASE Leave(t)
  <2>1. TypeOK'
    BY <1>9 DEF Leave, TypeOK, ThreadPCs, MainPCs
  <2>2. Locks'
    BY <1>9 DEF Leave, TypeOK, Locks, HoldsQueue
  <2>3. Slots'
    BY <1>9 DEF Leave, TypeOK, Locks, Slots, HoldsQueue, InQueue
  <2>4. Execution'
    BY <1>9 DEF Leave, TypeOK, Locks, Slots, Execution, HoldsQueue
  <2>5. Results'
    BY <1>9 DEF Leave, TypeOK, Locks, Slots, Results, HoldsQueue, InQueue, CallState
  <2>6. QED
    BY <2>1, <2>2, <2>3, <2>4, <2>5
<1>10. QED
  BY <1>1, <1>2, <1>3, <1>4, <1>5, <1>6, <1>7, <1>8, <1>9 DEF Step

LEMMA ExecutorStep ==
  ASSUME QueueInv, MainStep
  PROVE  QueueInv'
<1> USE ThreadFacts, OutcomeFacts
    DEF QueueInv, callVars, lockVars, commandVars, resultVars, mainVars, modeVars, MainGoto
<1>1. CASE WaitForCommand
  <2>1. TypeOK'
    BY <1>1 DEF WaitForCommand, TypeOK, ThreadPCs, MainPCs
  <2>2. Locks'
    BY <1>1 DEF WaitForCommand, TypeOK, Locks, HoldsQueue
  <2>3. Slots'
    BY <1>1 DEF WaitForCommand, TypeOK, Locks, Slots, HoldsQueue, InQueue
  <2>4. Execution'
    BY <1>1 DEF WaitForCommand, TypeOK, Locks, Slots, Execution, HoldsQueue
  <2>5. Results'
    BY <1>1 DEF WaitForCommand, TypeOK, Locks, Slots, Execution, Results, HoldsQueue, InQueue, CallState
  <2>6. QED
    BY <2>1, <2>2, <2>3, <2>4, <2>5
<1>2. CASE Poll
  <2>1. TypeOK'
    BY <1>2 DEF Poll, TypeOK, ThreadPCs, MainPCs
  <2>2. Locks'
    BY <1>2 DEF Poll, TypeOK, Locks, HoldsQueue
  <2>3. Slots'
    BY <1>2 DEF Poll, TypeOK, Locks, Slots, HoldsQueue, InQueue
  <2>4. Execution'
    BY <1>2 DEF Poll, TypeOK, Locks, Slots, Execution, HoldsQueue
  <2>5. Results'
    BY <1>2 DEF Poll, TypeOK, Locks, Slots, Execution, Results, HoldsQueue, InQueue, CallState
  <2>6. QED
    BY <2>1, <2>2, <2>3, <2>4, <2>5
<1>3. CASE Check
  <2>1. TypeOK'
    BY <1>3 DEF Check, TypeOK, ThreadPCs, MainPCs
  <2>2. Locks'
    BY <1>3 DEF Check, TypeOK, Locks, HoldsQueue
  <2>3. Slots'
    BY <1>3 DEF Check, TypeOK, Locks, Slots, HoldsQueue, InQueue
  <2>4. Execution'
    BY <1>3 DEF Check, TypeOK, Locks, Slots, Execution, HoldsQueue
  <2>5. Results'
    BY <1>3 DEF Check, TypeOK, Locks, Slots, Execution, Results, HoldsQueue, InQueue, CallState
  <2>6. QED
    BY <2>1, <2>2, <2>3, <2>4, <2>5
<1>4. CASE AcquireCommand
  <2>1. TypeOK'
    BY <1>4 DEF AcquireCommand, TypeOK, ThreadPCs, MainPCs
  <2>2. Locks'
    BY <1>4 DEF AcquireCommand, TypeOK, Locks, HoldsQueue
  <2>3. Slots'
    BY <1>4 DEF AcquireCommand, TypeOK, Locks, Slots, HoldsQueue, InQueue
  <2>4. Execution'
    BY <1>4 DEF AcquireCommand, TypeOK, Locks, Slots, Execution, HoldsQueue
  <2>5. Results'
    BY <1>4 DEF AcquireCommand, TypeOK, Locks, Slots, Execution, Results, HoldsQueue, InQueue, CallState
  <2>6. QED
    BY <2>1, <2>2, <2>3, <2>4, <2>5
<1>5. CASE ExecuteString
  <2>0. currentStringCommand = InputThread /\ InputThread \in Threads /\ currentCommand = None
    BY <1>5 DEF ExecuteString, TypeOK, Slots
  <2>1. TypeOK'
    BY <1>5, <2>0 DEF ExecuteString, TypeOK, ThreadPCs, MainPCs
  <2>2. Locks'
    BY <1>5 DEF ExecuteString, TypeOK, Locks, HoldsQueue
  <2>3. Slots'
    BY <1>5 DEF ExecuteString, TypeOK, Locks, Slots, HoldsQueue, InQueue
  <2>4. Execution'
    <3>0. pc[InputThread] # "idle"
      BY <1>5, <2>0 DEF ExecuteString, Slots, Locks, HoldsQueue
    <3>1. /\ queueLock = InputThread /\ InQueue(InputThread) /\ console
          /\ mainPc' = "signal" /\ currentStringCommand' = None
      BY <1>5, <2>0, <3>0 DEF ExecuteString, Slots, Locks, InQueue, MainGoto
    <3>2. pc[InputThread] \in {"enqueued", "locked", "signalled"} \/ InputThread \in waiters
      BY <2>0, <3>1 DEF Slots
    <3>3. QED
      BY <1>5, <2>0, <3>1, <3>2 DEF ExecuteString, Execution
  <2>5. Results'
    BY <1>5 DEF ExecuteString, TypeOK, Locks, Slots, Execution, Results, HoldsQueue, InQueue, CallState
  <2>6. QED
    BY <2>1, <2>2, <2>3, <2>4, <2>5
<1>6. CASE BeginCommand
  <2>1. TypeOK'
    BY <1>6 DEF BeginCommand, TypeOK, ThreadPCs, MainPCs
  <2>2. Locks'
    BY <1>6 DEF BeginCommand, TypeOK, Locks, HoldsQueue
  <2>3. Slots'
    BY <1>6 DEF BeginCommand, TypeOK, Locks, Slots, HoldsQueue, InQueue
  <2>4. Execution'
    BY <1>6 DEF BeginCommand, TypeOK, Locks, Slots, Execution, HoldsQueue
  <2>5. Results'
    BY <1>6 DEF BeginCommand, TypeOK, Locks, Slots, Execution, Results, HoldsQueue, InQueue, CallState
  <2>6. QED
    BY <2>1, <2>2, <2>3, <2>4, <2>5
<1>7. CASE FinishCommand
  <2>0. currentCommand \in Clients /\ currentStringCommand = None
    BY <1>7 DEF FinishCommand, TypeOK, Execution
  <2>1. TypeOK'
    BY <1>7, <2>0 DEF FinishCommand, CommandOutcome, TypeOK, ThreadPCs, MainPCs
  <2>2. Locks'
    BY <1>7 DEF FinishCommand, CommandOutcome, TypeOK, Locks, HoldsQueue
  <2>3. Slots'
    BY <1>7 DEF FinishCommand, CommandOutcome, TypeOK, Locks, Slots, HoldsQueue, InQueue
  <2>4. Execution'
    <3>1. /\ queueLock = currentCommand /\ InQueue(queueLock) /\ queueLock \in Threads
          /\ mainPc' = "signal" /\ currentCommand' = None
      BY <1>7, <2>0 DEF FinishCommand, Slots, InQueue
    <3>2. pc[queueLock] \in {"enqueued", "locked", "signalled"} \/ queueLock \in waiters
      BY <3>1 DEF Slots
    <3>3. QED
      BY <1>7, <2>0, <3>1, <3>2 DEF FinishCommand, Execution
  <2>5. Results'
    BY <1>7 DEF FinishCommand, CommandOutcome, TypeOK, Locks, Slots, Execution, Results, HoldsQueue, InQueue, CallState
  <2>6. QED
    BY <2>1, <2>2, <2>3, <2>4, <2>5
<1>8. CASE SignalDone
  <2>1. TypeOK'
    BY <1>8 DEF SignalDone, TypeOK, ThreadPCs, MainPCs
  <2>2. Locks'
    BY <1>8 DEF SignalDone, TypeOK, Locks, HoldsQueue
  <2>3. Slots'
    BY <1>8 DEF SignalDone, TypeOK, Execution, Slots, InQueue
  <2>4. Execution'
    BY <1>8 DEF SignalDone, TypeOK, Locks, Slots, Execution, HoldsQueue
  <2>5. Results'
    BY <1>8 DEF SignalDone, TypeOK, Locks, Slots, Execution, Results, HoldsQueue, InQueue, CallState
  <2>6. QED
    BY <2>1, <2>2, <2>3, <2>4, <2>5
<1>9. CASE Exit
  <2>1. TypeOK'
    BY <1>9 DEF Exit, TypeOK, ThreadPCs, MainPCs
  <2>2. Locks'
    BY <1>9 DEF Exit, TypeOK, Locks, HoldsQueue
  <2>3. Slots'
    BY <1>9 DEF Exit, TypeOK, Locks, Slots, HoldsQueue, InQueue
  <2>4. Execution'
    BY <1>9 DEF Exit, TypeOK, Locks, Slots, Execution, HoldsQueue
  <2>5. Results'
    BY <1>9 DEF Exit, TypeOK, Locks, Slots, Execution, Results, HoldsQueue, InQueue, CallState
  <2>6. QED
    BY <2>1, <2>2, <2>3, <2>4, <2>5
<1>10. QED
  BY <1>1, <1>2, <1>3, <1>4, <1>5, <1>6, <1>7, <1>8, <1>9 DEF MainStep

LEMMA QueueInvStep == QueueInv /\ [Next]_vars /\ ~glitch' => QueueInv'
<1> SUFFICES ASSUME QueueInv, [Next]_vars, ~glitch' PROVE QueueInv'
  OBVIOUS
<1>1. CASE MainStep
  BY <1>1, ExecutorStep
<1>2. ASSUME NEW t \in Threads, Call(t) \/ Step(t) PROVE QueueInv'
  BY <1>2, CallerStep
<1>3. CASE UNCHANGED vars
  BY <1>3 DEF QueueInv, TypeOK, Locks, Slots, Execution, Results, InQueue, CallState,
         vars, callVars, lockVars, commandVars, resultVars, mainVars, modeVars
<1>4. QED
  BY <1>1, <1>2, <1>3 DEF Next, SpuriousWakeup

LEMMA GlitchStep == [Next]_vars /\ ~glitch' => ~glitch
<1> SUFFICES ASSUME [Next]_vars PROVE glitch' = glitch \/ glitch' = TRUE
  OBVIOUS
<1> USE DEF callVars, lockVars, commandVars, resultVars, mainVars, modeVars
<1>1. CASE MainStep
  BY <1>1 DEF MainStep, WaitForCommand, Poll, Check, AcquireCommand, ExecuteString, BeginCommand,
              FinishCommand, SignalDone, Exit
<1>2. ASSUME NEW t \in Threads, Call(t) \/ Step(t) \/ SpuriousWakeup(t)
      PROVE  glitch' = glitch \/ glitch' = TRUE
  BY <1>2 DEF Call, SpuriousWakeup, Step, Enqueue, LockCommand, SignalCommand, WaitAnswer,
              WakeUp, Collect, Rethrow, Leave
<1>3. QED
  BY <1>1, <1>2 DEF Next, vars

\* Unless a wait has returned without a signal, the types and the ownership of
\* locks, commands and results are as QueueInv says, in every reachable state.
THEOREM QueueInvariant == Spec => [](~glitch => QueueInv)
<1>1. (~glitch => QueueInv) /\ [Next]_vars => (~glitch => QueueInv)'
  BY QueueInvStep, GlitchStep
<1>2. Init => QueueInv
  BY InitQueueInv
<1>3. QED
  BY <1>1, <1>2, PTL DEF Spec

\* Unless a wait has returned without a signal, the assertions of EnqueueCommand
\* and EnqueueStringCommand hold and no call finds another's result.
THEOREM EmptyWhenFree == Spec => []QueueIsEmptyWhenFree
<1>1. (~glitch => QueueInv) => QueueIsEmptyWhenFree
  BY ThreadFacts DEF QueueInv, TypeOK, Slots, Results, QueueIsEmptyWhenFree
<1>2. QED
  BY <1>1, QueueInvariant, PTL

\* Unless a wait has returned without a signal, EnqueueCommand does not go on
\* before its command has been executed.
THEOREM ReturnsAfterExecution == Spec => [](~glitch => ReturnsWhenExecuted)
<1>1. (~glitch => QueueInv) => (~glitch => ReturnsWhenExecuted)
  BY DEF QueueInv, Locks, Slots, ReturnsWhenExecuted
<1>2. QED
  BY <1>1, QueueInvariant, PTL

-----------------------------------------------------------------------------
(* The semaphore.                                                            *)

\* The call has signalled its command and has not been woken up.
Signalled(t) == pc[t] = "signalled" \/ t \in waiters

\* In console mode the semaphore and the executing thread share one token per
\* command: it is created when the caller signals, and spent when the executing
\* thread has signalled back.
SemaphoreInv ==
  /\ posts \in {0, 1}
  /\ posts = 1 => mainPc \in {"loop", "exited"}
  /\ posts = 1 \/ mainPc \in {"check", "acquire", "execute", "command", "signal"}
       => queueLock \in Threads /\ Signalled(queueLock)
  /\ posts = 1 \/ mainPc \in {"check", "acquire"} => InQueue(queueLock)
  /\ \A t \in Threads : pc[t] \in {"enqueued", "locked"} => InQueue(t)

LEMMA SemaphoreCaller ==
  ASSUME QueueInv, SemaphoreInv, console, NEW t \in Threads, Call(t) \/ Step(t)
  PROVE  SemaphoreInv'
<1> USE ThreadFacts
    DEF SemaphoreInv, Signalled, InQueue, callVars, lockVars, commandVars, resultVars,
        mainVars, modeVars, Goto
<1>0. /\ pc \in [Threads -> ThreadPCs]
      /\ queueLock = t <=> pc[t] \in HoldsQueue
      /\ t \in waiters => pc[t] = "waiting"
  BY DEF QueueInv, TypeOK, Locks
<1>1. CASE Call(t)
  BY <1>0, <1>1 DEF Call, HoldsQueue
<1>2. CASE Enqueue(t)
  <2>1. mainPc' = mainPc /\ InQueue(t)'
    BY <1>2 DEF Enqueue, QueueInv, TypeOK, Slots, Slot
  <2>2. posts = 0 /\ mainPc \notin {"check", "acquire", "execute", "command", "signal"}
    BY <1>2 DEF Enqueue
  <2>3. \A u \in Threads : pc'[u] \in {"enqueued", "locked"} => u = t
    BY <1>0, <1>2 DEF Enqueue, QueueInv, Locks, HoldsQueue
  <2>4. mainPc \in {"loop", "exited"}
    BY <2>2 DEF QueueInv, TypeOK, MainPCs, Execution
  <2>5. posts' = 0 /\ mainPc' \in {"loop", "exited"}
    BY <1>2, <2>1, <2>2, <2>4 DEF Enqueue
  <2>6. QED
    BY <2>1, <2>3, <2>5
<1>3. CASE LockCommand(t)
  BY <1>0, <1>3 DEF LockCommand, HoldsQueue
<1>4. CASE SignalCommand(t)
  <2>1. queueLock = t /\ ~Signalled(t)
    BY <1>0, <1>4 DEF SignalCommand, HoldsQueue
  <2>2. posts = 0 /\ mainPc \notin {"check", "acquire", "execute", "command", "signal"}
    BY <2>1
  <2>3. mainPc \in {"loop", "exited"}
    BY <2>2 DEF QueueInv, TypeOK, MainPCs, Execution
  <2>4. InQueue(t)
    BY <1>4 DEF SignalCommand
  <2>5. posts' = 1 /\ pc'[t] = "signalled"
    BY <1>0, <1>4, <2>2 DEF SignalCommand
  <2>6. QED
    BY <1>4, <2>1, <2>3, <2>4, <2>5 DEF SignalCommand
<1>5. CASE WaitAnswer(t)
  BY <1>0, <1>5 DEF WaitAnswer, HoldsQueue
<1>6. CASE WakeUp(t)
  BY <1>0, <1>6 DEF WakeUp, HoldsQueue
<1>7. CASE Collect(t)
  BY <1>0, <1>7 DEF Collect, HoldsQueue
<1>8. CASE Rethrow(t) \/ Leave(t)
  BY <1>0, <1>8 DEF Rethrow, Leave, HoldsQueue
<1>9. QED
  BY <1>1, <1>2, <1>3, <1>4, <1>5, <1>6, <1>7, <1>8 DEF Step

LEMMA SemaphoreExecutor ==
  ASSUME QueueInv, SemaphoreInv, console, MainStep
  PROVE  SemaphoreInv'
<1> USE ThreadFacts
    DEF SemaphoreInv, Signalled, InQueue, callVars, lockVars, commandVars, resultVars,
        mainVars, modeVars, MainGoto
<1>1. CASE WaitForCommand
  BY <1>1 DEF WaitForCommand
<1>2. CASE Poll \/ Exit
  BY <1>2 DEF Poll, Exit
<1>3. CASE Check
  BY <1>3 DEF Check
<1>4. CASE AcquireCommand
  BY <1>4 DEF AcquireCommand
<1>5. CASE ExecuteString
  <2>1. posts = 0 /\ queueLock \in Threads /\ Signalled(queueLock)
    BY <1>5 DEF ExecuteString
  <2>2. currentStringCommand = queueLock
    BY <1>5 DEF ExecuteString, QueueInv, Slots
  <2>3. \A t \in Threads : pc[t] \in {"enqueued", "locked"} => t = queueLock
    BY DEF QueueInv, Locks, HoldsQueue
  <2>4. pc[queueLock] \notin {"enqueued", "locked"}
    BY <2>1 DEF QueueInv, Locks
  <2>5. QED
    BY <1>5, <2>1, <2>3, <2>4 DEF ExecuteString
<1>6. CASE BeginCommand
  BY <1>6 DEF BeginCommand
<1>7. CASE FinishCommand
  <2>1. posts = 0 /\ queueLock \in Threads /\ Signalled(queueLock)
    BY <1>7 DEF FinishCommand
  <2>3. \A t \in Threads : pc[t] \in {"enqueued", "locked"} => t = queueLock
    BY DEF QueueInv, Locks, HoldsQueue
  <2>4. pc[queueLock] \notin {"enqueued", "locked"}
    BY <2>1 DEF QueueInv, Locks
  <2>5. QED
    BY <1>7, <2>1, <2>3, <2>4 DEF FinishCommand
<1>8. CASE SignalDone
  BY <1>8 DEF SignalDone
<1>9. QED
  BY <1>1, <1>2, <1>3, <1>4, <1>5, <1>6, <1>7, <1>8 DEF MainStep

LEMMA ConsoleStep == [Next]_vars => console' = console
<1> SUFFICES ASSUME [Next]_vars PROVE console' = console
  OBVIOUS
<1> USE DEF callVars, lockVars, commandVars, resultVars, mainVars, modeVars
<1>1. CASE MainStep
  BY <1>1 DEF MainStep, WaitForCommand, Poll, Check, AcquireCommand, ExecuteString, BeginCommand,
              FinishCommand, SignalDone, Exit
<1>2. ASSUME NEW t \in Threads, Call(t) \/ Step(t) \/ SpuriousWakeup(t)
      PROVE  console' = console
  BY <1>2 DEF Call, SpuriousWakeup, Step, Enqueue, LockCommand, SignalCommand, WaitAnswer,
              WakeUp, Collect, Rethrow, Leave
<1>3. QED
  BY <1>1, <1>2 DEF Next, vars

\* In console mode, until a wait returns without a signal, the semaphore's value is
\* the number of commands the main thread has not seen: WaitForCommand never wakes
\* it up for nothing, and no command waits behind a second one.
THEOREM PostsAreCommands == Spec => []PostMeansCommand
<1> DEFINE Inv == console /\ ~glitch => QueueInv /\ SemaphoreInv
<1>1. Init => Inv
  <2> SUFFICES ASSUME Init PROVE QueueInv /\ SemaphoreInv
    OBVIOUS
  <2>1. SemaphoreInv
    BY ThreadFacts DEF Init, SemaphoreInv, Signalled, InQueue
  <2>2. QED
    BY <2>1, InitQueueInv
<1>2. Inv /\ [Next]_vars => Inv'
  <2> SUFFICES ASSUME Inv, [Next]_vars, console', ~glitch' PROVE QueueInv' /\ SemaphoreInv'
    OBVIOUS
  <2>1. console /\ ~glitch /\ QueueInv /\ SemaphoreInv
    BY ConsoleStep, GlitchStep
  <2>2. QueueInv'
    BY <2>1, QueueInvStep
  <2>3. CASE MainStep
    BY <2>1, <2>2, <2>3, SemaphoreExecutor
  <2>4. ASSUME NEW t \in Threads, Call(t) \/ Step(t) PROVE SemaphoreInv'
    BY <2>1, <2>4, SemaphoreCaller
  <2>5. CASE UNCHANGED vars
    <3>1. UNCHANGED <<pc, queueLock, waiters, posts, mainPc, currentCommand, currentStringCommand>>
      BY <2>5 DEF vars, callVars, lockVars, commandVars, mainVars
    <3>2. QED
      BY <2>1, <2>2, <3>1 DEF SemaphoreInv, Signalled, InQueue
  <2>6. QED
    BY <2>2, <2>3, <2>4, <2>5 DEF Next, SpuriousWakeup
<1>3. Inv => PostMeansCommand
  <2> SUFFICES ASSUME console, ~glitch, SemaphoreInv PROVE PostMeansCommand
    BY DEF PostMeansCommand
  <2>1. posts + (IF mainPc \in {"check", "acquire"} THEN 1 ELSE 0) <= 1
    BY DEF SemaphoreInv
  <2>2. posts = 1 \/ mainPc = "check" => currentCommand # None \/ currentStringCommand # None
    BY ThreadFacts DEF SemaphoreInv, InQueue
  <2>3. QED
    BY <2>1, <2>2 DEF PostMeansCommand
<1>4. QED
  BY <1>1, <1>2, <1>3, PTL DEF Spec

-----------------------------------------------------------------------------
(* Refinement of RequestResponse.                                            *)

AbstractCall == [t \in Threads |-> CallState(t)]
AbstractOutcome == [t \in Threads |-> OutcomeOf(t)]

\* A step that no caller can tell.
LEMMA Stutter ==
  ASSUME \A u \in Threads : CallState(u)' = CallState(u) /\ OutcomeOf(u)' = OutcomeOf(u),
         answer' = answer, quit' = quit
  PROVE  UNCHANGED RR!vars
BY DEF RR!vars

LEMMA RequestStep ==
  ASSUME NEW t \in Threads, CallState(t) = "idle", CallState(t)' = "requested",
         \A u \in Threads \ {t} : CallState(u)' = CallState(u),
         \A u \in Threads : OutcomeOf(u)' = OutcomeOf(u),
         answer' = answer, quit' = quit
  PROVE  RR!Next
<1>1. RR!Request(t)
  BY DEF RR!Request
<1>2. QED
  BY <1>1 DEF RR!Next

LEMMA ExecuteStep ==
  ASSUME NEW t \in Threads, CallState(t) = "requested", CallState(t)' = "executed",
         \A u \in Threads \ {t} : CallState(u)' = CallState(u) /\ OutcomeOf(u)' = OutcomeOf(u),
         OutcomeOf(t)' \in PossibleOutcomes(t), ~quit,
         \/ OutcomeOf(t)' \in {Outcome("quit", u) : u \in Threads} /\ quit' = TRUE
         \/ OutcomeOf(t)' \notin {Outcome("quit", u) : u \in Threads} /\ quit' = FALSE,
         answer' = answer
  PROVE  RR!Next
<1>1. AbstractCall' = [AbstractCall EXCEPT ![t] = "executed"]
  BY DEF AbstractCall
<1>2. AbstractOutcome' = [AbstractOutcome EXCEPT ![t] = OutcomeOf(t)']
  BY DEF AbstractOutcome
<1> DEFINE quitting == OutcomeOf(t)' \in {Outcome("quit", u) : u \in Threads}
<1>3. quit' = quitting
  <2>1. quitting \in BOOLEAN /\ (quitting => quit' = TRUE) /\ (~quitting => quit' = FALSE)
    OBVIOUS
  <2> HIDE DEF quitting
  <2>2. QED
    BY <2>1
<1>4. RR!Execute(t)
  BY <1>1, <1>2, <1>3 DEF RR!Execute, AbstractCall, AbstractOutcome
<1>5. QED
  BY <1>4 DEF RR!Next

LEMMA ReturnStep ==
  ASSUME NEW t \in Threads, CallState(t) = "executed", CallState(t)' = "returned",
         \A u \in Threads \ {t} : CallState(u)' = CallState(u) /\ OutcomeOf(u)' = OutcomeOf(u),
         OutcomeOf(t)' = None, answer' = [answer EXCEPT ![t] = OutcomeOf(t)], quit' = quit
  PROVE  RR!Next
<1>1. RR!Return(t)
  BY DEF RR!Return
<1>2. QED
  BY <1>1 DEF RR!Next

LEMMA GoOnStep ==
  ASSUME NEW t \in Threads, CallState(t) = "returned", CallState(t)' = "idle",
         \A u \in Threads \ {t} : CallState(u)' = CallState(u),
         \A u \in Threads : OutcomeOf(u)' = OutcomeOf(u),
         answer' = [answer EXCEPT ![t] = None], quit' = quit
  PROVE  RR!Next
<1>1. RR!GoOn(t)
  BY DEF RR!GoOn
<1>2. QED
  BY <1>1 DEF RR!Next

\* Nobody else has an outcome to collect while a command is executed.
LEMMA OneAtATime ==
  ASSUME QueueInv, NEW c \in Threads, InQueue(c), NEW u \in Threads
  PROVE  /\ CallState(c) = "requested"
         /\ CallState(u) = "executed" => pc[u] = "throwing" /\ u \in Clients
         /\ c \in Clients => CallState(u) # "executed"
<1> USE ThreadFacts DEF QueueInv, InQueue, CallState, HoldsQueue, TypeOK, ThreadPCs
<1>1. queueLock = c /\ pc[c] \in HoldsQueue
  BY DEF Slots, Locks
<1>2. CallState(c) = "requested"
  BY <1>1
<1>3. CallState(u) = "executed" => pc[u] = "throwing" /\ u \in Clients
  BY <1>1, <1>2 DEF Locks
<1>4. c \in Clients => CallState(u) # "executed"
  BY <1>1, <1>2, <1>3 DEF Locks
<1>5. QED
  BY <1>2, <1>3, <1>4

LEMMA RefinesInit == Init => RR!Init
BY ThreadFacts DEF Init, RR!Init, CallState, OutcomeOf

LEMMA RefinesCaller ==
  ASSUME QueueInv, NEW t \in Threads, Call(t) \/ Step(t)
  PROVE  [RR!Next]_(RR!vars)
<1> USE ThreadFacts DEF callVars, lockVars, commandVars, resultVars, mainVars, modeVars, Goto
<1>0. pc \in [Threads -> ThreadPCs] /\ answer \in [Threads -> AllOutcomes \cup {None, Freed}]
  BY DEF QueueInv, TypeOK
<1>1. CASE Call(t) \/ LockCommand(t) \/ SignalCommand(t) \/ WaitAnswer(t) \/ WakeUp(t)
  <2>1. ASSUME NEW u \in Threads PROVE CallState(u)' = CallState(u)
    BY <1>0, <1>1 DEF Call, LockCommand, SignalCommand, WaitAnswer, WakeUp, CallState, InQueue
  <2>2. ASSUME NEW u \in Threads PROVE OutcomeOf(u)' = OutcomeOf(u)
    BY <1>1, <2>1 DEF Call, LockCommand, SignalCommand, WaitAnswer, WakeUp, OutcomeOf
  <2>3. answer' = answer /\ quit' = quit
    BY <1>1 DEF Call, LockCommand, SignalCommand, WaitAnswer, WakeUp
  <2>4. QED
    BY <2>1, <2>2, <2>3, Stutter
<1>2. CASE Enqueue(t)
  <2>1. currentCommand = None /\ currentStringCommand = None
    BY <1>2 DEF Enqueue, QueueInv, TypeOK, Slots
  <2>2. CallState(t) = "idle" /\ CallState(t)' = "requested"
    BY <1>0, <1>2, <2>1 DEF Enqueue, CallState, InQueue, Slot
  <2>3. ASSUME NEW u \in Threads \ {t} PROVE CallState(u)' = CallState(u)
    BY <1>0, <1>2, <2>1 DEF Enqueue, CallState, InQueue, Slot
  <2>4. ASSUME NEW u \in Threads PROVE OutcomeOf(u)' = OutcomeOf(u)
    BY <1>2, <2>2, <2>3 DEF Enqueue, OutcomeOf
  <2>5. QED
    BY <1>2, <2>2, <2>3, <2>4, RequestStep DEF Enqueue
<1>3. CASE Collect(t)
  <2>1. pc[t] = "collect" /\ CallState(t) = "executed"
    BY <1>3 DEF Collect, QueueInv, Locks, Slots, CallState
  <2>2. ASSUME NEW u \in Threads \ {t} PROVE CallState(u)' = CallState(u)
    BY <1>0, <1>3 DEF Collect, CallState, InQueue
  <2>3. ASSUME NEW u \in Threads \ {t}, CallState(u) = "executed"
        PROVE  u \in Clients /\ exceptionType # "NONE"
    BY <1>0, <2>1, <2>3 DEF QueueInv, Locks, Results, CallState, HoldsQueue, ThreadPCs
  <2>4. ASSUME NEW u \in Threads \ {t} PROVE OutcomeOf(u)' = OutcomeOf(u)
    BY <1>3, <2>2, <2>3 DEF Collect, OutcomeOf
  <2>5. CASE t # InputThread /\ exceptionType # "NONE"
    <3>1. CallState(t)' = CallState(t)
      BY <1>0, <1>3, <2>1, <2>5 DEF Collect, CallState, InQueue
    <3>2. OutcomeOf(t)' = OutcomeOf(t)
      BY <1>3, <2>5, <3>1 DEF Collect, OutcomeOf
    <3>3. QED
      BY <1>3, <2>2, <2>4, <2>5, <3>1, <3>2, Stutter DEF Collect
  <2>6. CASE t = InputThread \/ exceptionType = "NONE"
    <3>1. CallState(t)' = "returned"
      BY <1>0, <1>3, <2>6 DEF Collect, CallState
    <3>2. OutcomeOf(t)' = None
      BY <3>1 DEF OutcomeOf
    <3>3. answer' = [answer EXCEPT ![t] = OutcomeOf(t)] /\ quit' = quit
      BY <1>3, <2>1, <2>6 DEF Collect, OutcomeOf
    <3>4. QED
      BY <2>1, <2>2, <2>4, <3>1, <3>2, <3>3, ReturnStep
  <2>7. QED
    BY <2>5, <2>6
<1>4. CASE Rethrow(t)
  <2>1. /\ t \in Clients /\ CallState(t) = "executed"
        /\ exceptionType \in {"API", "VDM"}
    BY <1>4 DEF Rethrow, QueueInv, TypeOK, Locks, Slots, Results, CallState, HoldsQueue, InQueue
  <2>2. ASSUME NEW u \in Threads \ {t} PROVE CallState(u)' = CallState(u)
    BY <1>0, <1>4 DEF Rethrow, CallState, InQueue
  <2>3. ASSUME NEW u \in Threads \ {t} PROVE OutcomeOf(u)' = OutcomeOf(u)
    BY <1>4, <2>2 DEF Rethrow, OutcomeOf
  <2>4. CallState(t)' = "returned"
    BY <1>0, <1>4 DEF Rethrow, CallState
  <2>5. OutcomeOf(t)' = None
    BY <2>4 DEF OutcomeOf
  <2>6. answer' = [answer EXCEPT ![t] = OutcomeOf(t)] /\ quit' = quit
    BY <1>4, <2>1 DEF Rethrow, OutcomeOf
  <2>7. QED
    BY <2>1, <2>2, <2>3, <2>4, <2>5, <2>6, ReturnStep
<1>5. CASE Leave(t)
  <2>1. CallState(t) = "returned" /\ CallState(t)' = "idle"
    BY <1>0, <1>5 DEF Leave, CallState
  <2>2. ASSUME NEW u \in Threads \ {t} PROVE CallState(u)' = CallState(u)
    BY <1>0, <1>5 DEF Leave, CallState, InQueue
  <2>3. ASSUME NEW u \in Threads PROVE OutcomeOf(u)' = OutcomeOf(u)
    BY <1>5, <2>1, <2>2 DEF Leave, OutcomeOf
  <2>4. answer' = [answer EXCEPT ![t] = None] /\ quit' = quit
    BY <1>5 DEF Leave
  <2>5. QED
    BY <2>1, <2>2, <2>3, <2>4, GoOnStep
<1>6. QED
  BY <1>1, <1>2, <1>3, <1>4, <1>5 DEF Step

LEMMA RefinesExecutor ==
  ASSUME QueueInv, MainStep
  PROVE  [RR!Next]_(RR!vars)
<1> USE ThreadFacts DEF callVars, lockVars, commandVars, resultVars, mainVars, modeVars, MainGoto
<1>1. CASE WaitForCommand \/ Poll \/ Check \/ AcquireCommand \/ SignalDone \/ Exit
  <2>1. ASSUME NEW u \in Threads
        PROVE  CallState(u)' = CallState(u) /\ OutcomeOf(u)' = OutcomeOf(u)
    BY <1>1 DEF WaitForCommand, Poll, Check, AcquireCommand, SignalDone, Exit,
                CallState, OutcomeOf, InQueue
  <2>2. answer' = answer /\ quit' = quit
    BY <1>1 DEF WaitForCommand, Poll, Check, AcquireCommand, SignalDone, Exit
  <2>3. QED
    BY <2>1, <2>2, Stutter
<1>2. CASE BeginCommand
  <2>1. currentCommand \in Clients /\ InQueue(currentCommand)
    BY <1>2 DEF BeginCommand, QueueInv, TypeOK, Execution, InQueue
  <2>2. ASSUME NEW u \in Threads
        PROVE  CallState(u)' = CallState(u) /\ CallState(u) # "executed"
    BY <1>2, <2>1, OneAtATime DEF BeginCommand, CallState, InQueue
  <2>3. ASSUME NEW u \in Threads PROVE OutcomeOf(u)' = OutcomeOf(u)
    BY <2>2 DEF OutcomeOf
  <2>4. answer' = answer /\ quit' = quit
    BY <1>2 DEF BeginCommand
  <2>5. QED
    BY <2>2, <2>3, <2>4, Stutter
<1>3. CASE ExecuteString
  <2>1. /\ currentStringCommand = InputThread /\ InputThread \in Threads
        /\ InQueue(InputThread) /\ currentCommand = None
    BY <1>3 DEF ExecuteString, QueueInv, TypeOK, Slots, InQueue
  <2>2. ~quit
    BY <1>3 DEF ExecuteString, QueueInv, Execution
  <2>3. CallState(InputThread) = "requested" /\ CallState(InputThread)' = "executed"
    BY <1>3, <2>1, OneAtATime DEF ExecuteString, CallState, InQueue
  <2>4. ASSUME NEW u \in Threads \ {InputThread}
        PROVE  /\ CallState(u)' = CallState(u)
               /\ CallState(u) = "executed" => exceptionType # "NONE"
    BY <1>3, <2>1, <2>4, OneAtATime DEF ExecuteString, CallState, InQueue, QueueInv, Results
  <2>5. ASSUME NEW u \in Threads \ {InputThread} PROVE OutcomeOf(u)' = OutcomeOf(u)
    BY <1>3, <2>4 DEF ExecuteString, OutcomeOf
  <2>6. PICK cont \in BOOLEAN :
          /\ quit' = ~cont
          /\ result' = Outcome(IF cont THEN "continue" ELSE "quit", currentStringCommand)
    BY <1>3 DEF ExecuteString
  <2>7. result' \in PossibleOutcomes(InputThread) /\ result' # None
    BY <2>1, <2>6, OutcomeFacts DEF PossibleOutcomes
  <2>8. OutcomeOf(InputThread)' = result'
    BY <2>3, <2>7 DEF OutcomeOf
  <2>9. \/ result' \in {Outcome("quit", u) : u \in Threads} /\ quit' = TRUE
        \/ result' \notin {Outcome("quit", u) : u \in Threads} /\ quit' = FALSE
    <3>1. CASE cont = TRUE
      <4>1. result'.kind = "continue" /\ quit' = FALSE
        BY <2>6, <3>1 DEF Outcome
      <4>2. result' \notin {Outcome("quit", u) : u \in Threads}
        BY <4>1 DEF Outcome
      <4>3. QED
        BY <4>1, <4>2
    <3>2. CASE cont = FALSE
      BY <2>1, <2>6, <3>2 DEF Outcome
    <3>3. QED
      BY <3>1, <3>2
  <2>10. answer' = answer
    BY <1>3 DEF ExecuteString
  <2>11. QED
    BY <2>1, <2>2, <2>3, <2>4, <2>5, <2>7, <2>8, <2>9, <2>10, ExecuteStep
<1>4. CASE FinishCommand
  <2>0. PICK c \in Clients : c = currentCommand
    BY <1>4 DEF FinishCommand, QueueInv, TypeOK, Execution
  <2>1. /\ c \in Clients /\ InQueue(c) /\ currentStringCommand = None
        /\ exceptionType = "NONE" /\ result = None /\ ~quit
    BY <1>4, <2>0 DEF FinishCommand, QueueInv, Execution, Results, InQueue
  <2>2. CallState(c) = "requested" /\ CallState(c)' = "executed"
    BY <1>4, <2>0, <2>1, OneAtATime DEF FinishCommand, CallState, InQueue
  <2>3. ASSUME NEW u \in Threads \ {c}
        PROVE  CallState(u)' = CallState(u) /\ CallState(u) # "executed"
    BY <1>4, <2>0, <2>1, OneAtATime DEF FinishCommand, CallState, InQueue
  <2>4. ASSUME NEW u \in Threads \ {c} PROVE OutcomeOf(u)' = OutcomeOf(u)
    BY <2>3 DEF OutcomeOf
  <2>5. OutcomeOf(c)' \in {Nil, Outcome("value", c), Outcome("API", c), Outcome("VDM", c)}
    <3>1. CASE UNCHANGED resultVars
      BY <2>1, <2>2, <3>1 DEF OutcomeOf
    <3>2. CASE result' = Outcome("value", c) /\ UNCHANGED <<exceptionType, exceptionOf>>
      <4>1. result' # None
        BY <2>1, <3>2, OutcomeFacts
      <4>2. QED
        BY <2>1, <2>2, <3>2, <4>1 DEF OutcomeOf
    <3>3. CASE exceptionType' \in {"API", "VDM"} /\ exceptionOf' = c
      BY <2>1, <2>2, <3>3 DEF OutcomeOf
    <3>4. QED
      BY <1>4, <2>0, <3>1, <3>2, <3>3 DEF FinishCommand, CommandOutcome
  <2>6. OutcomeOf(c)' \in PossibleOutcomes(c)
    BY <2>1, <2>5 DEF PossibleOutcomes
  <2>7. OutcomeOf(c)' \notin {Outcome("quit", u) : u \in Threads}
    BY <2>5 DEF Nil, Outcome
  <2>8. answer' = answer /\ quit' = FALSE
    BY <1>4, <2>1 DEF FinishCommand, QueueInv, TypeOK
  <2>9. QED
    BY <2>1, <2>2, <2>3, <2>4, <2>6, <2>7, <2>8, ExecuteStep
<1>5. QED
  BY <1>1, <1>2, <1>3, <1>4 DEF MainStep

\* Until a wait returns without a signal the API command queue implements request
\* and response: every call returns, once, the outcome of its own command.
THEOREM QueueImplements == Spec => Implements
<1>1. Spec => [](~glitch => QueueInv)
  BY QueueInvariant
<1>2. (~glitch => QueueInv) /\ [Next]_vars => [glitch' \/ RR!Next]_(RR!vars)
  <2> SUFFICES ASSUME QueueInv, [Next]_vars PROVE glitch' \/ [RR!Next]_(RR!vars)
    BY GlitchStep
  <2>1. CASE MainStep
    BY <2>1, RefinesExecutor
  <2>2. ASSUME NEW t \in Threads, Call(t) \/ Step(t) PROVE [RR!Next]_(RR!vars)
    BY <2>2, RefinesCaller
  <2>3. CASE UNCHANGED vars
    BY <2>3, Stutter DEF CallState, OutcomeOf, InQueue, vars, callVars, lockVars,
           commandVars, resultVars, mainVars, modeVars
  <2>4. QED
    BY <2>1, <2>2, <2>3 DEF Next, SpuriousWakeup
<1>3. Init => RR!Init
  BY RefinesInit
<1>4. QED
  BY <1>1, <1>2, <1>3, PTL DEF Spec, Implements

-----------------------------------------------------------------------------
(* What holds whatever the condition variable does.                          *)

CommandLockInv ==
  /\ pc \in [Threads -> ThreadPCs]
  /\ \A t \in Threads : commandLock = t <=> pc[t] \in {"locked", "signalled"}
  /\ mainPc # "aborted" => (commandLock = Main <=> mainPc \in {"execute", "command"})

LEMMA CommandLockStep == CommandLockInv /\ [Next]_vars => CommandLockInv'
<1> SUFFICES ASSUME CommandLockInv, [Next]_vars PROVE CommandLockInv'
  OBVIOUS
<1> USE ThreadFacts
    DEF CommandLockInv, callVars, lockVars, commandVars, resultVars, mainVars, modeVars, Goto, MainGoto,
        ThreadPCs
<1>1. CASE MainStep
  BY <1>1 DEF MainStep, WaitForCommand, Poll, Check, AcquireCommand, ExecuteString, BeginCommand,
              FinishCommand, SignalDone, Exit
<1>2. ASSUME NEW t \in Threads, Call(t) \/ SpuriousWakeup(t), mainPc # "aborted"
      PROVE  CommandLockInv'
  BY <1>2 DEF Call, SpuriousWakeup
<1>3. ASSUME NEW t \in Threads, Step(t), mainPc # "aborted"
      PROVE  CommandLockInv'
  <2>1. CASE Enqueue(t) \/ LockCommand(t) \/ SignalCommand(t)
    BY <1>3, <2>1 DEF Enqueue, LockCommand, SignalCommand
  <2>2. CASE WaitAnswer(t) \/ WakeUp(t)
    BY <1>3, <2>2 DEF WaitAnswer, WakeUp
  <2>3. CASE Collect(t) \/ Rethrow(t) \/ Leave(t)
    BY <1>3, <2>3 DEF Collect, Rethrow, Leave
  <2>4. QED
    BY <1>3, <2>1, <2>2, <2>3 DEF Step
<1>4. CASE UNCHANGED vars
  BY <1>4 DEF vars
<1>5. QED
  BY <1>1, <1>2, <1>3, <1>4 DEF Next

\* Whatever wakes up the callers, no stored command is lost or overwritten: it stays
\* until the executing thread has executed it, or an assertion stops the program.
THEOREM StoredCommands == Spec => StoredUntilExecuted
<1>1. Init => CommandLockInv
  BY ThreadFacts DEF Init, CommandLockInv, ThreadPCs
<1>2. CommandLockInv /\ [Next]_vars => CommandLockInv'
  BY CommandLockStep
<1> DEFINE Kept ==
      /\ currentCommand # None =>
           \/ currentCommand' = currentCommand
           \/ commandLock = Main /\ currentCommand' = None /\ pc' = pc
      /\ currentStringCommand # None =>
           \/ currentStringCommand' = currentStringCommand
           \/ commandLock = Main /\ currentStringCommand' = None /\ pc' = pc
<1>3. CommandLockInv /\ [Next]_vars => [Kept]_vars
  <2> SUFFICES ASSUME CommandLockInv, Next PROVE Kept
    OBVIOUS
  <2> USE DEF callVars, lockVars, commandVars, resultVars, mainVars, modeVars
  <2>1. CASE MainStep
    BY <2>1 DEF MainStep, WaitForCommand, Poll, Check, AcquireCommand, ExecuteString,
           BeginCommand, FinishCommand, SignalDone, Exit, CommandLockInv, MainGoto
  <2>2. ASSUME NEW t \in Threads, Call(t) \/ Step(t) \/ SpuriousWakeup(t) PROVE Kept
    BY <2>2 DEF Call, SpuriousWakeup, Step, Enqueue, LockCommand, SignalCommand, WaitAnswer,
           WakeUp, Collect, Rethrow, Leave, Slot
  <2>3. QED
    BY <2>1, <2>2 DEF Next
<1>4. QED
  BY <1>1, <1>2, <1>3, PTL DEF Spec, StoredUntilExecuted
-----------------------------------------------------------------------------
(* Types, whatever the condition variable does.                              *)

\* The executing thread has a command in hand, and whoever rethrows finds an
\* exception, if not always its own.
TypeInv ==
  /\ TypeOK
  /\ mainPc \in {"acquire", "execute"} => currentCommand # None \/ currentStringCommand # None
  /\ mainPc = "command" => currentCommand # None
  /\ exceptionType # "NONE" => exceptionOf # None
  /\ \A t \in Threads : pc[t] = "throwing" => exceptionOf # None

LEMMA TypeCaller ==
  ASSUME TypeInv, NEW t \in Threads, Call(t) \/ Step(t) \/ SpuriousWakeup(t)
  PROVE  TypeInv'
<1> USE ThreadFacts, OutcomeFacts
    DEF TypeInv, TypeOK, ThreadPCs, MainPCs, callVars, lockVars, commandVars, resultVars,
        mainVars, modeVars, Goto
<1>0. CASE Call(t)
  BY <1>0 DEF Call
<1>1. CASE SpuriousWakeup(t)
  BY <1>1 DEF SpuriousWakeup
<1>2. CASE Enqueue(t)
  BY <1>2 DEF Enqueue
<1>3. CASE LockCommand(t) \/ SignalCommand(t)
  BY <1>3 DEF LockCommand, SignalCommand
<1>4. CASE WaitAnswer(t) \/ WakeUp(t)
  BY <1>4 DEF WaitAnswer, WakeUp
<1>5. CASE Collect(t)
  <2>1. Nil \in AllOutcomes \/ t = InputThread
    OBVIOUS
  <2>2. t = InputThread => Outcome("quit", t) \in AllOutcomes
    OBVIOUS
  <2>3. answer' \in [Threads -> AllOutcomes \cup {None, Freed}]
    BY <1>5, <2>1, <2>2 DEF Collect
  <2>4. result' \in {None, Freed}
    BY <1>5 DEF Collect
  <2>5. QED
    BY <1>5, <2>3, <2>4 DEF Collect
<1>6. CASE Rethrow(t)
  <2>1. exceptionOf \in Clients
    BY <1>6 DEF Rethrow
  <2>2. Outcome(IF exceptionType = "API" THEN "API" ELSE "VDM", exceptionOf) \in AllOutcomes
    BY <2>1
  <2>3. QED
    BY <1>6, <2>2 DEF Rethrow
<1>7. CASE Leave(t)
  BY <1>7 DEF Leave
<1>8. QED
  BY <1>0, <1>1, <1>2, <1>3, <1>4, <1>5, <1>6, <1>7 DEF Step

LEMMA TypeExecutor ==
  ASSUME TypeInv, MainStep
  PROVE  TypeInv'
<1> USE ThreadFacts, OutcomeFacts
    DEF TypeInv, TypeOK, ThreadPCs, MainPCs, callVars, lockVars, commandVars, resultVars,
        mainVars, modeVars, MainGoto
<1>1. CASE WaitForCommand \/ Poll \/ Exit
  BY <1>1 DEF WaitForCommand, Poll, Exit
<1>2. CASE Check \/ AcquireCommand \/ BeginCommand
  BY <1>2 DEF Check, AcquireCommand, BeginCommand
<1>3. CASE ExecuteString
  <2>1. currentStringCommand = InputThread
    BY <1>3 DEF ExecuteString
  <2>2. result' \in AllOutcomes /\ quit' \in BOOLEAN
    BY <1>3, <2>1 DEF ExecuteString
  <2>3. QED
    BY <1>3, <2>2 DEF ExecuteString
<1>4. CASE FinishCommand
  <2>1. currentCommand \in Clients
    BY <1>4 DEF FinishCommand
  <2>2. Outcome("value", currentCommand) \in AllOutcomes
    BY <2>1
  <2>3. /\ result' \in AllOutcomes \cup {None, Freed}
        /\ exceptionType' \in {"NONE", "API", "VDM"}
        /\ exceptionOf' \in Clients \cup {None}
        /\ exceptionType' # "NONE" => exceptionOf' # None
        /\ exceptionOf # None => exceptionOf' # None
    BY <1>4, <2>1, <2>2 DEF FinishCommand, CommandOutcome
  <2>4. QED
    BY <1>4, <2>3 DEF FinishCommand
<1>5. CASE SignalDone
  BY <1>5 DEF SignalDone
<1>6. QED
  BY <1>1, <1>2, <1>3, <1>4, <1>5 DEF MainStep

\* Also when a wait returns too early the fields keep their types: the executing
\* thread never executes a command that is not there, the semaphore never becomes
\* negative, and what a call rethrows has been set by some command.
THEOREM TypeCorrect == Spec => []TypeOK
<1>1. Init => TypeInv
  BY InitQueueInv, ThreadFacts DEF Init, TypeInv, QueueInv
<1>2. TypeInv /\ [Next]_vars => TypeInv'
  <2> SUFFICES ASSUME TypeInv, [Next]_vars PROVE TypeInv'
    OBVIOUS
  <2>1. CASE MainStep
    BY <2>1, TypeExecutor
  <2>2. ASSUME NEW t \in Threads, Call(t) \/ Step(t) \/ SpuriousWakeup(t) PROVE TypeInv'
    BY <2>2, TypeCaller
  <2>3. CASE UNCHANGED vars
    BY <2>3 DEF TypeInv, TypeOK, vars, callVars, lockVars, commandVars, resultVars, mainVars,
           modeVars
  <2>4. QED
    BY <2>1, <2>2, <2>3 DEF Next
<1>3. TypeInv => TypeOK
  BY DEF TypeInv
<1>4. QED
  BY <1>1, <1>2, <1>3, PTL DEF Spec
=============================================================================
