------------------------------- MODULE CmdQueue -------------------------------
(***************************************************************************)
(* The queue APICommandQueue through which CORBA requests, and in console  *)
(* mode the user's input, reach the thread that executes them              *)
(* (code/api/corba/cmd_queue.cc, corba_api.cc; the callers of              *)
(* ExecuteQueuedCommand in code/utils/tools.cc).                           *)
(*                                                                         *)
(* In console mode the main thread waits on a semaphore; in GUI mode the   *)
(* tool box thread polls, driven by a timer, and there is no input thread. *)
(* A command is abstracted to the thread that gave it, an outcome to its   *)
(* kind and that thread.  A condition variable may wake up without a       *)
(* signal, as POSIX allows; one such wake-up is enough to see what follows *)
(* from it.                                                                *)
(***************************************************************************)
EXTENDS Integers

CONSTANTS
  Clients,          \* the ORB's threads, each in a method of an interface
  InputThread,      \* the thread that reads the user's commands (console mode)
  MaxPosts,         \* bound: value of the semaphore
  Main,             \* the thread that executes the commands
  None              \* no thread, no command, no result

Threads == Clients \cup {InputThread}

ASSUME CmdQueueAssumption ==
  /\ InputThread \notin Clients
  /\ Main \notin Clients \cup {InputThread}
  /\ None \notin Clients \cup {InputThread, Main}
  /\ MaxPosts \in Nat \ {0}

VARIABLES
  pc,               \* where every thread is in its method
  methodLock,       \* MutexLock: held for the whole of a method
  queueLock,        \* _queueLock
  commandLock,      \* _commandLock
  waiters,          \* the threads waiting on _commandCondition
  posts,            \* the value of _waitSemaphore
  currentCommand,
  currentStringCommand,
  result,           \* _result
  exceptionType,
  exceptionOf,      \* the command that set _exceptionStr or _exceptionNum
  quit,
  mainPc,           \* where the executing thread is
  answer,           \* what the call of every thread returns or throws
  console,          \* the mode: ExecuteMainLoop, or api_Periodic of the GUI
  glitch            \* a wait has returned without a signal (the bound: once)

callVars == <<pc, answer>>
lockVars == <<methodLock, queueLock, commandLock, waiters, posts>>
commandVars == <<currentCommand, currentStringCommand>>
resultVars == <<result, exceptionType, exceptionOf>>
modeVars == <<console, glitch>>
mainVars == <<quit, mainPc, modeVars>>
vars == <<callVars, lockVars, commandVars, resultVars, mainVars>>

-----------------------------------------------------------------------------
(* Types.                                                                    *)

\* "method": the interface method has begun or a line has been read;
\* "throwing": an exception is being rethrown, the queue is free again;
\* "leaving": the call has its answer; "ended": the input loop is over.
ThreadPCs == {"idle", "method", "enqueued", "locked", "signalled", "waiting",
              "collect", "throwing", "leaving", "ended"}

MainPCs == {"loop", "check", "acquire", "execute", "command", "signal", "exited", "aborted"}

Nil == [kind |-> "nil", of |-> None]

Outcome(kind, t) == [kind |-> kind, of |-> t]

PossibleOutcomes(t) ==
  IF t = InputThread THEN {Outcome("continue", t), Outcome("quit", t)}
  ELSE {Nil, Outcome("value", t), Outcome("API", t), Outcome("VDM", t)}

AllOutcomes == UNION {PossibleOutcomes(t) : t \in Threads}

\* delete without a reset
Freed == [kind |-> "freed", of |-> None]

ASSUME NoneAssumption == None \notin AllOutcomes \cup {Freed}

TypeOK ==
  /\ pc \in [Threads -> ThreadPCs]
  /\ methodLock \in Clients \cup {None}
  /\ queueLock \in Threads \cup {None}
  /\ commandLock \in Threads \cup {Main, None}
  /\ waiters \subseteq Threads
  /\ posts \in Nat
  /\ currentCommand \in Clients \cup {None}
  /\ currentStringCommand \in {InputThread, None}
  /\ result \in AllOutcomes \cup {None, Freed}
  /\ exceptionType \in {"NONE", "API", "VDM"}
  /\ exceptionOf \in Clients \cup {None}
  /\ quit \in BOOLEAN
  /\ mainPc \in MainPCs
  /\ answer \in [Threads -> AllOutcomes \cup {None, Freed}]
  /\ {console, glitch} \subseteq BOOLEAN

Init ==
  /\ pc = [t \in Threads |-> "idle"]
  /\ methodLock = None
  /\ queueLock = None
  /\ commandLock = None
  /\ waiters = {}
  /\ posts = 0
  /\ currentCommand = None
  /\ currentStringCommand = None
  /\ result = None
  /\ exceptionType = "NONE"
  /\ exceptionOf = None
  /\ quit = FALSE
  /\ mainPc = "loop"
  /\ answer = [t \in Threads |-> None]
  /\ console \in BOOLEAN
  /\ glitch = FALSE

-----------------------------------------------------------------------------
(* The callers: a method of an interface (MUTEX_METHOD, EnqueueCommand) or   *)
(* the input loop (EnqueueStringCommand).                                    *)

Goto(t, from, to) ==
  /\ pc[t] = from
  /\ pc' = [pc EXCEPT ![t] = to]

\* Mutant: the method is not declared MUTEX_METHOD.
Call_unlocked(t) ==
  /\ Goto(t, "idle", "method")
  /\ t = InputThread => console
  /\ UNCHANGED <<answer, lockVars, commandVars, resultVars, mainVars>>

\* An interface method begins with the lock of all methods; the input loop
\* has read a line.
Call(t) ==
  /\ Goto(t, "idle", "method")
  /\ IF t = InputThread
     THEN console /\ UNCHANGED methodLock
     ELSE methodLock = None /\ methodLock' = t
  /\ UNCHANGED <<answer, queueLock, commandLock, waiters, posts, commandVars,
                 resultVars, mainVars>>

Slot(t) == IF t = InputThread THEN currentStringCommand ELSE currentCommand

\* Mutant: the assertions are compiled out.
Enqueue_unchecked(t) ==
  /\ queueLock = None
  /\ queueLock' = t
  /\ Goto(t, "method", "enqueued")
  /\ IF t = InputThread
     THEN currentStringCommand' = t /\ UNCHANGED currentCommand
     ELSE currentCommand' = t /\ UNCHANGED currentStringCommand
  /\ UNCHANGED <<answer, methodLock, commandLock, waiters, posts, resultVars, mainVars>>

\* The queue is locked, the assertion tested and the command stored.
Enqueue(t) ==
  /\ queueLock = None
  /\ queueLock' = t
  /\ Goto(t, "method", "enqueued")
  /\ \/ /\ Slot(t) = None
        /\ IF t = InputThread
           THEN currentStringCommand' = t /\ UNCHANGED currentCommand
           ELSE currentCommand' = t /\ UNCHANGED currentStringCommand
        /\ UNCHANGED mainPc
     \/ /\ Slot(t) # None
        /\ mainPc' = "aborted"
        /\ UNCHANGED commandVars
  /\ UNCHANGED <<answer, methodLock, commandLock, waiters, posts, resultVars, quit, modeVars>>

LockCommand(t) ==
  /\ commandLock = None
  /\ commandLock' = t
  /\ Goto(t, "enqueued", "locked")
  /\ UNCHANGED <<answer, methodLock, queueLock, waiters, posts, commandVars,
                 resultVars, mainVars>>

\* Mutant: the semaphore is posted twice.
SignalCommand_twice(t) ==
  /\ posts < MaxPosts
  /\ posts' = posts + 2
  /\ Goto(t, "locked", "signalled")
  /\ UNCHANGED <<answer, methodLock, queueLock, commandLock, waiters, commandVars,
                 resultVars, mainVars>>

SignalCommand(t) ==
  /\ posts < MaxPosts
  /\ posts' = posts + 1
  /\ Goto(t, "locked", "signalled")
  /\ UNCHANGED <<answer, methodLock, queueLock, commandLock, waiters, commandVars,
                 resultVars, mainVars>>

\* wait on the condition: the lock is released and the thread waits, in one step.
WaitAnswer(t) ==
  /\ Goto(t, "signalled", "waiting")
  /\ commandLock' = None
  /\ waiters' = waiters \cup {t}
  /\ UNCHANGED <<answer, methodLock, queueLock, posts, commandVars, resultVars, mainVars>>

SpuriousWakeup(t) ==
  /\ ~glitch
  /\ t \in waiters
  /\ waiters' = waiters \ {t}
  /\ glitch' = TRUE
  /\ UNCHANGED <<callVars, methodLock, queueLock, commandLock, posts, commandVars,
                 resultVars, quit, mainPc, console>>

\* wait returns with the lock held, which is then released.
WakeUp(t) ==
  /\ t \notin waiters
  /\ commandLock = None
  /\ Goto(t, "waiting", "collect")
  /\ UNCHANGED <<answer, lockVars, commandVars, resultVars, mainVars>>

\* The call takes its result, or finds that it has to throw, and unlocks the
\* queue.  A string command without a result counts as false, that is, quit.
Collect(t) ==
  /\ queueLock' = None
  /\ \/ /\ t # InputThread
        /\ exceptionType # "NONE"
        /\ result' = IF result # None THEN Freed ELSE None
        /\ Goto(t, "collect", "throwing")
        /\ UNCHANGED answer
     \/ /\ t = InputThread \/ exceptionType = "NONE"
        /\ result' = None
        /\ Goto(t, "collect", "leaving")
        /\ answer' = [answer EXCEPT ![t] =
             IF result # None THEN result
             ELSE IF t = InputThread THEN Outcome("quit", t) ELSE Nil]
  /\ UNCHANGED <<methodLock, commandLock, waiters, posts, commandVars,
                 exceptionType, exceptionOf, mainVars>>

\* The exception is read again after the queue has been unlocked.
Rethrow(t) ==
  /\ Goto(t, "throwing", "leaving")
  /\ answer' = [answer EXCEPT ![t] =
       Outcome(IF exceptionType = "API" THEN "API" ELSE "VDM", exceptionOf)]
  /\ UNCHANGED <<lockVars, commandVars, resultVars, mainVars>>

\* The method ends and unlocks the methods; the input loop goes on or is over.
Leave(t) ==
  /\ IF t = InputThread
     THEN /\ Goto(t, "leaving", IF answer[t].kind = "continue" THEN "idle" ELSE "ended")
          /\ UNCHANGED methodLock
     ELSE /\ Goto(t, "leaving", "idle")
          /\ methodLock' = None
  /\ answer' = [answer EXCEPT ![t] = None]
  /\ UNCHANGED <<queueLock, commandLock, waiters, posts, commandVars,
                 resultVars, mainVars>>

-----------------------------------------------------------------------------
(* The executing thread: ExecuteMainLoop or api_Periodic, and                *)
(* ExecuteQueuedCommand.                                                     *)

MainGoto(from, to) ==
  /\ mainPc = from
  /\ mainPc' = to

\* Mutant: the semaphore's value is taken without waiting for it.
WaitForCommand_noWait ==
  /\ console
  /\ ~quit
  /\ posts' = posts - 1
  /\ MainGoto("loop", "check")
  /\ UNCHANGED <<callVars, methodLock, queueLock, commandLock, waiters, commandVars,
                 resultVars, quit, modeVars>>

WaitForCommand ==
  /\ console
  /\ ~quit
  /\ posts > 0
  /\ posts' = posts - 1
  /\ MainGoto("loop", "check")
  /\ UNCHANGED <<callVars, methodLock, queueLock, commandLock, waiters, commandVars,
                 resultVars, quit, modeVars>>

Poll ==
  /\ ~console
  /\ MainGoto("loop", "check")
  /\ UNCHANGED <<callVars, lockVars, commandVars, resultVars, quit, modeVars>>

\* The pointers are tested without a lock.
Check ==
  /\ MainGoto("check", IF currentCommand = None /\ currentStringCommand = None
                       THEN "loop" ELSE "acquire")
  /\ UNCHANGED <<callVars, lockVars, commandVars, resultVars, quit, modeVars>>

AcquireCommand ==
  /\ commandLock = None
  /\ commandLock' = Main
  /\ MainGoto("acquire", "execute")
  /\ UNCHANGED <<callVars, methodLock, queueLock, waiters, posts, commandVars,
                 resultVars, quit, modeVars>>

ExecuteString ==
  /\ currentStringCommand # None
  /\ MainGoto("execute", "signal")
  /\ \E cont \in BOOLEAN :
       /\ quit' = ~cont
       /\ result' = Outcome(IF cont THEN "continue" ELSE "quit", currentStringCommand)
  /\ currentStringCommand' = None
  /\ commandLock' = None
  /\ UNCHANGED <<callVars, methodLock, queueLock, waiters, posts, currentCommand,
                 exceptionType, exceptionOf, modeVars>>

BeginCommand ==
  /\ currentStringCommand = None
  /\ MainGoto("execute", "command")
  /\ exceptionType' = "NONE"
  /\ UNCHANGED <<callVars, lockVars, commandVars, result, exceptionOf, quit, modeVars>>

\* What the command does to _result and the exception.
CommandOutcome ==
  \/ UNCHANGED resultVars
  \/ /\ result' = Outcome("value", currentCommand)
     /\ UNCHANGED <<exceptionType, exceptionOf>>
  \/ /\ exceptionType' \in {"API", "VDM"}
     /\ exceptionOf' = currentCommand
     /\ UNCHANGED result

\* Mutants: the waiting caller is not signalled; the command stays queued.
FinishCommand_noSignal ==
  /\ MainGoto("command", "loop")
  /\ CommandOutcome
  /\ currentCommand' = None
  /\ commandLock' = None
  /\ UNCHANGED <<callVars, methodLock, queueLock, waiters, posts, currentStringCommand, quit, modeVars>>

FinishCommand_keepsCommand ==
  /\ MainGoto("command", "signal")
  /\ CommandOutcome
  /\ commandLock' = None
  /\ UNCHANGED <<callVars, methodLock, queueLock, waiters, posts, commandVars, quit, modeVars>>

FinishCommand ==
  /\ MainGoto("command", "signal")
  /\ CommandOutcome
  /\ currentCommand' = None
  /\ commandLock' = None
  /\ UNCHANGED <<callVars, methodLock, queueLock, waiters, posts, currentStringCommand, quit, modeVars>>

\* The condition is signalled after the lock has been released: one waiting
\* thread, if there is any, wakes up.
SignalDone ==
  /\ MainGoto("signal", "loop")
  /\ \/ waiters = {} /\ UNCHANGED waiters
     \/ \E t \in waiters : waiters' = waiters \ {t}
  /\ UNCHANGED <<callVars, methodLock, queueLock, commandLock, posts, commandVars,
                 resultVars, quit, modeVars>>

Exit ==
  /\ console
  /\ quit
  /\ MainGoto("loop", "exited")
  /\ UNCHANGED <<callVars, lockVars, commandVars, resultVars, quit, modeVars>>

-----------------------------------------------------------------------------
(* The specification.                                                        *)

\* A call under way goes on; SpuriousWakeup and Call are nobody's duty.
Step(t) ==
  \/ Enqueue(t)
  \/ LockCommand(t)
  \/ SignalCommand(t)
  \/ WaitAnswer(t)
  \/ WakeUp(t)
  \/ Collect(t)
  \/ Rethrow(t)
  \/ Leave(t)

MainStep ==
  \/ WaitForCommand
  \/ Poll
  \/ Check
  \/ AcquireCommand
  \/ ExecuteString
  \/ BeginCommand
  \/ FinishCommand
  \/ SignalDone
  \/ Exit

\* A failed assertion ends the process.
Next ==
  /\ mainPc # "aborted"
  /\ \/ MainStep
     \/ \E t \in Threads : Call(t) \/ Step(t) \/ SpuriousWakeup(t)

Spec == Init /\ [][Next]_vars

\* The operating system runs every thread that can go on, as long as the
\* process lives; the main loop goes on after each command.
FairSpec ==
  /\ Spec
  /\ WF_vars(mainPc # "aborted" /\ MainStep)
  /\ \A t \in Threads : WF_vars(mainPc \notin {"aborted", "exited"} /\ Step(t))

-----------------------------------------------------------------------------
(* Properties.                                                               *)

InQueue(t) == t \in {currentCommand, currentStringCommand}

CallState(t) ==
  IF pc[t] \in {"idle", "method", "ended"} THEN "idle"
  ELSE IF pc[t] = "leaving" THEN "returned"
  ELSE IF InQueue(t) THEN "requested" ELSE "executed"

\* What an executed command left for its caller.
OutcomeOf(t) ==
  IF CallState(t) # "executed" THEN None
  ELSE IF t # InputThread /\ exceptionType # "NONE" THEN Outcome(exceptionType, exceptionOf)
  ELSE IF result # None THEN result
  ELSE IF t = InputThread THEN Outcome("quit", t) ELSE Nil

RR == INSTANCE RequestResponse WITH
        Threads <- Threads,
        Outcomes <- [t \in Threads |-> PossibleOutcomes(t)],
        QuitOutcomes <- {Outcome("quit", t) : t \in Threads},
        None <- None,
        call <- [t \in Threads |-> CallState(t)],
        outcome <- [t \in Threads |-> OutcomeOf(t)],
        reply <- answer,
        quit <- quit

\* Unless a wait has returned without a signal the queue implements request and
\* response: a call does not return before its command was executed, it returns
\* the outcome of its own command although the result and the exception are
\* fields all calls share and are read after locks have been released
\* (EnqueueCommand), and nothing is executed after quit.
Implements == RR!Init /\ [][glitch' \/ RR!Next]_(RR!vars)

\* While the queue is unlocked it holds no command and no result of an earlier
\* call: the assertions of EnqueueCommand and EnqueueStringCommand never fail
\* and no result is taken by the wrong call or read after its deletion.
QueueIsEmptyWhenFree ==
  ~glitch /\ queueLock = None =>
    currentCommand = None /\ currentStringCommand = None /\ result = None

\* In console mode the semaphore counts the commands the main thread has not
\* seen: whenever it is woken up by WaitForCommand it finds a command.
PostMeansCommand ==
  console /\ ~glitch =>
    /\ posts + (IF mainPc \in {"check", "acquire"} THEN 1 ELSE 0) <= 1
    /\ posts = 1 \/ mainPc = "check" => currentCommand # None \/ currentStringCommand # None

\* A command that is in the queue is answered, unless the user quits
\* (EnqueueCommand waits "until the command is processed").
EnqueuedIsAnswered ==
  \A t \in Threads : pc[t] = "enqueued" ~> (pc[t] = "leaving" \/ quit \/ glitch)

\* In console mode it is: the main thread finds the queue only when the caller
\* waits.
AnsweredInConsoleMode ==
  \A t \in Threads :
    console /\ pc[t] = "enqueued" ~> (pc[t] = "leaving" \/ quit \/ glitch)

\* A stored command leaves the queue only by being executed, and is never
\* overwritten: what the assertions of EnqueueCommand and EnqueueStringCommand
\* are for, which stop the program before a wait that returned too early can
\* cost a command.
StoredUntilExecuted ==
  [][/\ currentCommand # None =>
         \/ currentCommand' = currentCommand
         \/ commandLock = Main /\ currentCommand' = None /\ pc' = pc
     /\ currentStringCommand # None =>
         \/ currentStringCommand' = currentStringCommand
         \/ commandLock = Main /\ currentStringCommand' = None /\ pc' = pc]_vars

\* EnqueueCommand does not go on before its command has been executed.
ReturnsWhenExecuted == \A t \in Threads : pc[t] = "collect" => ~InQueue(t)
=============================================================================
