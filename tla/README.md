# VDMTools in TLA+

This directory models the parts of VDMTools in which things happen in more than
one order. It holds TLA+ modules, the TLC configurations that check them, and
theorems that TLAPS checks.

    tlc -workers 2 -config SchdCooperative.cfg MCSchd.tla
    tlapm SchdProofs.tla

`PROJECT.json` lists every component with what is modelled of it, every run with
its properties, the source lines each definition stands for, for every property a
mutant of the code it rejects, the hazards of this code and the theorems. Paths
below are relative to `src/`.

## 1. The system

VDMTools parses, type checks, executes and translates VDM specifications. Most
of it is sequential and functional (parser, type checker, code generators). The
state that several actors share, and the order in which they touch it, is in
these parts.

| part | source | state | operations | what is hard |
|---|---|---|---|---|
| scheduler `SCHD` | `code/eval/schd.cc` | threads, current thread, next id, priorities | `EvalScheduler`, `SelAndRunThread`, `FindNextThread`, start, stop, select | interleaving of threads, guards, stop of oneself, deadlock detection, fairness |
| stack machine `StackEval` | `code/eval/stackeval.cc`, `instructions.cc` | evaluators: pc, guard, call stack, evaluation stack, instruction counter | one instruction per iteration of `EvalMainLoop` | where a slice or a breakpoint may end it; exits across operations |
| statement compiler | `code/eval/cstmt.cc`, `cexpr.cc`, `compile.cc` | a trap number | the code of each statement | traps set and removed on every way out of nested statements |
| state `EvalState` | `code/eval/evalstate.cc` | objects, history counters | `UpdateHistCount`, `LookUpPermis` | counters that permission predicates trust |
| classes | `code/eval/evalclass.cc` | permission tables | `TransMutex` | what a mutex excludes |
| debugger | `code/eval/debug.cc`, `tbdebug.cc` | breakpoints, priority file name | init, print, debug, step, cont, selthread, priorityfile | commands between two instructions of a thread |
| `SYSTEM` (VICE) | `code/eval/evalsystem.cc` | CPUs, buses, messages, clocks | enqueue, transmit, complete messages; step clocks | order of messages, time, copies of CPU states |
| logs, conjectures | `code/vice/code` | a trace of events | append; check conjectures offline | - |
| API queue | `code/api/corba/cmd_queue.cc`, `corba_api.h` | one command, its result, an exception, locks, a semaphore | `EnqueueCommand`, `EnqueueStringCommand`, `ExecuteQueuedCommand` | CORBA threads, the input thread and the executing thread |
| GUI worker | `code/qtgui/toolboxthread.cc`, `mainF.cc`, `vdm.cc` | a command buffer, a thread that ends when it is empty, posted events, a completion flag | `addCommand`, `run`, `sendCommand`, `postGUIEvent`, `userEvent`, the API timer | a command added while the thread ends; one flag for the posts of two threads |
| Java run time | `code/java/lib/vdmconc`, `code/cg/mod_conc.cc` | counters of an object, a monitor | `entering`, `leaving`, `evaluatePP` | monitors, wake-ups, predicates that throw |
| specification manager | `spec/specman-spec`, `code/specman/code` | files, modules, their status, sessions | parse, check, generate, save; observers | status kept consistent over failures |
| type checker, parser, code generators, proof obligations, pretty printer, UML, Java to VDM | `code/statsem`, `parser`, `cg`, `cgip`, `pog*`, `uml`, `java2vdm++`, ... | per call | pure translations | size of the input space |
| library | `code/lib` | VDM values with shared representations | reference counting, copy on write | - |
| vendored and support | `code/port`, `mrandom`, `flexlm`, `make_tools`, `setup`, `win32`, ... | - | - | - |

How they interact.

* A debugger command calls `EvalScheduler`, which loops: it runs `EvalMainLoop`
  until the loop has a reason to end (guard, end of slice, break, end of
  program), does what the reason asks for, and runs it again, possibly for
  another thread. There is one operating system thread; the "threads" are
  evaluators that are swapped in and out of the stack machine. An instruction
  that calls an operation first executes `GUARD`, which counts the request and
  ends the loop; `EvalScheduler` evaluates the permission predicate and either
  resumes the machine, whose `APPLY` then counts the activation, or blocks the
  thread. The return of the operation counts its completion. Predicates read
  those counters and instance variables.
* Debugger and tool commands reach the thread that executes them in three ways:
  typed by the user (in console mode through `EnqueueStringCommand`), through
  CORBA (`EnqueueCommand`), or from the GUI through the command buffer of the
  tool box thread. In the GUI build a timer sends that thread an "api" command,
  with which it polls the API queue.
* The tool box thread reports to the GUI by posting events and waiting until
  they are handled.
* The Java generator gives every object of a concurrent class a `Sentinel`; its
  semantics is meant to be that of the interpreter's guards.

What makes each part correct.

* Scheduler: it never runs an operation whose permission predicate is false,
  never reports a deadlock when a thread could go on, never starves a runnable
  thread (round robin), never prefers a lower priority, and has exactly one
  running thread; the counters agree with what is on the call stacks.
* API queue: a call returns the outcome of its own command, executed once, and
  every call is answered.
* GUI worker: an event is handled before the tool box goes on, the user gives no
  command while one is executed, every command is taken and every wait ends.
* Sentinel: the same as for the guards of the interpreter, and no thread sleeps
  on when its predicate has become true.
* VICE: a call on another node is executed once and answered once; the log of a
  bus keeps its order; no work is undone when a message arrives in a CPU's past;
  a reported deadlock is one.
* Compiled statements: they end as the evaluation of their source does, with
  every trap removed and every stack as high as before.
* Specification manager (planned): the status of a unit describes the units that
  are in the repository, also after a failed command.

## 2. Modules

| module | what it is |
|---|---|
| `Schd` | the scheduler, the stack machine's loop, the history counters, the debugger's commands |
| `RequestResponse` | what the API queue promises its callers (abstract) |
| `CmdQueue` | the API queue; `Implements` is its refinement of `RequestResponse` |
| `ToolThread` | the tool box thread, the GUI thread, the API timer |
| `Sentinel` | the monitor of generated Java code |
| `RemoteCalls` | what buses and CPUs promise calls between nodes (abstract) |
| `Vice` | CPUs, buses, messages and clocks of the VICE build; `CallsAreServedOnce` is its refinement of `RemoteCalls` |
| `Sem` | the values of statements, and pattern binds |
| `Cexpr` | instructions, and the compiler of expressions and of traps, as operators |
| `Cstmt` | the compiler of statements, as operators |
| `EvalStmt` | what statements mean, as operators: the reference for `StackEval` |
| `StackEval` | the stack machine, for programs that any compiler has compiled |
| `CompiledStatements` | `StackEval` with the compiler `Cstmt`, compared with `EvalStmt` |
| `VerifiedCode` | what code keeps to the discipline of the stacks: a verifier of the machine's code |
| `MC*` | values of the constants for TLC |
| `*Proofs` | theorems |

The executed VDM++ program, the commands of clients and users and the bodies of
operations are not fixed: at every step an actor may do any of the things it can
do within the control the code imposes. The exception is `StackEval`, whose
programs are syntax trees: `MCStackEval` enumerates them, and `MCVerifiedCode`
verifies their code.

### Schd

The VDM++ build without VICE.

| variable | code |
|---|---|
| `threads`, `info` | `SCHD::threads`, a map from ids to `ThreadInfo` (object, status, evaluator, priority); ids outside the domain have `NoThread` |
| `curthread`, `next_thread_id` | `curthread_m(nil)`, `next_thread_id` |
| `classPriorityMap`, `maxPriority` | the same fields |
| `stkm` | the evaluator in the stack machine (`cs_shared_p`): the phase stands for pc, `callee` for the operation between `GUARD` and `APPLY`, `calls` for the call stack, `instrno` for the slice |
| `hist` | the history counters of every object |
| `ivar` | what the object state part of a predicate reads, a bit per object |
| `session` | what the user sees: the prompt, a breakpoint, an evaluation, or the error that ended it |

`Instruction` is one iteration of `EvalMainLoop`: `ExeGUARD`, `ExeCONTEXT` (also
any instruction the scheduler does not see, and where a breakpoint or the user's
interrupt ends the loop), `ExeAPPLY`, `ExeRETURN`, `ExeEXIT` (an exit that leaves
two operations at once), `ExeEOCL` (the end of a body), `ExeASSIGN`, `ExeSTART`,
`ExeSTOPLIST`. `Scheduler` is the switch of `EvalScheduler`: `HandleGuard`,
`HandleEndOfSlice`, `HandleDebugSuccess`, `HandleThreadSuccess`; each includes
the selection of the next thread (`SelAndRunThread`) where the code calls it.
`User` is a command at the prompt. After `GUARD` a thread can only execute
`CONTEXT` and `APPLY`; a completion belongs to the call on top. Permission
predicates are a symmetric mutex relation (`Mutex`) and an object state condition
(`StateGuarded`).

Abstractions, each on data only: all classes have the same operations and one
class per object carries its priority; `start` and `startlist` of one object
differ in nothing the model tells apart; after a run-time error, a deadlock or an
internal error only `init` is modelled, because the machine's state is then the
one the error left behind; the settings (primary and secondary algorithm, slice
length, debug information) are constants of a session; programs without threads
skip guards and are not modelled. `InitScheduler` clears the priority map and the
init command reads the priority file again; together they keep it.

### CmdQueue and RequestResponse

| variable | code |
|---|---|
| `pc`, `answer` | where a client's method or the input loop is, and what its call returns or throws |
| `methodLock` | the lock that `MUTEX_METHOD` takes for the whole of an interface method |
| `queueLock`, `commandLock`, `waiters` | `_queueLock`, `_commandLock`, and who waits on `_commandCondition` |
| `posts` | the value of `_waitSemaphore` |
| `currentCommand`, `currentStringCommand` | `_currentCommand`, `_currentStringCommand`, abstracted to the caller |
| `result`, `exceptionType`, `exceptionOf` | `_result` (also `Freed`: deleted, not reset) and the exception fields |
| `mainPc`, `quit` | the executing thread: `ExecuteMainLoop`, or `api_Periodic` in GUI mode |
| `console` | the mode, chosen in `Init` |
| `glitch` | a wait has returned without a signal |

Each lock, unlock, wait and signal is a step of its own, and so is each access to
the queue without a lock (`Check`, and `Rethrow`, which reads the exception after
the queue has been unlocked). In console mode the executing thread waits on the
semaphore; in GUI mode it polls, and there is no input thread. `MUTEX_METHOD`
matters: without it another client's command may replace the exception a call is
about to rethrow; the mutant of `Implements` shows it. A string command that
leaves no result counts as quit, as the code has it.

`RequestResponse` has, per caller, a request, its execution, the return of its
outcome and nothing after quit. `Implements` maps the call's place and the queue
to it (`CallState`, `OutcomeOf`) and is a step refinement until a wait returns
without a signal.

Not modelled: the destructor, and what each command does (its outcome is a value,
nothing or an exception).

### ToolThread

| variable | code |
|---|---|
| `commandList` | `CommandBuffer` |
| `threadPc`, `command`, `todo` | where `ToolboxThread::run` is; its command; the steps of `runCommand` that are left |
| `events` | the events posted to the main window, in order |
| `completion_flag`, `blocking_flag` | the flags of the hand-shake |
| `guiPc` | where the GUI thread is: idle, in `sendCommand`, in `userEvent`, in `saveProject` |
| `toolRunning`, `timerActive` | what `disableGUI` and `enableGUI` set; the API timer |
| `directCalls` | history: the GUI thread has called the tool box itself |

`postGUIEvent` is three steps (clear the flag, post, wait); `waitComplete` looks
at `blocking_flag` once and then only at the flag. `sendCommand` is two steps:
the command is added, then the thread is started if it has finished. `saveProject`
is the one place modelled in which the GUI thread calls the tool box itself, with
blocking switched off; the events it posts are handled by `processEvents` inside.
Once it has, one flag serves the posts of both threads, and `HandledBeforeGoingOn`
and `InputFollowsCommand` are violated; both are stated, and hold, until then.

`runCommand` has four kinds of commands. Most ("tool") run between `disableGUI` and
`enableGUI`, interpreter commands ("exec") also between `enableStop` and
`disableStop`, of which the command `init` skips the first ("init"). Three commands of
the VDM++ build, and that of the API, run with the input on
(`toolboxthread.cc:199-219`). Of these the UML window sends `CMD_UMLDiff` ("uml");
nobody sends `CMD_ResetMapper` and `CMD_SetModelName`, which take the same steps. So the
user may give commands while a comparison runs, and they wait in the buffer; and
`disableGUI` leaves a UML window that is open as it is, so that "uml" may be sent
while the input is off. `InputFollowsCommand` says what remains true: the switches
of the commands are handled in step with the commands, neither late nor early.

Not modelled: the end of the program (`cleanUp`), the event queues of
`interface2TB.cc` that nothing uses, and the direct calls of other windows. One of
them, `rose_qt4`, waits in a loop for the project to get a name; the hazard at
`mainF.cc:2254` says how it may hang.

### Sentinel

| variable | code |
|---|---|
| `req`, `act`, `fin`, `active`, `waiting` | the arrays of `Sentinel.java` |
| `monitor`, `waitSet` | the monitor of the object, and the threads in `wait()` that nobody has notified |
| `pc`, `op` | where a thread is in `entering`, and for which operation |
| `stack` | the operations whose bodies the thread is in |
| `ivar`, `changed` | what object state guards read; history: assigned since the last `notifyAll` |
| `failed` | history: a predicate has thrown |

`entering` is `Requesting`, `Test`, `Queue`, `Retest` (which waits or goes on),
`Reacquire`, `Activating`; the finally clause of the operation is `Leaving`.
`CreateMutexTable` is the generator's table, `evaluatePP` the generated predicate:
mutexes, `#waiting` guards and one object state condition. `notifyAll` is part of
every step that changes a counter. The object state is volatile and outside the
monitor. A wait may end without a notification. The tables of base classes are
merged before any thread runs and are one constant.

### Vice and RemoteCalls

| variable | code |
|---|---|
| `time`, `idle`, `cur`, `queue` | `CPUSigma`: the clock up to which a CPU has worked and has been idle, its current thread, the messages that wait per operation |
| `gate` | the instance variable that the permission predicate of the node's object reads |
| `thr`, `next_thread_id`, `cpusblocked` | the fields of `SCHD`, with `cpualloc`; `serves` is the message a thread executes, `awaits` the one whose response it waits for |
| `btime`, `lastuse`, `waiting`, `mes` | `BUSSigma`: clock, last log entry, requests not logged yet, messages on the bus |
| `nextmesid`, `curcpu`, `swaptime` | the fields of `SYSTEM` |
| `turn` | what the interpreter is doing: executing, scheduling, a bus's turn, the end |

`Instruction` is what the main loop does for the current thread on the current
CPU (work, a call to another node, a broadcast, an assignment, `start`, the end of
a body with its response); each costs time, and the loop ends when the clock
passes `swaptime`. `Scheduler` is `EvalScheduler` and `CPUSwap`: whose turn is
next is the node or bus with the smallest clock, then the order of names (`Rank`).
`BUSTurn`, `Transmit` and `EndOfBUSTurn` are `ProcessBUS`; `Deliver` is
`InsertMesInCPU` and `InsertBroadMesInCPU`. `GiveBack` is `StepCPUTimeBack`.
`RemoteCalls` keeps, of every call, its id, node and stage; ids are given in order.

What the code does and the module follows, although it may surprise:

* Of messages with equal time and priority the one with the highest id comes first
  (`InsertByTime`); `doc/rtguidelines/Vice_Development_Process.tex:560-564` calls
  all buses first come, first served.
* A message counts as in time when the CPU's *swap time* has reached it
  (`CurCPUAnyMessages`), not its clock, so that it can be executed before it is
  ready, in the past of its call. `spec/eval-spec/stack-eval.vdm:698` calls the
  time of a message the one at which it will be ready.
* A bus transmits as soon as requests wait, also messages beyond the swap time;
  the duration of a response is counted when it is put on the bus and again when
  it is transmitted; the clock of a bus whose log is empty is set to the time of
  any new message, also forward.
* A broadcast that steps a CPU's clock back loses the step.
* A thread started on a CPU that never had a current thread does not run until a
  message does (`ThreadsInTurn`).
* A CPU all of whose threads await responses never enters `cpusblocked`, so that
  a deadlock it takes part in is not reported; and none is reported in the turn
  of the virtual CPU.

### Cexpr, Cstmt, StackEval, EvalStmt and VerifiedCode

| variable | code |
|---|---|
| `program`, `program_table` | two operations, as source and as compiled (`Compiled`, which is `OpCode` in `CompiledStatements`) |
| `RTErrException` | the setting; with it the debugger wraps what it evaluates in a trap |
| `pc`, `eval_stack`, `call_stack`, `env_l`, `trap_stack` | the fields of `EvaluatorStatus`, heads first |
| `state` | the state variable that assignments assign |
| `rterror` | the evaluation has ended with a run-time error |
| `strayed` | history: an exit was taken for a value |

`S2I` compiles exit, return, assignment, call, `let`, block, index loop, `always`,
`trap` and `tixe`, with the jumps of `ConcIfThenElse`. The actions are the
instructions these need. `EXITVAL` (`GotoTrapHandler`) and run-time errors
(`ThrowRuntimeErrorException`) both lead to `HandleExit`, which cuts the four
stacks back to the lengths the trap recorded and continues at the handler, in
whatever operation set it. `EvalStmt` translates `spec/eval-spec/eval_stmt.vdm`
(recursive, as that is); where it leaves a choice, in the order of the traps of a
`tixe`, the language manual's "in order" decides. The two are independent: one
works on stacks and jumps, the other on trees and values, and
`ResultIsThatOfTheSemantics` compares the value, the state and the error.

The machine itself checks nothing: it pops what the code tells it to pop, and code
that leaves a trap set or pops an item too many ends in wrong values or in a crash.
What it counts on is stated by `VerifiedCode`, as for a verifier of byte code. A
configuration is what is known of one operation before one of its instructions: the
kinds of its items (`CONT`, an exit, a truth value, another value, any), the number
of its block environments, and its traps with what each keeps. `After` is what an
instruction does to a configuration, `Legal` what it needs, `Trapped` where an exit
to the last trap goes on; a call is one step that comes back with anything. A set of
configurations that contains the start and is closed under these steps is a
certificate (`Verified`), and `CodeIsVerified` assumes one for the code of every
operation of `Programs`. TLC evaluates that assumption in the run `statements`, where
`Reached` computes the configurations that are reached from the start: so the code
`Cstmt` yields for those programs keeps to the discipline. Programs in which an exit
meets no trap are not excluded: the `aftermath` of such an exit, which leaves
the items of the operations it ended on the stack, is part of a configuration.

Left out: positions, pre- and postconditions, dynamic type checks, objects, and
every statement and expression not named. A number stands for any value.

## 3. What the runs check

| run | configuration | properties |
|---|---|---|
| `cooperative` | PureCooperative, RoundRobin, two objects, `mutex(put, get)`, `get` also waits for the object state; exit, assign | `TypeOK`, `MutexHolds`, `GuardWindowClosed`, `HistoryIsExact`, `NoInternalError`, `ActivationIsPermitted` |
| `slices` | InstrnumSlice 2, RoundRobin, three threads, exit | `NoStarvation` |
| `debugger` | InstrnumSlice 1, PriorityBased; breakpoints, print at a breakpoint, selthread, priorityfile, stop, exit | `OneRunningThread`, `HistoryNeverUndercounts`, `DeadlockIsReal`, `PriorityIsRespected` |
| `guard_window` | InstrnumSlice 2 | violates `ActivationIsPermitted` |
| `cmd` | two clients, with the input thread in console mode | `TypeOK`, `QueueIsEmptyWhenFree`, `PostMeansCommand`, `StoredUntilExecuted`, `Implements`, `AnsweredInConsoleMode` |
| `cmd_lost_wakeup` | the same | violates `EnqueuedIsAnswered` |
| `tool` | VDM++ build with the API timer | `TypeOK`, `HandledBeforeGoingOn`, `InputFollowsCommand`, `EnabledWhenDone`, `WaitEnds`, `CommandsAreTaken` |
| `sentinel` | three threads, `mutex(put, get)`, `get` waits for `#waiting(put) = 0` and the object state and may throw | `TypeOK`, `CountersAreExact`, `MutexHolds`, `NobodySleepsInVain`, `WaitingEnds` |
| `vice` | two CPUs, the virtual CPU, two buses; a synchronous, an asynchronous and a broadcast operation | `TypeOK`, `RequestsComeFirst`, `LogIsOrdered`, `WorkIsNeverUndone`, `CallsAreServedOnce` |
| `vice_deadlock` | the same | violates `DeadlockIsReal` |
| `statements` | some 5,400 programs, with and without RTErrException | `ResultIsThatOfTheSemantics`, `TrapsCanBeRestored`, `NothingIsLeftBehind` |
| `always` | programs whose `always` handlers yield values, too | violates `ResultIsThatOfTheSemantics` |

The four violations are disagreements between the code and what is written about
it:

* `guard_window`: the language manual says the test of a permission predicate and
  the activation are one atomic operation. With InstrnumSlice the slice may end
  in between, and another thread may then activate the operation the test
  excluded.
* `cmd_lost_wakeup`: the executing thread tests the queue without a lock. When it
  polls, it may execute a command and signal before the caller waits, and the
  caller then waits forever. A comment in the code speaks of a delay against it
  that is no longer there. In console mode the semaphore keeps it from happening
  (`AnsweredInConsoleMode`).
* `vice_deadlock`: a CPU leaves `cpusblocked` only in its own turn. When the last
  CPU blocks, a deadlock is reported although a message is on its way that would
  let a thread go on; `spec/eval-spec/schd.vdm:106-108` says the set holds the
  CPUs that cannot proceed at that moment.
* `always`: the code of `always s1 in s2` removes the value of `s1` only when it is
  CONT. A value that `s1` returns becomes the result of the statement, and an exit
  of `s2` is swallowed. The manual and `eval_stmt.vdm` give the result of `s2`.

Further facts that the modelling brought up, and that no run states:

* A thread that stops itself is removed from the map, continues, and is removed
  again at its end, which is an internal error; the specification's domain
  subtraction has no such error.
* A command added between the tool box thread's last look into the buffer and its
  end is not executed until something else starts the thread
  (`toolboxthread.h:26-29`, `mainF.cc:4139`). With the API timer the next poll does
  (`tool` checks that it always happens); without CORBA there is no timer.
* In `mutex(opA, opB)` the manual (`doc/lang-man/lang_man.tex:7815-7828`)
  translates the predicate of `opA` to `#active(opB) = 0`. The Java generator
  (`mod_conc.cc:362`) and the interpreter (`CLASS::TransMutex`, where the form of
  the specification is commented out) make it `#active(opA) + #active(opB) = 0`:
  an operation of a mutex excludes itself. `Schd` and `Sentinel` model the code.
* An exit that meets no trap ends only its operation (`GotoTrapHandler`), and
  `x := f()` assigns the EXIT and goes on; `EvalAssignStmt` of the specification
  returns it. What `f` had on the evaluation stack stays there: after an exit
  inside a loop of `f`, a loop around the call reads `f`'s counters and may run for
  ever (`MaxStack` ends it in the model). `strayed` marks these evaluations. With
  RTErrException on the debugger's own trap prevents them, and
  `ResultIsThatOfTheSemantics` then holds without exception.

Three more facts bound what is checked. `selthread` makes a blocked thread run
without evaluating its predicate again, so the runs with `ActivationIsPermitted`
leave it out. Priority files admit 0, and a thread of that priority is in none of
the lists `FindNextThread` searches; nor is a thread whose priority is above the
maximum a later file sets. The run with `DeadlockIsReal`, `debugger`, reads files
during the session, with priorities of 1 and 2, which stay within every maximum:
there the deadlock reports are right because `SetPriorityMap` also changes the
priority of the debug thread. POSIX lets a condition wait return without a signal,
and `EnqueueCommand` tests nothing after it, so that it then takes a result that
is not there and the next call meets a queue that is not empty; the properties of
`CmdQueue` that need it say `glitch`, and `StoredUntilExecuted` holds all the
same because the assertions stop the program.

### Bounds

* `Schd`: `MaxThreads` (ids handed out between two initialisations), `MaxReq`
  (requests counted per operation and object), `MaxDepth` (call stack entries). A
  step that would pass one is not taken; the machine can always do something
  else. Three threads are the least with which a waiting thread can be overtaken
  by one that is itself waited for; two calls per operation let a predicate
  become false, true and false again; three call stack entries let an exit leave
  two operations above a debugger command.
* `CmdQueue`: two clients, so that each interface lock and each shared field is
  contended; with the input thread both kinds of commands meet. `MaxPosts` bounds
  the semaphore in GUI mode, where nobody waits on it; `SignalCommand` waits at the
  bound, which in console mode is never reached (`PostMeansCommand`). In GUI mode
  the bound stops callers after the fourth command: what one call leaves behind
  (a result, an exception, a flag) meets the next one three times. One wait may return without a signal.
* `ToolThread`: `MaxBuffer` user commands, so that a command is added behind
  another; `MaxEvents` events pending when the tool box posts one, which without
  direct calls is never more than one.
* `Sentinel`: `MaxReq` requests per operation, also those not counted yet;
  `MaxDepth` nested calls. Three threads with two requests per operation let one
  be active, one wait and one arrive.

* `Vice`: `MaxTime` stops the instructions of a CPU whose clock has passed it, not
  the turns; two calls that cost a message and a response each (`MaxMes`), so that
  messages of one bus overtake each other; three threads, so that one can be
  started by a message while one awaits a response. The report of a deadlock in the
  turn of a CPU without threads (`CPUWaits`) needs a fourth thread; the one in the
  turn of a CPU with blocked threads is reached.
* `StackEval`: every statement of `Nested` (an atom, or an atom in one surrounding,
  with five handlers) alone and in eight surroundings, and four operations to call,
  which assign, return, leave a loop by an exit, and trap and exit again. So every
  handler exits, returns, assigns and calls, inside and outside every other.
  `MaxStack` is above what any program needs that does not take an exit for a
  value.

### Fairness

* `Schd`: weak fairness of `Instruction \/ Scheduler`. The loop of
  `EvalScheduler` executes instructions as long as an evaluation is under way;
  nothing is assumed of which instruction a program executes, nor of the user.
* `CmdQueue`: weak fairness of the executing thread and of every call under way,
  as long as the process lives. Nobody has to call.
* `ToolThread`: weak fairness of both threads. Strong fairness of the timer,
  which fires again and again while it is active, also when the user keeps
  sending commands; and of the spinning thread's look at the flag, which it
  repeats every few microseconds whatever the user saves.
* `Vice` and `StackEval` state no fairness: their properties are safety.
* `Sentinel`: strong fairness of entering and leaving, per thread: bodies end,
  and the virtual machine keeps no thread from a monitor that is free again and
  again. Java promises no fairness of monitors; `WaitingEnds` says what holds
  when the machine is fair.

## 4. What is proved

All theorems are for every value of the constants that satisfies the module's
assumption (finite sets of objects, threads, clients or nodes, any operations,
mutexes, predicates, priorities, topologies and bounds). Every invariant and every
action property of the passing runs is a theorem, but for
`ResultIsThatOfTheSemantics`.
The inductive invariants named below are formulas of the proof modules that TLC can
evaluate: added as INVARIANTs to a copy of the component's configuration, with a
module that extends the MC module and the proof module, they hold on the instances
of section 3, and those instances satisfy the assumptions of the theorems about them.
The exception is `StacksFit` of `StackEvalProofs`, which TLC cannot evaluate because
it quantifies over functions; TLC evaluates the assumption it rests on and checks the
two properties that follow from it.

### Schd (`SchdProofs`, `SchdHistoryProofs`)

* `TypeCorrect`: `Spec => []TypeOK`. The part that needs an argument is that
  `FindNextThread` has a value and `MaxPriority` a maximum (`FirstCandidate`,
  `MaxPriorityIsMax`): both orders are mapped to the naturals and the
  well-foundedness of `<` gives a least element.
* `OneThreadRuns`: `Spec => []OneRunningThread`, from `TypeOK` and the fact that
  ids above `next_thread_id` are not in use. Each step is one of a few shapes
  (the machine keeps the threads, switches, ends), stated by `SchedulerSteps`.
* `DeadlockReportsAreReal`: `DeadlockIsReal` under `SoundPriorities`. The
  strengthening is `PrioritiesListed`: every thread's priority is between 1 and
  `maxPriority`, so that every thread is in some list.
* `PrioritiesAreRespected`: `PriorityIsRespected` under PriorityBased and
  `SoundPriorities`. `FindNextThread` takes the lists from `maxPriority` down, so the
  selected thread has the highest priority of those that can go on, provided no
  thread is above `maxPriority`.
* `CooperativeClosesGuardWindow`, `CooperativeMutex`, `CooperativeActivation`:
  under `Cooperative` the test of a predicate and the activation are as good as
  atomic. `MutexHolds` is not inductive: an activation preserves it only because
  the predicate is still true then. The invariant adds `WindowInv`: evaluators on
  the call stack are between instructions that call, the machine at a prompt has
  no call under way, and every swapped out thread with a call under way is Blocked
  on that call, so that it is tested again when it is selected. The run
  `guard_window` shows that the assumption is needed.
* `NoInternalErrors`: `NoInternalError` under `Undisturbed`. `CommandInv` says how
  the frames an evaluator holds fit the command it serves: the debug thread always
  exists and has the command's frame below those of the operations it called, the
  frames of every other thread are those of operations, and none is left when a
  thread ends or at the prompt.
* `CountersNeverUndercount` (no assumption) and `CountersAreExact` (under
  `Undisturbed`). Calls on call stacks (`ActiveCalls`) and requests under way
  (`WaitingCalls`) are counted as sets of pairs of a thread and a position. First
  every step is shown to be of one of the kinds of `WorkKinds`: it requests,
  activates or completes a call (an exit two), starts, ends, stops or switches
  threads, or changes no call at all (`StepKinds`). Then, per kind, the step changes the cardinalities by as much as
  the counters, or takes calls off the stacks without counting (a stop, an
  evaluation that is given up). So the surplus of the counters (`MoreActive`,
  `MoreWaiting`) is never negative, and 0 where nothing of the second sort happens.
  The positions of a push are within the bound because of `DepthInv`.

The assumptions on constants:

* `Cooperative`: PureCooperative, no breakpoints, no selthread.
* `SoundPriorities`: with PriorityBased, every entry of a priority file is at
  least 1, and if files are loaded during a session none has an entry above the
  maximum of another. The hazard at `schd.cc:2235` is what happens without it.
* `Undisturbed`: no stop statements, no print at a breakpoint, no selthread. A
  thread that stops itself does end in an internal error, a stopped thread takes
  its calls with it uncounted, and what the other two do to the current evaluation
  is not undone. Breakpoints, slices, priorities and exits are all allowed.

### Vice (`ViceProofs`, `ViceCallsProofs`)

For any finite sets of CPUs, buses, objects and operations, any topology, durations
and costs.

* `MachineIsSound`, `TypeCorrect`: `TypeOK` is not inductive, because the scheduler
  goes on with the current thread of a CPU and a response wakes up the thread it
  names. The inductive conjunction is `MachineInv` (the types; the current thread of
  a CPU is one of its threads; ids from `next_thread_id` on are not in use; message
  ids on a bus are unique) and `KnownThreads` (no message names a thread that does
  not exist yet).
* `RequestsAreFirst`: `RequestsComeFirst`, with `RequestsInOrder`: the requests
  a bus has not logged yet are in the order of time, so that the loop takes off those
  that are due and no other.
* `LogsAreOrdered`: `LogIsOrdered`, from `BusClock`: the clock of a bus may be
  stepped back, but never behind its last entry.
* `WorkStaysDone`: `WorkIsNeverUndone`, per step from `MachineInv`: what
  `StepCPUTimeBack` gives back is idle time.
* `CallsAreServed`: `CallsAreServedOnce`, the refinement of `RemoteCalls`. `CallInv`
  says that a message is in one place per node (on a bus, in a queue of the node, or
  with the thread that executes it: `InOnePlace`), that different messages have
  different ids, that a call is gone when its response is under way
  (`AnsweredOnce`), and that a thread awaits the answer to a call exactly when the
  message of the call names it (`AwaitedByItsThread`). Each action then is one step
  of `RemoteCalls` (`Call`, `Start`, `Return`, `Resume`) or none.

### StackEval (`StackEvalProofs`)

For any programs and any compiler, provided that the code of every operation and of
the debugger's prompt has a certificate (`CodeIsVerified`). Nothing is assumed of
what the operations do: they may call each other to any depth, take exits across
any number of operations, end in run-time errors with or without `RTErrException`,
and take exits for values. Code without a certificate does falsify the theorems: a
body that ends without `POPTH` leaves a trap of an operation that is gone.

* `OperationsKeepToTheirCode` (`StacksFit`) is the inductive invariant. A certificate
  speaks of one operation, the stacks are shared by all of them. `Fits(C, B, K)` says
  that there are configurations `C`, one per entry of the call stack, and heights `B`
  and `K` at which the items and the traps of each operation begin, such that
  every operation is at its configuration or waits there for a call
  (`OperationsFit`), has the items (`ItemsFit`), block environments
  (`EnvironmentsFit`) and traps (`TrapsFit`) of it, and one operation's items end
  where those of the next begin (`Tight`). The last is not inductive: an exit that
  meets no trap ends an operation without cutting the evaluation stack. `LeftBehind`
  weakens it to what holds then: items of nobody lie only below operations that no
  trap is below, and an operation that has them is in the aftermath of the exit, with
  the exit on top, or the exit has been taken for a value.
* `FitsAgain` is the one lemma about stacks of operations: when a step keeps what is
  below the height `m` and puts the operation there into a configuration of its
  certificate, the invariant holds again. An instruction uses it with the operation on
  top, an exit with the operation that set the trap (`ExitFits`), the end of an
  operation with its caller (`ComesBackExactly`, and `ComesBackAbove` after an exit).
* `TrapsAreRestorable` (`TrapsCanBeRestored`): a trap belongs to an operation
  (`TrapHasOwner`), whose configuration says what it keeps; traps of one operation are
  in order by `TrapsAreKept`, traps of different ones because their items are.
* `NothingStaysBehind` (`NothingIsLeftBehind`): at the end only the prompt is on the
  call stack, and its certificate ends with one item, no block environment and no
  trap.

That a compiler only ever yields code with a certificate is an induction over
statements, which is out of the prover's reach; for `Cstmt` TLC checks it of every
program of the run `statements`. It is not so of the programs that only the run
`always` executes: an `always` statement whose first statement yields a value leaves
the result of the second one below it, and such code has no certificate.

### CmdQueue (`CmdQueueProofs`)

The inductive invariant is `QueueInv`, which holds until a wait returns without a
signal (`QueueInvariant`): who is between which lock and unlock owns that lock, a
command in the queue belongs to the owner of the queue, and a result is there only
between an execution and its collection. From it `EmptyWhenFree`
(`QueueIsEmptyWhenFree`), `ReturnsAfterExecution` (no call goes on before its
command was executed) and `QueueImplements` (`Implements`: every step of the queue
is a step of `RequestResponse` or a stutter).

`PostsAreCommands` (`PostMeansCommand`) adds `SemaphoreInv` in console mode: the
semaphore and the executing thread share one token per command, which appears
when the caller signals, is at the executing thread from `WaitForCommand` to
`SignalDone`, and is gone before the caller leaves. The unlocked test of the queue
is harmless there because the token exists only while the command does.

Two theorems hold whatever the condition variable does. `StoredCommands`
(`StoredUntilExecuted`) rests on the assertions and on the owner of `commandLock`.
`TypeCorrect` needs that the executing thread, once it has seen a command, still
finds one after the lock (`TypeInv`): nobody else takes commands out.

### ToolThread (`ToolThreadProofs`)

`SynchronousPosts` (`HandledBeforeGoingOn`): the invariant relates the flag to the
pending event: while the thread waits, either its event is pending or being
handled and the flag is clear, or it is handled. `TypeCorrect`,
`InputIsOffForLockingCommands` (`InputFollowsCommand`) and `InputComesBack` (`EnabledWhenDone`) come from
`LockOutInv`: the last switch of the input that is to come, among the steps that are
left and the events pending, enables it, or none is to come and it is enabled
(`InputInv`); a command works between its two switches or has none (`ScriptInv`);
between them it has disabled the input or the event that does is pending
(`LockInv`); and the timer's command is in the buffer at
most once (`BufferInv`), which bounds the buffer.

### Sentinel (`SentinelProofs`)

`Inv` is: the thread in the monitor is the one at a
step that needs it (`MonitorInv`); `active` counts the places of an operation on
all stacks and is `act - fin` (`ActiveInv`); `waiting` is at least the number of
threads between `waiting(+1)` and `waiting(-1)`, exactly until a predicate throws
(`WaitingInv`); `req - act` is the number of threads in `entering` (`RequestInv`);
between the last evaluation of the predicate and the activation nothing of the
mutex is active (`PermittedInv`). The sets are counted with one lemma for a step
that adds or removes an element (`OneElement`) and one each for a push and a pop
of a stack. From it `TypeCorrect` (no counter becomes negative), `MutexIsKept`,
`CountersCount`, and with the step argument that every change of a counter empties
the wait set `WakeUpsSuffice` (`NobodySleepsInVain`).

### Only model-checked

* The liveness properties `NoStarvation`, `AnsweredInConsoleMode`, `WaitEnds`,
  `CommandsAreTaken`, `WaitingEnds`: they rest on fairness, and so on ENABLED,
  which is out of the prover's reach.
* `ResultIsThatOfTheSemantics`: the compiler and the reference semantics are
  recursive over syntax trees, and the prover has neither recursive operators nor
  induction over such data.
* That the code `Cstmt` yields has a certificate, for the same reason.

## 5. What is not modelled, and the plan

In this order:

1. `Vice`: periodic and sporadic threads (`NextMin`, `NextMax`: the first release is
   relative to the start, later ones absolute, and TimePerThread draws random
   durations) and the stop statement.
2. `Cstmt`: while, set and sequence loops, if, cases, nondeterministic statements;
   functions with pre- and postconditions.
3. Debugger: breakpoint tables, step, singlestep, finish, and their interplay
   with thread switches.
4. The specification manager's hand-written part (`specman/code`): repository,
   status, session.
5. Values of the library (`metaiv.cc`): sharing and copy on write.
6. Theorems: `Schd` and `Sentinel` as implementations of one abstract guarded
   object; `NoInternalErrors` with stop statements that stop other threads.

Not planned: parser, type checker, code generators, proof obligation generator,
pretty printers and UML translation are functions of their input, whose space is
out of a model checker's reach; logs and their validation are offline; vendored
code and build support have no behaviour of this system.
