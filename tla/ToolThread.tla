------------------------------ MODULE ToolThread ------------------------------
(***************************************************************************)
(* The tool box thread of the Qt GUI and the GUI thread                    *)
(* (code/qtgui/toolboxthread.cc, mainF.cc, vdm.cc).  The GUI thread puts   *)
(* commands into the command buffer and starts the tool box thread when it *)
(* has finished; the tool box thread executes them and posts GUI events,   *)
(* each of which it waits for, unless the GUI thread has switched blocking *)
(* off because it calls the tool box itself.                               *)
(*                                                                         *)
(* A command is its kind and the steps of runCommand that matter here, an  *)
(* event its kind and the thread that posted it.  Most of the user's       *)
(* commands disable the input while they run; the comparison of classes    *)
(* with a UML model (CMD_UMLDiff, in the VDM++ build) does not.  The end   *)
(* of the program (quiting, cleanUp) is not modelled.                      *)
(***************************************************************************)
EXTENDS Naturals, Sequences, FiniteSets, SequencesExt

CONSTANTS
  UsesCorba,        \* the timer polls the API command queue
  MaxBuffer,        \* bound: commands of the user in the buffer
  MaxEvents         \* bound: events pending when the tool box thread posts one

ASSUME ToolThreadAssumption ==
  /\ UsesCorba \in BOOLEAN
  /\ {MaxBuffer, MaxEvents} \subseteq Nat \ {0}

VARIABLES
  commandList,      \* CommandBuffer
  threadPc,         \* where ToolboxThread::run is
  command,          \* the command that run has taken, or "none"
  todo,             \* the steps of runCommand that are left
  events,           \* the events posted to the main window
  completion_flag,
  blocking_flag,
  guiPc,            \* where the GUI thread is
  toolRunning,      \* the input is disabled
  timerActive,      \* the API timer
  directCalls       \* history: the GUI thread has called the tool box itself

guiVars == <<toolRunning, timerActive>>
vars == <<commandList, threadPc, command, todo, events, completion_flag, blocking_flag, guiPc,
          guiVars, directCalls>>

-----------------------------------------------------------------------------
(* Types.                                                                    *)

\* The commands that runCommand puts between disableGUI and enableGUI.
LockingCommands == {"tool", "exec", "init"}

UserCommands == LockingCommands \cup {"uml"}

Commands == UserCommands \cup {"api"}

\* "Log" stands for all that the tool box reports while it works.
EventKinds == {"EnableStop", "DisableInput", "Log", "EnableInput", "DisableStop"}

Events == [kind : EventKinds, from : {"tool", "gui"}]

\* "init" is the interpreter command of that name, which cannot be stopped.  "uml"
\* is CMD_UMLDiff; CMD_ResetMapper and CMD_SetModelName, which no window sends,
\* have the same steps.
runCommand(c) ==
  CASE c = "tool" -> <<"DisableInput", "Log", "EnableInput">>
    [] c = "exec" -> <<"EnableStop", "DisableInput", "Log", "EnableInput", "DisableStop">>
    [] c = "init" -> <<"DisableInput", "Log", "EnableInput", "DisableStop">>
    [] c \in {"uml", "api"} -> <<"Log">>

\* "ended": run has returned, isFinished does not say so yet.
ThreadPCs == {"test", "take", "step", "post", "wait", "spin", "ended", "finished"}

GuiPCs == {"idle", "start", "complete", "save", "post", "drain", "drained", "unblock"}

TypeOK ==
  /\ commandList \in Seq(Commands) /\ Len(commandList) <= MaxBuffer + 1
  /\ threadPc \in ThreadPCs
  /\ command \in Commands \cup {"none"}
  /\ todo \in Seq(EventKinds)
  /\ events \in Seq(Events)
  /\ {completion_flag, blocking_flag, toolRunning, timerActive, directCalls} \subseteq BOOLEAN
  /\ guiPc \in GuiPCs

\* The constructor of ToolboxThread starts the thread; the windows are built.
Init ==
  /\ commandList = <<>>
  /\ threadPc = "test"
  /\ command = "none"
  /\ todo = <<>>
  /\ events = <<>>
  /\ completion_flag = FALSE
  /\ blocking_flag = TRUE
  /\ guiPc = "idle"
  /\ toolRunning = FALSE
  /\ timerActive = UsesCorba
  /\ directCalls = FALSE

-----------------------------------------------------------------------------
(* The tool box thread.                                                      *)

ThreadGoto(from, to) ==
  /\ threadPc = from
  /\ threadPc' = to

TestEmpty ==
  /\ ThreadGoto("test", IF commandList = <<>> THEN "ended" ELSE "take")
  /\ UNCHANGED <<commandList, command, todo, events, completion_flag, blocking_flag, guiPc,
                 guiVars, directCalls>>

Finish ==
  /\ ThreadGoto("ended", "finished")
  /\ UNCHANGED <<commandList, command, todo, events, completion_flag, blocking_flag, guiPc,
                 guiVars, directCalls>>

GetCommand ==
  /\ ThreadGoto("take", "step")
  /\ command' = Head(commandList)
  /\ todo' = runCommand(Head(commandList))
  /\ commandList' = Tail(commandList)
  /\ UNCHANGED <<events, completion_flag, blocking_flag, guiPc, guiVars, directCalls>>

CommandDone ==
  /\ todo = <<>>
  /\ ThreadGoto("step", "test")
  /\ command' = "none"
  /\ UNCHANGED <<commandList, todo, events, completion_flag, blocking_flag, guiPc,
                 guiVars, directCalls>>

\* The tool box has nothing to report.
WorkSilently ==
  /\ todo # <<>> /\ Head(todo) = "Log"
  /\ ThreadGoto("step", "step")
  /\ todo' = Tail(todo)
  /\ UNCHANGED <<commandList, command, events, completion_flag, blocking_flag, guiPc,
                 guiVars, directCalls>>

\* postGUIEvent: setComplete(false), postEvent, waitComplete.
BeginPost ==
  /\ todo # <<>>
  /\ ThreadGoto("step", "post")
  /\ completion_flag' = FALSE
  /\ UNCHANGED <<commandList, command, todo, events, blocking_flag, guiPc, guiVars, directCalls>>

PostEvent ==
  /\ Len(events) < MaxEvents
  /\ ThreadGoto("post", "wait")
  /\ events' = Append(events, [kind |-> Head(todo), from |-> "tool"])
  /\ todo' = Tail(todo)
  /\ UNCHANGED <<commandList, command, completion_flag, blocking_flag, guiPc, guiVars, directCalls>>

\* Mutant: the thread never waits.
WaitComplete_never ==
  /\ ThreadGoto("wait", "step")
  /\ UNCHANGED <<commandList, command, todo, events, completion_flag, blocking_flag, guiPc,
                 guiVars, directCalls>>

\* waitComplete asks whether to block, and then for nothing but the flag.
WaitComplete ==
  /\ ThreadGoto("wait", IF blocking_flag THEN "spin" ELSE "step")
  /\ UNCHANGED <<commandList, command, todo, events, completion_flag, blocking_flag, guiPc,
                 guiVars, directCalls>>

Completed ==
  /\ completion_flag
  /\ ThreadGoto("spin", "step")
  /\ UNCHANGED <<commandList, command, todo, events, completion_flag, blocking_flag, guiPc,
                 guiVars, directCalls>>

Thread ==
  \/ TestEmpty
  \/ Finish
  \/ GetCommand
  \/ CommandDone
  \/ WorkSilently
  \/ BeginPost
  \/ PostEvent
  \/ WaitComplete
  \/ Completed

-----------------------------------------------------------------------------
(* The GUI thread.                                                           *)

GuiGoto(from, to) ==
  /\ guiPc = from
  /\ guiPc' = to

\* sendCommand adds the command, then looks whether the thread has finished.
\* disableGUI keeps the UML window from being opened, and leaves one that is open
\* as it is.
SendCommand(c) ==
  /\ c = "uml" \/ ~toolRunning
  /\ Cardinality({i \in DOMAIN commandList : commandList[i] \in UserCommands}) < MaxBuffer
  /\ GuiGoto("idle", "start")
  /\ commandList' = Append(commandList, c)
  /\ UNCHANGED <<threadPc, command, todo, events, completion_flag, blocking_flag,
                 guiVars, directCalls>>

StartIfFinished ==
  /\ GuiGoto("start", "idle")
  /\ threadPc' = IF threadPc = "finished" THEN "test" ELSE threadPc
  /\ UNCHANGED <<commandList, command, todo, events, completion_flag, blocking_flag,
                 guiVars, directCalls>>

\* Mutants: the timer does not look whether the thread has finished; it asks
\* whether the buffer is empty.
ApiPeriodic_always ==
  /\ timerActive
  /\ ~toolRunning
  /\ Len(commandList) < 2 * MaxBuffer
  /\ GuiGoto("idle", "start")
  /\ commandList' = Append(commandList, "api")
  /\ UNCHANGED <<threadPc, command, todo, events, completion_flag, blocking_flag,
                 guiVars, directCalls>>

ApiPeriodic_whenEmpty ==
  /\ timerActive
  /\ threadPc = "finished"
  /\ ~toolRunning
  /\ commandList = <<>>
  /\ GuiGoto("idle", "start")
  /\ commandList' = Append(commandList, "api")
  /\ UNCHANGED <<threadPc, command, todo, events, completion_flag, blocking_flag,
                 guiVars, directCalls>>

\* The timer sends an api command, which executes a queued command of the API.
ApiPeriodic ==
  /\ timerActive
  /\ threadPc = "finished"
  /\ ~toolRunning
  /\ GuiGoto("idle", "start")
  /\ commandList' = Append(commandList, "api")
  /\ UNCHANGED <<threadPc, command, todo, events, completion_flag, blocking_flag,
                 guiVars, directCalls>>

\* userEvent.  disableGUI stops the timer, enableGUI starts it.
Handle(e) ==
  CASE e.kind = "DisableInput" -> toolRunning' = TRUE /\ timerActive' = FALSE
    [] e.kind = "EnableInput" -> toolRunning' = FALSE /\ timerActive' = UsesCorba
    [] OTHER -> UNCHANGED guiVars

\* Mutants: an early return for one kind of event; the newest event first.
UserEvent_stopReturns ==
  /\ events # <<>>
  /\ \/ Head(events).kind = "EnableStop" /\ guiPc \in {"idle", "drain"} /\ UNCHANGED guiPc
     \/ Head(events).kind # "EnableStop" /\ (GuiGoto("idle", "complete") \/ GuiGoto("drain", "drained"))
  /\ events' = Tail(events)
  /\ Handle(Head(events))
  /\ UNCHANGED <<commandList, threadPc, command, todo, completion_flag, blocking_flag, directCalls>>

UserEvent_newestFirst ==
  /\ events # <<>>
  /\ \/ GuiGoto("idle", "complete") \/ GuiGoto("drain", "drained")
  /\ events' = Front(events)
  /\ Handle(Last(events))
  /\ UNCHANGED <<commandList, threadPc, command, todo, completion_flag, blocking_flag, directCalls>>

UserEvent ==
  /\ events # <<>>
  /\ \/ GuiGoto("idle", "complete") \/ GuiGoto("drain", "drained")
  /\ events' = Tail(events)
  /\ Handle(Head(events))
  /\ UNCHANGED <<commandList, threadPc, command, todo, completion_flag, blocking_flag, directCalls>>

\* userEvent ends with setComplete(true).
SetComplete ==
  /\ \/ GuiGoto("complete", "idle") \/ GuiGoto("drained", "drain")
  /\ completion_flag' = TRUE
  /\ UNCHANGED <<commandList, threadPc, command, todo, events, blocking_flag, guiVars, directCalls>>

\* saveProject switches blocking off and calls the tool box, which posts events
\* that processEvents handles in this very thread.
SaveProject ==
  /\ ~toolRunning
  /\ GuiGoto("idle", "save")
  /\ blocking_flag' = FALSE
  /\ directCalls' = TRUE
  /\ UNCHANGED <<commandList, threadPc, command, todo, events, completion_flag, guiVars>>

SaveBeginPost ==
  /\ GuiGoto("save", "post")
  /\ completion_flag' = FALSE
  /\ UNCHANGED <<commandList, threadPc, command, todo, events, blocking_flag, guiVars, directCalls>>

SavePostEvent ==
  /\ GuiGoto("post", "drain")
  /\ events' = Append(events, [kind |-> "Log", from |-> "gui"])
  /\ UNCHANGED <<commandList, threadPc, command, todo, completion_flag, blocking_flag,
                 guiVars, directCalls>>

ProcessedEvents ==
  /\ events = <<>>
  /\ GuiGoto("drain", "unblock")
  /\ UNCHANGED <<commandList, threadPc, command, todo, events, completion_flag, blocking_flag,
                 guiVars, directCalls>>

SaveDone ==
  /\ GuiGoto("unblock", "idle")
  /\ blocking_flag' = TRUE
  /\ UNCHANGED <<commandList, threadPc, command, todo, events, completion_flag,
                 guiVars, directCalls>>

\* What the GUI thread does without the user.
Gui ==
  \/ StartIfFinished
  \/ UserEvent
  \/ SetComplete
  \/ SaveBeginPost
  \/ SavePostEvent
  \/ ProcessedEvents
  \/ SaveDone

User == SaveProject \/ \E c \in UserCommands : SendCommand(c)

Next == Thread \/ Gui \/ ApiPeriodic \/ User

Spec == Init /\ [][Next]_vars

\* Both threads run.  A timer that keeps running fires again and again, and the
\* spinning thread, which looks every few microseconds, finds the flag set
\* however often the user saves the project.
FairSpec ==
  /\ Spec
  /\ WF_vars(Thread) /\ WF_vars(Gui)
  /\ SF_vars(Completed) /\ SF_vars(ApiPeriodic)

-----------------------------------------------------------------------------
(* Properties.                                                               *)

PendingOfTool == {i \in DOMAIN events : events[i].from = "tool"}

\* Unless the GUI thread calls the tool box itself, the tool box thread goes on
\* only when the GUI has handled the event it posted: at most one of its events
\* is pending, and none while it works.
HandledBeforeGoingOn ==
  ~directCalls =>
    /\ \A i, j \in PendingOfTool : i = j
    /\ threadPc \notin {"wait", "spin"} => PendingOfTool = {}

\* Unless the GUI thread calls the tool box itself, the input is off while the tool
\* box works on a command that runCommand puts between disableGUI and enableGUI,
\* and on while it works on another one (UML comparison, API): the events that
\* switch it are neither late nor early, whatever was sent meanwhile.
InputFollowsCommand ==
  ~directCalls /\ threadPc \in {"step", "post"} /\ todo # <<>> /\ Head(todo) = "Log"
    => (toolRunning <=> command \in LockingCommands)

\* When all is done the user can give commands again, and the timer runs.
EnabledWhenDone ==
  threadPc \in {"ended", "finished"} /\ events = <<>>
    => ~toolRunning /\ timerActive = UsesCorba

\* The tool box thread never waits for an event that nobody will handle.
WaitEnds == threadPc = "spin" ~> threadPc = "step"

\* ToolboxThread executes the commands of the buffer (toolboxthread.h:26-29): a
\* command that was sent is taken.
CommandsAreTaken == commandList # <<>> ~> threadPc = "take"
=============================================================================
