-------------------------- MODULE ToolThreadProofs --------------------------
(***************************************************************************)
(* Until the GUI thread calls the tool box itself, the one completion flag *)
(* is enough for the hand-shake of the two threads, and the input is off   *)
(* exactly while the tool box works on a command that disables it.  When   *)
(* all is done it is on, in any case.                                      *)
(***************************************************************************)
EXTENDS ToolThread, SequenceTheorems, FiniteSetTheorems, TLAPS

Waiting == threadPc \in {"wait", "spin"}

\* The types, and that the thread takes a command or posts an event only if
\* there is one.
WorkInv ==
  /\ commandList \in Seq(Commands)
  /\ command \in Commands \cup {"none"}
  /\ todo \in Seq(EventKinds)
  /\ events \in Seq(Events)
  /\ {completion_flag, directCalls} \subseteq BOOLEAN
  /\ threadPc \in ThreadPCs
  /\ threadPc = "take" => commandList # <<>>
  /\ threadPc = "post" => todo # <<>>

\* The flag is set only between the handling of an event and the next post.
HandshakeInv ==
  /\ blocking_flag = TRUE
  /\ guiPc \in {"idle", "start", "complete"}
  /\ Len(events) <= 1
  /\ ~Waiting => events = <<>>
  /\ guiPc = "complete" => Waiting /\ events = <<>>
  /\ threadPc = "post" => ~completion_flag
  /\ Waiting /\ completion_flag => events = <<>> /\ guiPc # "complete"

Inv == WorkInv /\ (~directCalls => HandshakeInv)

LEMMA EventFacts ==
  ASSUME events \in Seq(Events)
  PROVE  /\ Len(events) \in Nat
         /\ \A e \in Events : /\ Append(events, e) \in Seq(Events)
                              /\ Len(Append(events, e)) = Len(events) + 1
         /\ events # <<>> => Tail(events) \in Seq(Events) /\ Len(Tail(events)) = Len(events) - 1
         /\ Len(<<>>) = 0
         /\ \A s \in Seq(Events) : Len(s) = 0 => s = <<>>
BY EmptySeq, LenProperties, AppendProperties, HeadTailProperties

LEMMA TodoFacts ==
  ASSUME todo \in Seq(EventKinds), todo # <<>>
  PROVE  Head(todo) \in EventKinds /\ Tail(todo) \in Seq(EventKinds)
BY HeadTailProperties

LEMMA ScriptType == \A c \in Commands : runCommand(c) \in Seq(EventKinds)
<1>1. runCommand("tool") = <<"DisableInput", "Log", "EnableInput">>
  BY DEF runCommand
<1>2. runCommand("exec") =
        <<"EnableStop", "DisableInput", "Log", "EnableInput", "DisableStop">>
  BY DEF runCommand
<1>3. runCommand("api") = <<"Log">> /\ runCommand("uml") = <<"Log">>
  BY DEF runCommand
<1>4. runCommand("init") = <<"DisableInput", "Log", "EnableInput", "DisableStop">>
  BY DEF runCommand
<1>5. {"EnableStop", "DisableInput", "Log", "EnableInput", "DisableStop"} \subseteq EventKinds
  BY DEF EventKinds
<1>6. <<"DisableInput", "Log", "EnableInput">> \in Seq(EventKinds)
  BY <1>5
<1>7. <<"EnableStop", "DisableInput", "Log", "EnableInput", "DisableStop">> \in Seq(EventKinds)
  BY <1>5
<1>8. <<"Log">> \in Seq(EventKinds)
  BY <1>5
<1>9. <<"DisableInput", "Log", "EnableInput", "DisableStop">> \in Seq(EventKinds)
  BY <1>5
<1>10. QED
  BY <1>1, <1>2, <1>3, <1>4, <1>6, <1>7, <1>8, <1>9 DEF Commands, UserCommands, LockingCommands

LEMMA BufferFacts ==
  ASSUME commandList \in Seq(Commands)
  PROVE  /\ \A c \in Commands : /\ Append(commandList, c) \in Seq(Commands)
                                /\ Append(commandList, c) # <<>>
         /\ commandList # <<>> => /\ Head(commandList) \in Commands
                                  /\ Tail(commandList) \in Seq(Commands)
BY AppendProperties, HeadTailProperties

LEMMA InitInv == Init => Inv
<1>1. /\ <<>> \in Seq(Commands) /\ <<>> \in Seq(EventKinds) /\ <<>> \in Seq(Events)
      /\ Len(<<>>) = 0
  BY EmptySeq
<1>2. Init => WorkInv
  <2> SUFFICES ASSUME Init PROVE WorkInv
    OBVIOUS
  <2>1. commandList \in Seq(Commands) /\ todo \in Seq(EventKinds) /\ events \in Seq(Events)
    BY <1>1, Zenon DEF Init
  <2>2. threadPc = "test" /\ command = "none" /\ completion_flag = FALSE /\ directCalls = FALSE
    BY DEF Init
  <2>3. QED
    BY <2>1, <2>2 DEF WorkInv, ThreadPCs
<1>3. Init => HandshakeInv
  <2> SUFFICES ASSUME Init PROVE HandshakeInv
    OBVIOUS
  <2>1. Len(events) = 0 /\ events = <<>>
    BY <1>1, Zenon DEF Init
  <2>2. QED
    BY <2>1 DEF Init, HandshakeInv, Waiting
<1>4. QED
  BY <1>2, <1>3 DEF Inv

LEMMA ThreadStep ==
  ASSUME Inv, Thread
  PROVE  Inv'
<1> USE EventFacts, BufferFacts, TodoFacts
    DEF Inv, WorkInv, HandshakeInv, Waiting, ThreadGoto, ThreadPCs, guiVars
<1>1. CASE TestEmpty
  BY <1>1 DEF TestEmpty
<1>2. CASE Finish
  BY <1>2 DEF Finish
<1>3. CASE GetCommand
  BY <1>3, ScriptType DEF GetCommand
<1>4. CASE CommandDone
  BY <1>4 DEF CommandDone
<1>5. CASE WorkSilently
  BY <1>5 DEF WorkSilently
<1>6. CASE BeginPost
  BY <1>6 DEF BeginPost
<1>7. CASE PostEvent
  <2>1. [kind |-> Head(todo), from |-> "tool"] \in Events
    BY <1>7 DEF PostEvent, Events
  <2>2. WorkInv' /\ ~completion_flag' = ~completion_flag /\ directCalls' = directCalls
    BY <1>7, <2>1 DEF PostEvent
  <2>3. SUFFICES ASSUME ~directCalls PROVE HandshakeInv'
    BY <2>2
  <2>4. HandshakeInv /\ events = <<>> /\ threadPc = "post" /\ threadPc' = "wait"
    BY <1>7, <2>3 DEF PostEvent
  <2>5. Len(events') = 1
    BY <1>7, <2>1, <2>4 DEF PostEvent
  <2>6. QED
    BY <1>7, <2>4, <2>5 DEF PostEvent
<1>8. CASE WaitComplete
  BY <1>8 DEF WaitComplete
<1>9. CASE Completed
  BY <1>9 DEF Completed
<1>10. QED
  BY <1>1, <1>2, <1>3, <1>4, <1>5, <1>6, <1>7, <1>8, <1>9 DEF Thread

LEMMA GuiStep ==
  ASSUME Inv, Gui \/ ApiPeriodic \/ User
  PROVE  Inv'
<1> USE EventFacts, BufferFacts
    DEF Inv, WorkInv, HandshakeInv, Waiting, GuiGoto, ThreadPCs, guiVars
<1>1. CASE StartIfFinished
  BY <1>1 DEF StartIfFinished
<1>2. CASE UserEvent
  <2>1. events # <<>> /\ events' = Tail(events) /\ directCalls' = directCalls
    BY <1>2 DEF UserEvent
  <2>2. WorkInv'
    BY <1>2, <2>1 DEF UserEvent
  <2>3. SUFFICES ASSUME ~directCalls PROVE HandshakeInv'
    BY <2>1, <2>2
  <2>4. HandshakeInv /\ Waiting /\ guiPc' = "complete"
    BY <1>2, <2>1, <2>3 DEF UserEvent
  <2>5. events' = <<>>
    <3>1. events \in Seq(Events)
      OBVIOUS
    <3>2. Len(events) \in Nat /\ Len(events) <= 1
      BY <2>4, <3>1
    <3>3. Len(events) # 0
      BY <2>1, <3>1
    <3>4. Tail(events) \in Seq(Events) /\ Len(Tail(events)) = Len(events) - 1
      BY <2>1, <3>1
    <3>5. QED
      BY <2>1, <3>1, <3>2, <3>3, <3>4
  <2>6. QED
    BY <1>2, <2>4, <2>5 DEF UserEvent
<1>3. CASE SetComplete
  BY <1>3 DEF SetComplete
<1>4. CASE SaveBeginPost \/ SavePostEvent \/ ProcessedEvents \/ SaveDone \/ SaveProject
  <2>1. [kind |-> "Log", from |-> "gui"] \in Events
    BY DEF Events, EventKinds
  <2>2. directCalls'
    <3>1. CASE SaveProject
      BY <3>1 DEF SaveProject
    <3>2. CASE ~SaveProject
      BY <1>4, <3>2 DEF SaveBeginPost, SavePostEvent, ProcessedEvents, SaveDone
    <3>3. QED
      BY <3>1, <3>2
  <2>3. WorkInv'
    BY <1>4, <2>1 DEF SaveBeginPost, SavePostEvent, ProcessedEvents, SaveDone, SaveProject
  <2>4. QED
    BY <2>2, <2>3
<1>5. ASSUME NEW c \in UserCommands, SendCommand(c) PROVE Inv'
  BY <1>5 DEF SendCommand, Commands
<1>6. CASE ApiPeriodic
  BY <1>6 DEF ApiPeriodic, Commands
<1>7. QED
  BY <1>1, <1>2, <1>3, <1>4, <1>5, <1>6 DEF Gui, User

LEMMA InvStep ==
  ASSUME Inv, [Next]_vars
  PROVE  Inv'
<1>1. CASE UNCHANGED vars
  BY <1>1 DEF Inv, WorkInv, HandshakeInv, Waiting, vars, guiVars
<1>2. QED
  BY <1>1, ThreadStep, GuiStep DEF Next

\* Until the GUI thread calls the tool box itself every post is synchronous: the
\* tool box thread goes on only when the GUI thread has handled the event.
THEOREM SynchronousPosts == Spec => []HandledBeforeGoingOn
<1>1. Init => Inv
  BY InitInv
<1>2. Inv /\ [Next]_vars => Inv'
  BY InvStep
<1>3. Inv => HandledBeforeGoingOn
  <2> SUFFICES ASSUME Inv, ~directCalls PROVE HandledBeforeGoingOn
    BY DEF HandledBeforeGoingOn
  <2>1. Len(events) \in Nat /\ Len(events) <= 1 /\ DOMAIN events = 1 .. Len(events)
    BY LenProperties DEF Inv, WorkInv, HandshakeInv
  <2>2. ~Waiting => DOMAIN events = {}
    BY <2>1, EmptySeq DEF Inv, WorkInv, HandshakeInv
  <2>3. QED
    BY <2>1, <2>2 DEF HandledBeforeGoingOn, PendingOfTool, Waiting
<1>4. QED
  BY <1>1, <1>2, <1>3, PTL DEF Spec

-----------------------------------------------------------------------------
(* Sequences, element by element.                                            *)

LEMMA TailElements ==
  ASSUME NEW S, NEW q \in Seq(S), q # <<>>
  PROVE  /\ Tail(q) \in Seq(S) /\ Len(Tail(q)) = Len(q) - 1 /\ Len(q) \in Nat
         /\ Head(q) = q[1] /\ 1 \in DOMAIN q
         /\ DOMAIN q = 1 .. Len(q) /\ DOMAIN Tail(q) = 1 .. Len(q) - 1
         /\ \A i \in DOMAIN Tail(q) : i \in Nat /\ i + 1 \in DOMAIN q /\ Tail(q)[i] = q[i + 1]
         /\ \A i \in DOMAIN q : \/ i = 1
                                \/ i - 1 \in DOMAIN Tail(q) /\ Tail(q)[i - 1] = q[i]
<1>1. Len(q) \in Nat /\ Len(q) # 0 /\ DOMAIN q = 1 .. Len(q)
  BY LenProperties, EmptySeq
<1>2. Tail(q) \in Seq(S) /\ Len(Tail(q)) = Len(q) - 1 /\ Head(q) = q[1]
  BY HeadTailProperties
<1>3. DOMAIN Tail(q) = 1 .. Len(q) - 1
  BY <1>2, LenProperties
<1>4. \A i \in 1 .. Len(q) - 1 : Tail(q)[i] = q[i + 1]
  BY <1>1, HeadTailProperties
<1>5. QED
  BY <1>1, <1>2, <1>3, <1>4

LEMMA AppendElements ==
  ASSUME NEW S, NEW q \in Seq(S), NEW e \in S
  PROVE  /\ Append(q, e) \in Seq(S) /\ Len(Append(q, e)) = Len(q) + 1 /\ Len(q) \in Nat
         /\ \A i \in DOMAIN q : i \in Nat /\ i <= Len(q)
         /\ DOMAIN Append(q, e) = DOMAIN q \cup {Len(q) + 1}
         /\ Append(q, e)[Len(q) + 1] = e
         /\ \A i \in DOMAIN q : Append(q, e)[i] = q[i]
<1>1. Len(q) \in Nat /\ DOMAIN q = 1 .. Len(q)
  BY LenProperties
<1>2. /\ Append(q, e) \in Seq(S) /\ Len(Append(q, e)) = Len(q) + 1
      /\ \A i \in 1 .. Len(q) : Append(q, e)[i] = q[i]
      /\ Append(q, e)[Len(q) + 1] = e
  BY AppendProperties
<1>3. DOMAIN Append(q, e) = 1 .. Len(q) + 1
  BY <1>2, LenProperties
<1>4. 1 .. Len(q) + 1 = (1 .. Len(q)) \cup {Len(q) + 1}
  BY <1>1
<1>5. QED
  BY <1>1, <1>2, <1>3, <1>4

-----------------------------------------------------------------------------
(* The command buffer holds at most one command of the timer, which keeps    *)
(* the thread from finishing until it is taken.                              *)

OfTimer == {i \in DOMAIN commandList : commandList[i] = "api"}

BufferInv ==
  /\ \A i, j \in OfTimer : i = j
  /\ OfTimer # {} => threadPc # "ended" /\ (threadPc = "finished" => guiPc = "start")
  /\ Len(commandList) <= IF OfTimer = {} THEN MaxBuffer ELSE MaxBuffer + 1

(* What the steps that are left, and the pending events, do to the input.    *)

Left(kind) == \E i \in DOMAIN todo : todo[i] = kind

Pending(kind) == \E i \in DOMAIN events : events[i].kind = kind

\* Input that is disabled is enabled later.
LeftSettled ==
  \A i \in DOMAIN todo :
    todo[i] = "DisableInput" => \E j \in DOMAIN todo : j > i /\ todo[j] = "EnableInput"

PendingSettled ==
  \A i \in DOMAIN events :
    events[i].kind = "DisableInput"
      => \E j \in DOMAIN events : j > i /\ events[j].kind = "EnableInput"

\* The last switch of the input that is to come enables it, or none is to come
\* and it is enabled.
InputInv ==
  /\ timerActive = (UsesCorba /\ ~toolRunning)
  /\ todo # <<>> => threadPc \in {"step", "post", "wait", "spin"}
  /\ LeftSettled
  /\ Left("EnableInput") \/ (PendingSettled /\ (Pending("EnableInput") \/ ~toolRunning))

\* A command enables the input once.  One that disables it works between disabling
\* and enabling it, and no other command touches it.
ScriptInv ==
  /\ \A i, j \in DOMAIN todo : todo[i] = "EnableInput" /\ todo[j] = "EnableInput" => i = j
  /\ \A i \in DOMAIN todo :
       todo[i] = "Log"
         => /\ command \in LockingCommands
                 <=> \E j \in DOMAIN todo : j > i /\ todo[j] = "EnableInput"
            /\ \A j \in DOMAIN todo : j > i => todo[j] # "DisableInput"

\* A command that has posted that the input be disabled, and not yet that it be
\* enabled, has disabled it, or the event is pending.
LockInv ==
  /\ Left("EnableInput") /\ ~Left("DisableInput") => toolRunning \/ Pending("DisableInput")
  /\ Pending("EnableInput") => ~Left("EnableInput")

Types ==
  /\ {blocking_flag, toolRunning, timerActive} \subseteq BOOLEAN
  /\ guiPc \in GuiPCs

LockOutInv ==
  /\ Types /\ BufferInv
  /\ InputInv /\ ScriptInv
  /\ ~directCalls => LockInv

LEMMA EmptySequence ==
  /\ \A S : <<>> \in Seq(S)
  /\ Len(<<>>) = 0 /\ DOMAIN <<>> = {}
BY EmptySeq, LenProperties

LEMMA InitLockOutInv == Init => LockOutInv
<1> SUFFICES ASSUME Init PROVE LockOutInv
  OBVIOUS
<1>1. commandList = <<>> /\ todo = <<>> /\ events = <<>>
  BY DEF Init
<1>2. DOMAIN commandList = {} /\ DOMAIN todo = {} /\ DOMAIN events = {} /\ Len(commandList) = 0
  BY <1>1, EmptySequence
<1>3. Types
  BY ToolThreadAssumption DEF Init, Types, GuiPCs
<1>4. OfTimer = {} /\ BufferInv
  BY <1>2, ToolThreadAssumption DEF OfTimer, BufferInv
<1>5. InputInv
  BY <1>1, <1>2, ToolThreadAssumption DEF Init, InputInv, LeftSettled, PendingSettled
<1>6. ScriptInv
  BY <1>2 DEF ScriptInv
<1>7. LockInv
  BY <1>2 DEF LockInv, Left, Pending
<1>8. QED
  BY <1>3, <1>4, <1>5, <1>6, <1>7 DEF LockOutInv

LEMMA TypesStep ==
  ASSUME Types, Next
  PROVE  Types'
<1> USE ToolThreadAssumption DEF Types, GuiPCs, GuiGoto, guiVars
<1>1. CASE Thread
  BY <1>1 DEF Thread, TestEmpty, Finish, GetCommand, CommandDone, WorkSilently, BeginPost, PostEvent,
              WaitComplete, Completed
<1>2. CASE UserEvent
  BY <1>2 DEF UserEvent, Handle
<1>3. CASE Gui /\ ~UserEvent
  BY <1>3 DEF Gui, StartIfFinished, SetComplete, SaveBeginPost, SavePostEvent, ProcessedEvents, SaveDone
<1>4. CASE ApiPeriodic
  BY <1>4 DEF ApiPeriodic
<1>5. CASE SaveProject
  BY <1>5 DEF SaveProject
<1>6. ASSUME NEW c \in UserCommands, SendCommand(c) PROVE Types'
  BY <1>6 DEF SendCommand
<1>7. QED
  BY <1>1, <1>2, <1>3, <1>4, <1>5, <1>6 DEF Next, User

\* The commands of the user and those of the timer make up the buffer.
LEMMA BufferCount ==
  ASSUME WorkInv, BufferInv
  PROVE  LET n == Cardinality({i \in DOMAIN commandList : commandList[i] \in UserCommands})
         IN  n \in Nat /\ Len(commandList) <= IF OfTimer = {} THEN n ELSE n + 1
<1> DEFINE U == {i \in DOMAIN commandList : commandList[i] \in UserCommands}
<1>1. Len(commandList) \in Nat /\ DOMAIN commandList = 1 .. Len(commandList)
  BY LenProperties DEF WorkInv
<1> SUFFICES /\ Cardinality(U) \in Nat
             /\ Len(commandList) <= IF OfTimer = {} THEN Cardinality(U) ELSE Cardinality(U) + 1
  OBVIOUS
<1>2. ASSUME NEW n \in Nat PROVE IsFiniteSet(1 .. n) /\ Cardinality(1 .. n) = n
  <2>1. n \in Int /\ 1 \in Int
    OBVIOUS
  <2>2. IsFiniteSet(1 .. n) /\ Cardinality(1 .. n) = IF 1 > n THEN 0 ELSE n - 1 + 1
    BY <2>1, FS_Interval
  <2>3. QED
    BY <2>2
<1>3. IsFiniteSet(1 .. Len(commandList)) /\ Cardinality(1 .. Len(commandList)) = Len(commandList)
  BY <1>2, <1>1
<1>4. IsFiniteSet(U) /\ U \subseteq 1 .. Len(commandList)
  BY <1>1, <1>3, FS_Subset
<1>5. \A i \in DOMAIN commandList : commandList[i] \in Commands
  BY <1>1 DEF WorkInv
<1>6. 1 .. Len(commandList) = U \cup OfTimer
  BY <1>1, <1>5 DEF OfTimer, Commands, UserCommands, LockingCommands
<1> HIDE DEF U
<1>7. CASE OfTimer = {}
  <2>1. Cardinality(U) = Len(commandList)
    BY <1>3, <1>6, <1>7
  <2>2. QED
    BY <1>1, <1>7, <2>1
<1>8. CASE OfTimer # {}
  <2>1. PICK i \in OfTimer : TRUE
    BY <1>8
  <2>2. OfTimer = {i}
    BY <2>1 DEF BufferInv
  <2>3. 1 .. Len(commandList) = U \cup {i}
    BY <1>6, <2>2
  <2>4. Cardinality(U \cup {i}) = IF i \in U THEN Cardinality(U) ELSE Cardinality(U) + 1
    BY <1>4, FS_AddElement
  <2>5. Cardinality(U) \in Nat
    BY <1>4, FS_CardinalityType
  <2>6. Len(commandList) = Cardinality(U \cup {i})
    BY <1>3, <2>3, Zenon
  <2>7. QED
    BY <1>1, <1>8, <2>4, <2>5, <2>6
<1>9. QED
  BY <1>7, <1>8

LEMMA BufferStep ==
  ASSUME Inv, BufferInv, [Next]_vars
  PROVE  BufferInv'
<1>1. commandList \in Seq(Commands) /\ (threadPc = "take" => commandList # <<>>)
  BY DEF Inv, WorkInv
<1>2. ASSUME UNCHANGED commandList,
             OfTimer # {} => threadPc' # "ended" /\ (threadPc' = "finished" => guiPc' = "start")
      PROVE  BufferInv'
  BY <1>2 DEF BufferInv, OfTimer
<1>3. CASE UNCHANGED vars
  BY <1>2, <1>3 DEF vars, BufferInv
<1>4. CASE TestEmpty
  <2>1. commandList = <<>> => OfTimer = {}
    BY EmptySequence DEF OfTimer
  <2>2. QED
    BY <1>2, <1>4, <2>1 DEF TestEmpty, ThreadGoto
<1>5. CASE GetCommand
  <2>1. commandList # <<>> /\ commandList' = Tail(commandList) /\ threadPc' = "step"
    BY <1>1, <1>5 DEF GetCommand, ThreadGoto
  <2>2. /\ Len(commandList') = Len(commandList) - 1 /\ Len(commandList) \in Nat
        /\ \A i \in DOMAIN commandList' :
             i \in Nat /\ i + 1 \in DOMAIN commandList /\ commandList'[i] = commandList[i + 1]
    BY <1>1, <2>1, TailElements
  <2>3. \A i, j \in OfTimer' : i = j
    BY <2>2 DEF BufferInv, OfTimer
  <2>4. Len(commandList) <= MaxBuffer + 1
    BY <2>2, ToolThreadAssumption DEF BufferInv
  <2>5. Len(commandList') <= MaxBuffer
    BY <2>2, <2>4, ToolThreadAssumption
  <2>6. Len(commandList') <= IF OfTimer' = {} THEN MaxBuffer ELSE MaxBuffer + 1
    BY <2>2, <2>5, ToolThreadAssumption
  <2>7. QED
    BY <2>1, <2>3, <2>6 DEF BufferInv
<1>6. CASE Finish \/ CommandDone \/ WorkSilently \/ BeginPost \/ PostEvent \/ WaitComplete \/ Completed
  BY <1>2, <1>6 DEF Finish, CommandDone, WorkSilently, BeginPost, PostEvent, WaitComplete, Completed,
                    ThreadGoto, BufferInv
<1>7. CASE StartIfFinished
  BY <1>2, <1>7 DEF StartIfFinished, GuiGoto, BufferInv
<1>8. CASE Gui /\ ~StartIfFinished
  BY <1>2, <1>8 DEF Gui, UserEvent, SetComplete, SaveBeginPost, SavePostEvent, ProcessedEvents,
                    SaveDone, GuiGoto, BufferInv
<1>9. CASE SaveProject
  BY <1>2, <1>9 DEF SaveProject, GuiGoto, BufferInv
<1>10. ASSUME NEW c \in UserCommands, SendCommand(c) PROVE BufferInv'
  <2>1. /\ commandList' = Append(commandList, c) /\ guiPc = "idle" /\ guiPc' = "start"
        /\ threadPc' = threadPc /\ c \in Commands /\ c # "api"
    BY <1>10 DEF SendCommand, GuiGoto, Commands, UserCommands, LockingCommands
  <2>2. OfTimer' = OfTimer
    BY <1>1, <2>1, AppendElements DEF OfTimer
  <2>3. Len(commandList') = Len(commandList) + 1 /\ Len(commandList) \in Nat
    BY <1>1, <2>1, AppendElements
  <2>4. Cardinality({i \in DOMAIN commandList : commandList[i] \in UserCommands}) < MaxBuffer
    BY <1>10 DEF SendCommand
  <2>5. /\ Cardinality({i \in DOMAIN commandList : commandList[i] \in UserCommands}) \in Nat
        /\ Len(commandList)
             <= IF OfTimer = {}
                THEN Cardinality({i \in DOMAIN commandList : commandList[i] \in UserCommands})
                ELSE Cardinality({i \in DOMAIN commandList : commandList[i] \in UserCommands}) + 1
    BY BufferCount DEF Inv
  <2>6. Len(commandList') <= IF OfTimer = {} THEN MaxBuffer ELSE MaxBuffer + 1
    BY <2>3, <2>4, <2>5, ToolThreadAssumption
  <2>7. QED
    BY <2>1, <2>2, <2>6 DEF BufferInv
<1>11. CASE ApiPeriodic
  <2>1. /\ commandList' = Append(commandList, "api") /\ guiPc = "idle" /\ guiPc' = "start"
        /\ threadPc = "finished" /\ threadPc' = threadPc
    BY <1>11 DEF ApiPeriodic, GuiGoto
  <2>2. OfTimer = {} /\ Len(commandList) <= MaxBuffer
    BY <2>1 DEF BufferInv
  <2>3. /\ Len(commandList') = Len(commandList) + 1 /\ Len(commandList) \in Nat
        /\ OfTimer' = {Len(commandList) + 1}
    BY <1>1, <2>1, <2>2, AppendElements DEF OfTimer, Commands
  <2>4. QED
    BY <2>1, <2>2, <2>3, ToolThreadAssumption DEF BufferInv
<1>12. QED
  BY <1>3, <1>4, <1>5, <1>6, <1>7, <1>8, <1>9, <1>10, <1>11 DEF Next, Thread, User

\* The posting of an event is that of the next step.
LEMMA PostFacts ==
  ASSUME WorkInv, PostEvent
  PROVE  /\ todo # <<>> /\ todo' = Tail(todo)
         /\ Len(events) \in Nat /\ DOMAIN events = 1 .. Len(events)
         /\ DOMAIN events' = DOMAIN events \cup {Len(events) + 1}
         /\ \A i \in DOMAIN events : events'[i] = events[i]
         /\ events'[Len(events) + 1].kind = todo[1]
         /\ UNCHANGED <<command, toolRunning, timerActive, directCalls>>
         /\ threadPc = "post" /\ threadPc' = "wait"
<1>1. /\ todo # <<>> /\ todo \in Seq(EventKinds) /\ events \in Seq(Events)
      /\ threadPc = "post" /\ threadPc' = "wait"
  BY DEF WorkInv, PostEvent, ThreadGoto
<1>2. Head(todo) \in EventKinds /\ Head(todo) = todo[1]
  BY <1>1, TailElements, TodoFacts
<1>3. [kind |-> Head(todo), from |-> "tool"] \in Events
  BY <1>2 DEF Events
<1>4. events' = Append(events, [kind |-> Head(todo), from |-> "tool"])
  BY DEF PostEvent
<1>5. /\ Len(events) \in Nat /\ DOMAIN events' = DOMAIN events \cup {Len(events) + 1}
      /\ events'[Len(events) + 1] = [kind |-> Head(todo), from |-> "tool"]
      /\ \A i \in DOMAIN events : events'[i] = events[i]
  BY <1>1, <1>3, <1>4, AppendElements
<1>6. DOMAIN events = 1 .. Len(events)
  BY <1>1, LenProperties
<1>7. QED
  BY <1>1, <1>2, <1>5, <1>6 DEF PostEvent, guiVars

\* The steps that are left after one more.
LEMMA LeftAfterStep ==
  ASSUME todo \in Seq(EventKinds), todo # <<>>, todo' = Tail(todo)
  PROVE  /\ Len(todo') = Len(todo) - 1 /\ Len(todo) \in Nat /\ 1 \in DOMAIN todo
         /\ \A i \in DOMAIN todo' : i \in Nat /\ i + 1 \in DOMAIN todo /\ todo'[i] = todo[i + 1]
         /\ \A i \in DOMAIN todo : i # 1 => i - 1 \in DOMAIN todo' /\ todo'[i - 1] = todo[i]
         /\ \A i \in DOMAIN todo : i \in Nat /\ i >= 1
         /\ \A k : Left(k) <=> Left(k)' \/ todo[1] = k
<1>1. /\ Len(todo') = Len(todo) - 1 /\ Len(todo) \in Nat /\ 1 \in DOMAIN todo
      /\ \A i \in DOMAIN todo' : i \in Nat /\ i + 1 \in DOMAIN todo /\ todo'[i] = todo[i + 1]
      /\ \A i \in DOMAIN todo : i # 1 => i - 1 \in DOMAIN todo' /\ todo'[i - 1] = todo[i]
  <2>1. /\ Len(Tail(todo)) = Len(todo) - 1 /\ Len(todo) \in Nat /\ 1 \in DOMAIN todo
        /\ \A i \in DOMAIN Tail(todo) :
             i \in Nat /\ i + 1 \in DOMAIN todo /\ Tail(todo)[i] = todo[i + 1]
        /\ \A i \in DOMAIN todo : i # 1 => i - 1 \in DOMAIN Tail(todo) /\ Tail(todo)[i - 1] = todo[i]
    BY TailElements
  <2>2. QED
    BY <2>1
<1>2. \A i \in DOMAIN todo : i \in Nat /\ i >= 1
  BY LenProperties
<1>3. ASSUME NEW k PROVE Left(k) <=> Left(k)' \/ todo[1] = k
  <2>1. ASSUME NEW i \in DOMAIN todo, todo[i] = k PROVE Left(k)' \/ todo[1] = k
    BY <1>1, <2>1 DEF Left
  <2>2. ASSUME NEW i \in DOMAIN todo', todo'[i] = k PROVE Left(k)
    BY <1>1, <2>2 DEF Left
  <2>3. todo[1] = k => Left(k)
    BY <1>1 DEF Left
  <2>4. QED
    BY <2>1, <2>2, <2>3 DEF Left
<1>4. QED
  BY <1>1, <1>2, <1>3

LEMMA LeftSettledStep ==
  ASSUME todo \in Seq(EventKinds), LeftSettled, todo # <<>>, todo' = Tail(todo)
  PROVE  LeftSettled' /\ (todo[1] = "DisableInput" => Left("EnableInput")')
<1>1. /\ \A i \in DOMAIN todo' : i \in Nat /\ i + 1 \in DOMAIN todo /\ todo'[i] = todo[i + 1]
      /\ \A i \in DOMAIN todo : i # 1 => i - 1 \in DOMAIN todo' /\ todo'[i - 1] = todo[i]
      /\ \A i \in DOMAIN todo : i \in Nat /\ i >= 1
      /\ 1 \in DOMAIN todo
  BY LeftAfterStep
<1>2. ASSUME NEW i \in DOMAIN todo', todo'[i] = "DisableInput"
      PROVE  \E j \in DOMAIN todo' : j > i /\ todo'[j] = "EnableInput"
  <2>1. PICK j \in DOMAIN todo : j > i + 1 /\ todo[j] = "EnableInput"
    BY <1>1, <1>2 DEF LeftSettled
  <2>2. j - 1 \in DOMAIN todo' /\ todo'[j - 1] = "EnableInput" /\ j - 1 > i
    BY <1>1, <1>2, <2>1
  <2>3. QED
    BY <2>2
<1>3. ASSUME todo[1] = "DisableInput" PROVE Left("EnableInput")'
  <2>1. PICK j \in DOMAIN todo : j > 1 /\ todo[j] = "EnableInput"
    BY <1>1, <1>3 DEF LeftSettled
  <2>2. j - 1 \in DOMAIN todo' /\ todo'[j - 1] = "EnableInput"
    BY <1>1, <2>1
  <2>3. QED
    BY <2>2 DEF Left
<1>4. QED
  BY <1>2, <1>3 DEF LeftSettled

LEMMA Scripts ==
  ASSUME NEW c \in Commands, command' = c, todo' = runCommand(c)
  PROVE  /\ LeftSettled' /\ ScriptInv'
         /\ Left("EnableInput")' <=> c \in LockingCommands
         /\ Left("DisableInput")' <=> c \in LockingCommands
<1> USE DEF LeftSettled, ScriptInv, Left, LockingCommands
<1>1. CASE c = "tool"
  <2>1. todo' = <<"DisableInput", "Log", "EnableInput">>
    BY <1>1 DEF runCommand
  <2>2. /\ DOMAIN todo' = {1, 2, 3} /\ Len(todo') = 3
        /\ todo'[1] = "DisableInput" /\ todo'[2] = "Log" /\ todo'[3] = "EnableInput"
    BY <2>1
  <2>3. QED
    BY <1>1, <2>2
<1>2. CASE c = "exec"
  <2>1. todo' = <<"EnableStop", "DisableInput", "Log", "EnableInput", "DisableStop">>
    BY <1>2 DEF runCommand
  <2>2. /\ DOMAIN todo' = {1, 2, 3, 4, 5} /\ Len(todo') = 5
        /\ todo'[1] = "EnableStop" /\ todo'[2] = "DisableInput" /\ todo'[3] = "Log"
        /\ todo'[4] = "EnableInput" /\ todo'[5] = "DisableStop"
    BY <2>1
  <2>3. QED
    BY <1>2, <2>2
<1>3. CASE c = "init"
  <2>1. todo' = <<"DisableInput", "Log", "EnableInput", "DisableStop">>
    BY <1>3 DEF runCommand
  <2>2. /\ DOMAIN todo' = {1, 2, 3, 4} /\ Len(todo') = 4
        /\ todo'[1] = "DisableInput" /\ todo'[2] = "Log"
        /\ todo'[3] = "EnableInput" /\ todo'[4] = "DisableStop"
    BY <2>1
  <2>3. QED
    BY <1>3, <2>2
<1>4. CASE c \in {"uml", "api"}
  <2>1. todo' = <<"Log">>
    BY <1>4 DEF runCommand
  <2>2. DOMAIN todo' = {1} /\ Len(todo') = 1 /\ todo'[1] = "Log"
    BY <2>1
  <2>3. QED
    BY <1>4, <2>2
<1>5. QED
  BY <1>1, <1>2, <1>3, <1>4 DEF Commands, UserCommands

\* The handling of an event.
LEMMA HandleFacts ==
  ASSUME WorkInv, UserEvent
  PROVE  /\ \A i \in DOMAIN events : i \in Nat /\ i >= 1
         /\ 1 \in DOMAIN events
         /\ \A i \in DOMAIN events' : i \in Nat /\ i + 1 \in DOMAIN events /\ events'[i] = events[i + 1]
         /\ \A i \in DOMAIN events : i # 1 => i - 1 \in DOMAIN events' /\ events'[i - 1] = events[i]
         /\ events[1].kind = "DisableInput" => toolRunning' = TRUE /\ timerActive' = FALSE
         /\ events[1].kind = "EnableInput" => toolRunning' = FALSE /\ timerActive' = UsesCorba
         /\ events[1].kind \notin {"DisableInput", "EnableInput"} => UNCHANGED guiVars
         /\ UNCHANGED <<commandList, threadPc, todo, directCalls>>
<1>1. events # <<>> /\ events \in Seq(Events) /\ events' = Tail(events) /\ Handle(Head(events))
  BY DEF WorkInv, UserEvent
<1>2. /\ Head(events) = events[1] /\ 1 \in DOMAIN events
      /\ \A i \in DOMAIN Tail(events) :
           i \in Nat /\ i + 1 \in DOMAIN events /\ Tail(events)[i] = events[i + 1]
      /\ \A i \in DOMAIN events :
           i # 1 => i - 1 \in DOMAIN Tail(events) /\ Tail(events)[i - 1] = events[i]
  BY <1>1, TailElements
<1>3. \A i \in DOMAIN events : i \in Nat /\ i >= 1
  BY <1>1, LenProperties
<1>4. /\ \A i \in DOMAIN events' : i \in Nat /\ i + 1 \in DOMAIN events /\ events'[i] = events[i + 1]
      /\ \A i \in DOMAIN events : i # 1 => i - 1 \in DOMAIN events' /\ events'[i - 1] = events[i]
  BY <1>1, <1>2
<1>5. Handle(events[1])
  BY <1>1, <1>2
<1>6. QED
  BY <1>2, <1>3, <1>4, <1>5 DEF UserEvent, Handle

\* Steps that touch neither the input nor what is to come of it.
LEMMA SameInput ==
  ASSUME InputInv, UNCHANGED <<todo, events, guiVars>>,
         todo # <<>> => threadPc' \in {"step", "post", "wait", "spin"}
  PROVE  InputInv'
BY DEF InputInv, LeftSettled, PendingSettled, Left, Pending, guiVars

LEMMA InputStep ==
  ASSUME Inv, InputInv, [Next]_vars
  PROVE  InputInv'
<1>1. /\ commandList \in Seq(Commands) /\ todo \in Seq(EventKinds) /\ events \in Seq(Events)
      /\ (threadPc = "take" => commandList # <<>>) /\ WorkInv
  BY DEF Inv, WorkInv
<1>2. CASE UNCHANGED vars
  BY <1>2, SameInput DEF vars, InputInv
<1>3. CASE \/ TestEmpty \/ Finish \/ BeginPost \/ WaitComplete \/ Completed
  BY <1>3, SameInput DEF TestEmpty, Finish, BeginPost, WaitComplete, Completed, ThreadGoto, InputInv
<1>4. CASE CommandDone
  BY <1>4, SameInput DEF CommandDone, InputInv
<1>5. CASE GetCommand
  <2>1. /\ command' = Head(commandList) /\ todo' = runCommand(Head(commandList))
        /\ Head(commandList) \in Commands
        /\ threadPc = "take" /\ threadPc' = "step" /\ UNCHANGED <<events, guiVars>>
    BY <1>1, <1>5, BufferFacts DEF GetCommand, ThreadGoto
  <2>2. todo = <<>> /\ ~Left("EnableInput")
    BY <2>1, EmptySequence DEF InputInv, Left
  <2>3. QED
    BY <2>1, <2>2, Scripts DEF InputInv, PendingSettled, Pending, guiVars
<1>6. CASE WorkSilently
  <2>1. /\ todo # <<>> /\ todo' = Tail(todo) /\ todo[1] = "Log" /\ threadPc' = "step"
        /\ UNCHANGED <<events, guiVars>>
    BY <1>1, <1>6, TailElements DEF WorkSilently, ThreadGoto
  <2>2. LeftSettled' /\ (Left("EnableInput")' <=> Left("EnableInput"))
    BY <1>1, <2>1, LeftSettledStep, LeftAfterStep DEF InputInv
  <2>3. QED
    BY <2>1, <2>2 DEF InputInv, PendingSettled, Pending, guiVars
<1>7. CASE PostEvent
  <2>1. /\ todo # <<>> /\ todo' = Tail(todo)
        /\ Len(events) \in Nat /\ DOMAIN events = 1 .. Len(events)
        /\ DOMAIN events' = DOMAIN events \cup {Len(events) + 1}
        /\ \A i \in DOMAIN events : events'[i] = events[i]
        /\ events'[Len(events) + 1].kind = todo[1]
        /\ UNCHANGED <<toolRunning, timerActive>> /\ threadPc' = "wait"
    BY <1>1, <1>7, PostFacts
  <2>2. /\ LeftSettled' /\ (todo[1] = "DisableInput" => Left("EnableInput")')
        /\ (Left("EnableInput") <=> Left("EnableInput")' \/ todo[1] = "EnableInput")
    BY <1>1, <2>1, LeftSettledStep, LeftAfterStep DEF InputInv
  <2>3. CASE Left("EnableInput")'
    BY <2>1, <2>2, <2>3 DEF InputInv
  <2>4. CASE ~Left("EnableInput")' /\ todo[1] = "EnableInput"
    <3>1. Pending("EnableInput")'
      BY <2>1, <2>4 DEF Pending
    <3>2. PendingSettled'
      BY <2>1, <2>4 DEF PendingSettled
    <3>3. QED
      BY <2>1, <2>2, <3>1, <3>2 DEF InputInv
  <2>5. CASE ~Left("EnableInput")' /\ todo[1] # "EnableInput"
    <3>1. todo[1] # "DisableInput" /\ PendingSettled /\ (Pending("EnableInput") \/ ~toolRunning)
      BY <2>2, <2>5 DEF InputInv
    <3>2. PendingSettled'
      BY <2>1, <3>1 DEF PendingSettled
    <3>3. Pending("EnableInput") => Pending("EnableInput")'
      BY <2>1 DEF Pending
    <3>4. QED
      BY <2>1, <2>2, <3>1, <3>2, <3>3 DEF InputInv
  <2>6. QED
    BY <2>3, <2>4, <2>5
<1>8. CASE UserEvent
  <2>1. /\ \A i \in DOMAIN events : i \in Nat /\ i >= 1
        /\ 1 \in DOMAIN events
        /\ \A i \in DOMAIN events' :
             i \in Nat /\ i + 1 \in DOMAIN events /\ events'[i] = events[i + 1]
        /\ \A i \in DOMAIN events : i # 1 => i - 1 \in DOMAIN events' /\ events'[i - 1] = events[i]
        /\ events[1].kind = "DisableInput" => toolRunning' = TRUE /\ timerActive' = FALSE
        /\ events[1].kind = "EnableInput" => toolRunning' = FALSE /\ timerActive' = UsesCorba
        /\ events[1].kind \notin {"DisableInput", "EnableInput"} => UNCHANGED guiVars
        /\ UNCHANGED <<threadPc, todo>>
    BY <1>1, <1>8, HandleFacts
  <2>2. timerActive' = (UsesCorba /\ ~toolRunning')
    <3>1. UsesCorba \in BOOLEAN /\ timerActive = (UsesCorba /\ ~toolRunning)
      BY ToolThreadAssumption DEF InputInv
    <3>2. CASE events[1].kind = "DisableInput"
      BY <2>1, <3>2, Zenon
    <3>3. CASE events[1].kind = "EnableInput"
      <4>1. toolRunning' = FALSE /\ timerActive' = UsesCorba
        BY <2>1, <3>3
      <4>2. QED
        BY <3>1, <4>1
    <3>4. CASE events[1].kind \notin {"DisableInput", "EnableInput"}
      BY <2>1, <3>1, <3>4 DEF guiVars
    <3>5. QED
      BY <3>2, <3>3, <3>4
  <2>3. ASSUME PendingSettled, Pending("EnableInput") \/ ~toolRunning
        PROVE  PendingSettled' /\ (Pending("EnableInput")' \/ ~toolRunning')
    <3>1. ASSUME NEW i \in DOMAIN events', events'[i].kind = "DisableInput"
          PROVE  \E j \in DOMAIN events' : j > i /\ events'[j].kind = "EnableInput"
      <4>1. PICK j \in DOMAIN events : j > i + 1 /\ events[j].kind = "EnableInput"
        BY <2>1, <2>3, <3>1 DEF PendingSettled
      <4>2. j - 1 \in DOMAIN events' /\ events'[j - 1].kind = "EnableInput" /\ j - 1 > i
        BY <2>1, <3>1, <4>1
      <4>3. QED
        BY <4>2
    <3>2. CASE events[1].kind = "EnableInput"
      BY <2>1, <3>1, <3>2 DEF PendingSettled
    <3>3. CASE events[1].kind = "DisableInput"
      <4>1. PICK j \in DOMAIN events : j > 1 /\ events[j].kind = "EnableInput"
        BY <2>1, <2>3, <3>3 DEF PendingSettled
      <4>2. j - 1 \in DOMAIN events' /\ events'[j - 1].kind = "EnableInput"
        BY <2>1, <4>1
      <4>3. QED
        BY <3>1, <4>2 DEF PendingSettled, Pending
    <3>4. CASE events[1].kind \notin {"DisableInput", "EnableInput"}
      <4>1. ASSUME Pending("EnableInput") PROVE Pending("EnableInput")'
        <5>1. PICK j \in DOMAIN events : events[j].kind = "EnableInput"
          BY <4>1 DEF Pending
        <5>2. j - 1 \in DOMAIN events' /\ events'[j - 1].kind = "EnableInput"
          BY <2>1, <3>4, <5>1
        <5>3. QED
          BY <5>2 DEF Pending
      <4>2. QED
        BY <2>1, <2>3, <3>1, <3>4, <4>1 DEF PendingSettled, guiVars
    <3>5. QED
      BY <3>2, <3>3, <3>4
  <2>4. LeftSettled' = LeftSettled /\ Left("EnableInput")' = Left("EnableInput")
    BY <2>1 DEF LeftSettled, Left
  <2>5. QED
    BY <2>1, <2>2, <2>3, <2>4 DEF InputInv
<1>9. CASE SavePostEvent
  <2>1. /\ events' = Append(events, [kind |-> "Log", from |-> "gui"])
        /\ UNCHANGED <<todo, threadPc, guiVars>>
    BY <1>9 DEF SavePostEvent
  <2>2. [kind |-> "Log", from |-> "gui"] \in Events
    BY DEF Events, EventKinds
  <2>3. /\ Len(events) \in Nat /\ DOMAIN events' = DOMAIN events \cup {Len(events) + 1}
        /\ events'[Len(events) + 1] = [kind |-> "Log", from |-> "gui"]
        /\ \A i \in DOMAIN events : events'[i] = events[i]
        /\ \A i \in DOMAIN events : i \in Nat /\ i <= Len(events)
    BY <1>1, <2>1, <2>2, AppendElements
  <2>4. events'[Len(events) + 1].kind = "Log"
    BY <2>3
  <2>5. PendingSettled => PendingSettled'
    BY <2>3, <2>4 DEF PendingSettled
  <2>6. Pending("EnableInput") => Pending("EnableInput")'
    BY <2>3 DEF Pending
  <2>7. QED
    BY <2>1, <2>5, <2>6 DEF InputInv, LeftSettled, Left, guiVars
<1>10. CASE StartIfFinished
  BY <1>10, SameInput DEF StartIfFinished, InputInv
<1>11. CASE Gui /\ ~UserEvent /\ ~SavePostEvent /\ ~StartIfFinished
  BY <1>11, SameInput DEF Gui, SetComplete, SaveBeginPost, ProcessedEvents, SaveDone, InputInv
<1>12. CASE ApiPeriodic \/ SaveProject
  BY <1>12, SameInput DEF ApiPeriodic, SaveProject, InputInv
<1>13. ASSUME NEW c \in UserCommands, SendCommand(c) PROVE InputInv'
  BY <1>13, SameInput DEF SendCommand, InputInv
<1>14. QED
  BY <1>2, <1>3, <1>4, <1>5, <1>6, <1>7, <1>8, <1>9, <1>10, <1>11, <1>12, <1>13
     DEF Next, Thread, User

\* One more step leaves what the remaining script promises.
LEMMA ScriptTail ==
  ASSUME todo \in Seq(EventKinds), ScriptInv, todo # <<>>, todo' = Tail(todo), command' = command
  PROVE  ScriptInv' /\ (todo[1] = "EnableInput" => ~Left("EnableInput")')
<1>1. /\ Len(todo') = Len(todo) - 1 /\ Len(todo) \in Nat /\ 1 \in DOMAIN todo
      /\ \A i \in DOMAIN todo' : i \in Nat /\ i + 1 \in DOMAIN todo /\ todo'[i] = todo[i + 1]
      /\ \A i \in DOMAIN todo : i # 1 => i - 1 \in DOMAIN todo' /\ todo'[i - 1] = todo[i]
      /\ \A i \in DOMAIN todo : i \in Nat /\ i >= 1
  BY LeftAfterStep
<1>2. ASSUME NEW i \in DOMAIN todo', NEW j \in DOMAIN todo',
             todo'[i] = "EnableInput", todo'[j] = "EnableInput"
      PROVE  i = j
  <2>1. i + 1 \in DOMAIN todo /\ j + 1 \in DOMAIN todo /\ i \in Nat /\ j \in Nat
    BY <1>1
  <2>2. todo[i + 1] = "EnableInput" /\ todo[j + 1] = "EnableInput"
    BY <1>1, <1>2
  <2>3. i + 1 = j + 1
    BY <2>1, <2>2 DEF ScriptInv
  <2>4. QED
    BY <2>1, <2>3
<1>3. ASSUME NEW i \in DOMAIN todo', todo'[i] = "Log"
      PROVE  /\ command' \in LockingCommands
                  <=> \E j \in DOMAIN todo' : j > i /\ todo'[j] = "EnableInput"
             /\ \A j \in DOMAIN todo' : j > i => todo'[j] # "DisableInput"
  <2>1. i + 1 \in DOMAIN todo /\ todo[i + 1] = "Log" /\ i \in Nat
    BY <1>1, <1>3
  <2>2. /\ command \in LockingCommands
             <=> \E j \in DOMAIN todo : j > i + 1 /\ todo[j] = "EnableInput"
        /\ \A j \in DOMAIN todo : j > i + 1 => todo[j] # "DisableInput"
    BY <2>1 DEF ScriptInv
  <2>3. ASSUME NEW j \in DOMAIN todo, j > i + 1, todo[j] = "EnableInput"
        PROVE  j - 1 \in DOMAIN todo' /\ todo'[j - 1] = "EnableInput" /\ j - 1 > i
    BY <1>1, <2>1, <2>3
  <2>4. ASSUME NEW j \in DOMAIN todo', j > i, todo'[j] = "EnableInput"
        PROVE  j + 1 \in DOMAIN todo /\ todo[j + 1] = "EnableInput" /\ j + 1 > i + 1
    BY <1>1, <2>1, <2>4
  <2>5. ASSUME NEW k \in DOMAIN todo', k > i PROVE todo'[k] # "DisableInput"
    BY <1>1, <2>1, <2>2, <2>5
  <2>6. (\E j \in DOMAIN todo : j > i + 1 /\ todo[j] = "EnableInput")
          <=> \E j \in DOMAIN todo' : j > i /\ todo'[j] = "EnableInput"
    BY <2>3, <2>4
  <2>7. QED
    BY <2>2, <2>5, <2>6
<1>4. ASSUME todo[1] = "EnableInput" PROVE ~Left("EnableInput")'
  <2>1. SUFFICES ASSUME NEW i \in DOMAIN todo', todo'[i] = "EnableInput" PROVE FALSE
    BY DEF Left
  <2>2. i + 1 \in DOMAIN todo /\ todo[i + 1] = "EnableInput" /\ i \in Nat /\ i >= 1
    <3>1. i \in 1 .. Len(todo')
      BY LenProperties, HeadTailProperties
    <3>2. QED
      BY <1>1, <2>1, <3>1
  <2>3. i + 1 = 1
    BY <1>1, <1>4, <2>2 DEF ScriptInv
  <2>4. QED
    BY <2>2, <2>3
<1>5. QED
  BY <1>2, <1>3, <1>4 DEF ScriptInv

LEMMA ScriptStep ==
  ASSUME Inv, ScriptInv, [Next]_vars
  PROVE  ScriptInv'
<1>1. todo \in Seq(EventKinds) /\ WorkInv
  BY DEF Inv, WorkInv
<1>2. ASSUME UNCHANGED <<command, todo>> PROVE ScriptInv'
  BY <1>2 DEF ScriptInv
<1>3. CASE GetCommand
  <2>1. /\ command' = Head(commandList) /\ todo' = runCommand(Head(commandList))
        /\ Head(commandList) \in Commands
    BY <1>1, <1>3, BufferFacts DEF WorkInv, GetCommand, ThreadGoto
  <2>2. QED
    BY <2>1, Scripts
<1>4. CASE WorkSilently
  BY <1>1, <1>4, ScriptTail DEF WorkSilently
<1>5. CASE PostEvent
  BY <1>1, <1>5, ScriptTail, PostFacts
<1>6. CASE UNCHANGED vars
  BY <1>2, <1>6 DEF vars
<1>7. CASE TestEmpty \/ Finish \/ BeginPost \/ WaitComplete \/ Completed
  BY <1>2, <1>7 DEF TestEmpty, Finish, BeginPost, WaitComplete, Completed
<1>8. CASE CommandDone
  <2>1. todo' = <<>> /\ DOMAIN todo' = {}
    BY <1>8, EmptySequence DEF CommandDone
  <2>2. QED
    BY <2>1 DEF ScriptInv
<1>9. CASE Gui
  BY <1>2, <1>9 DEF Gui, StartIfFinished, UserEvent, SetComplete, SaveBeginPost, SavePostEvent,
                    ProcessedEvents, SaveDone
<1>10. CASE ApiPeriodic \/ User
  BY <1>2, <1>10 DEF ApiPeriodic, User, SaveProject, SendCommand
<1>11. QED
  BY <1>3, <1>4, <1>5, <1>6, <1>7, <1>8, <1>9, <1>10 DEF Next, Thread

\* The user's own calls are over for good when they have begun.
LEMMA DirectCalls ==
  ASSUME Inv, [Next]_vars, ~directCalls'
  PROVE  ~directCalls /\ ~SaveProject
<1>1. ~SaveProject
  BY DEF SaveProject
<1>2. CASE UNCHANGED vars
  BY <1>1, <1>2 DEF vars
<1>3. CASE Thread
  BY <1>1, <1>3 DEF Thread, TestEmpty, Finish, GetCommand, CommandDone, WorkSilently, BeginPost,
                    PostEvent, WaitComplete, Completed
<1>4. CASE Gui
  BY <1>1, <1>4 DEF Gui, StartIfFinished, UserEvent, SetComplete, SaveBeginPost, SavePostEvent,
                    ProcessedEvents, SaveDone
<1>5. CASE ApiPeriodic
  BY <1>1, <1>5 DEF ApiPeriodic
<1>6. ASSUME NEW c \in UserCommands, SendCommand(c) PROVE ~directCalls
  BY <1>6 DEF SendCommand
<1>7. QED
  BY <1>1, <1>2, <1>3, <1>4, <1>5, <1>6 DEF Next, User

LEMMA LockStep ==
  ASSUME Inv, ScriptInv, LockInv, ~directCalls, ~directCalls', [Next]_vars
  PROVE  LockInv'
<1>1. /\ todo \in Seq(EventKinds) /\ WorkInv /\ (threadPc = "take" => commandList # <<>>)
      /\ HandshakeInv /\ ~SaveProject
  BY DirectCalls DEF Inv, WorkInv
<1>2. events = <<>> => \A k : ~Pending(k)
  BY EmptySequence DEF Pending
<1>3. ASSUME UNCHANGED <<todo, events, guiVars>> PROVE LockInv'
  BY <1>3 DEF LockInv, Left, Pending, guiVars
<1>4. CASE UNCHANGED vars
  BY <1>3, <1>4 DEF vars
<1>5. CASE TestEmpty \/ Finish \/ CommandDone \/ BeginPost \/ WaitComplete \/ Completed
  BY <1>3, <1>5 DEF TestEmpty, Finish, CommandDone, BeginPost, WaitComplete, Completed
<1>6. CASE GetCommand
  <2>1. /\ command' = Head(commandList) /\ todo' = runCommand(Head(commandList))
        /\ Head(commandList) \in Commands
        /\ ~Waiting /\ events' = events
    BY <1>1, <1>6, BufferFacts DEF WorkInv, GetCommand, ThreadGoto, Waiting
  <2>2. Left("EnableInput")' => Left("DisableInput")'
    BY <2>1, Scripts
  <2>3. ~Pending("EnableInput")'
    BY <1>1, <1>2, <2>1 DEF HandshakeInv, Pending
  <2>4. QED
    BY <2>2, <2>3 DEF LockInv
<1>7. CASE WorkSilently
  <2>1. /\ todo # <<>> /\ todo' = Tail(todo) /\ todo[1] = "Log"
        /\ UNCHANGED <<events, guiVars>>
    BY <1>1, <1>7, TailElements DEF WorkSilently
  <2>2. \A k : Left(k) <=> Left(k)' \/ todo[1] = k
    BY <1>1, <2>1, LeftAfterStep
  <2>3. /\ Left("EnableInput") <=> Left("EnableInput")'
        /\ Left("DisableInput") <=> Left("DisableInput")'
    <3>1. /\ Left("EnableInput") <=> Left("EnableInput")' \/ todo[1] = "EnableInput"
          /\ Left("DisableInput") <=> Left("DisableInput")' \/ todo[1] = "DisableInput"
      BY <2>2
    <3>2. QED
      BY <2>1, <3>1
  <2>4. QED
    BY <2>1, <2>3 DEF LockInv, Pending, guiVars
<1>8. CASE PostEvent
  <2>1. /\ todo # <<>> /\ todo' = Tail(todo)
        /\ Len(events) \in Nat /\ DOMAIN events = 1 .. Len(events)
        /\ DOMAIN events' = DOMAIN events \cup {Len(events) + 1}
        /\ \A i \in DOMAIN events : events'[i] = events[i]
        /\ events'[Len(events) + 1].kind = todo[1]
        /\ UNCHANGED <<command, toolRunning>> /\ threadPc = "post"
    BY <1>1, <1>8, PostFacts
  <2>2. events = <<>>
    BY <1>1, <2>1 DEF HandshakeInv, Waiting
  <2>3. \A k : ~Pending(k)
    BY <1>2, <2>2
  <2>4. ASSUME NEW k PROVE Pending(k)' <=> todo[1] = k
    BY <2>1, <2>3 DEF Pending
  <2>5. \A k : Left(k) <=> Left(k)' \/ todo[1] = k
    BY <1>1, <2>1, LeftAfterStep
  <2>6. todo[1] = "EnableInput" => ~Left("EnableInput")'
    BY <1>1, <2>1, ScriptTail
  <2>7. ASSUME Left("EnableInput")', ~Left("DisableInput")'
        PROVE  toolRunning' \/ Pending("DisableInput")'
    <3>1. CASE todo[1] = "DisableInput"
      BY <2>4, <3>1
    <3>2. CASE todo[1] # "DisableInput"
      BY <2>1, <2>3, <2>5, <2>7, <3>2 DEF LockInv
    <3>3. QED
      BY <3>1, <3>2
  <2>8. QED
    BY <2>4, <2>6, <2>7 DEF LockInv
<1>9. CASE UserEvent
  <2>1. /\ 1 \in DOMAIN events
        /\ events[1].kind = "DisableInput" => toolRunning' = TRUE
        /\ events[1].kind \notin {"DisableInput", "EnableInput"} => UNCHANGED guiVars
        /\ UNCHANGED todo
    BY <1>1, <1>9, HandleFacts
  <2>2. Len(events) <= 1 /\ events' = Tail(events) /\ events \in Seq(Events) /\ events # <<>>
    BY <1>1, <1>9 DEF UserEvent, HandshakeInv, WorkInv
  <2>3. Len(events) = 1 /\ DOMAIN events = {1} /\ DOMAIN events' = {}
    <3>1. /\ Len(events) \in Nat /\ 1 \in DOMAIN events
          /\ DOMAIN events = 1 .. Len(events) /\ DOMAIN Tail(events) = 1 .. Len(events) - 1
      BY <2>2, TailElements
    <3>2. Len(events) = 1
      BY <2>2, <3>1
    <3>3. QED
      BY <2>2, <3>1, <3>2
  <2>4. /\ \A k : Pending(k) <=> events[1].kind = k
        /\ \A k : ~Pending(k)'
        /\ \A k : Left(k)' <=> Left(k)
    BY <2>1, <2>3 DEF Pending, Left
  <2>5. ASSUME Left("EnableInput"), ~Left("DisableInput") PROVE toolRunning'
    <3>1. events[1].kind # "EnableInput" /\ (toolRunning \/ events[1].kind = "DisableInput")
      BY <2>4, <2>5 DEF LockInv
    <3>2. QED
      BY <2>1, <3>1 DEF guiVars
  <2>6. QED
    BY <2>4, <2>5 DEF LockInv
<1>10. CASE SavePostEvent
  BY <1>1, <1>10 DEF SavePostEvent, GuiGoto, HandshakeInv
<1>11. CASE Gui /\ ~UserEvent /\ ~SavePostEvent
  BY <1>3, <1>11 DEF Gui, StartIfFinished, SetComplete, SaveBeginPost, ProcessedEvents, SaveDone
<1>12. CASE ApiPeriodic
  BY <1>3, <1>12 DEF ApiPeriodic
<1>13. ASSUME NEW c \in UserCommands, SendCommand(c) PROVE LockInv'
  BY <1>3, <1>13 DEF SendCommand
<1>14. QED
  BY <1>1, <1>4, <1>5, <1>6, <1>7, <1>8, <1>9, <1>10, <1>11, <1>12, <1>13 DEF Next, Thread, User

LEMMA LockOutStep ==
  ASSUME Inv, LockOutInv, [Next]_vars
  PROVE  LockOutInv'
<1>1. Types'
  BY TypesStep DEF LockOutInv, Types, vars, guiVars
<1>2. BufferInv' /\ InputInv' /\ ScriptInv'
  BY BufferStep, InputStep, ScriptStep DEF LockOutInv
<1>3. ~directCalls' => LockInv'
  BY DirectCalls, LockStep DEF LockOutInv
<1>4. QED
  BY <1>1, <1>2, <1>3 DEF LockOutInv

LEMMA HandShakes == Spec => [](Inv /\ LockOutInv)
<1>1. Init => Inv /\ LockOutInv
  BY InitInv, InitLockOutInv
<1>2. Inv /\ LockOutInv /\ [Next]_vars => (Inv /\ LockOutInv)'
  BY InvStep, LockOutStep
<1>3. QED
  BY <1>1, <1>2, PTL DEF Spec

\* The buffer never holds more than the user's commands and one of the timer,
\* whatever the order of sendCommand, getCommand and apiPeriodic, and every
\* variable keeps its type.
THEOREM TypeCorrect == Spec => []TypeOK
<1>1. Inv /\ LockOutInv => TypeOK
  <2> SUFFICES ASSUME Inv, LockOutInv PROVE TypeOK
    OBVIOUS
  <2>1. Len(commandList) \in Nat /\ Len(commandList) <= MaxBuffer + 1
    <3>1. Len(commandList) \in Nat
      BY LenProperties DEF Inv, WorkInv
    <3>2. QED
      BY <3>1, ToolThreadAssumption DEF LockOutInv, BufferInv
  <2>2. QED
    BY <2>1 DEF Inv, WorkInv, LockOutInv, Types, TypeOK
<1>2. QED
  BY <1>1, HandShakes, PTL

\* Until the GUI thread calls the tool box itself, disableGUI has been executed, and
\* enableGUI has not, whenever the tool box works on a command that runCommand puts
\* between them; on any other command, the comparison with a UML model among them,
\* it works with the input on.
THEOREM InputIsOffForLockingCommands == Spec => []InputFollowsCommand
<1>1. Inv /\ LockOutInv => InputFollowsCommand
  <2> SUFFICES ASSUME Inv, LockOutInv, ~directCalls, threadPc \in {"step", "post"}, todo # <<>>,
                      Head(todo) = "Log"
               PROVE  toolRunning <=> command \in LockingCommands
    BY DEF InputFollowsCommand
  <2>1. /\ todo[1] = "Log" /\ 1 \in DOMAIN todo
        /\ \A i \in DOMAIN todo : i = 1 \/ i > 1
    <3>1. todo \in Seq(EventKinds)
      BY DEF Inv, WorkInv
    <3>2. todo[1] = "Log" /\ 1 \in DOMAIN todo /\ DOMAIN todo = 1 .. Len(todo) /\ Len(todo) \in Nat
      BY <3>1, TailElements
    <3>3. QED
      BY <3>2
  <2>2. /\ Left("EnableInput") <=> command \in LockingCommands
        /\ ~Left("DisableInput")
    BY <2>1 DEF LockOutInv, ScriptInv, Left
  <2>3. events = <<>>
    BY DEF Inv, HandshakeInv, Waiting
  <2>4. ~Pending("DisableInput") /\ ~Pending("EnableInput")
    BY <2>3, EmptySequence DEF Pending
  <2>5. Left("EnableInput") => toolRunning
    BY <2>2, <2>4 DEF LockOutInv, LockInv
  <2>6. ~Left("EnableInput") => ~toolRunning
    BY <2>4 DEF LockOutInv, InputInv
  <2>7. QED
    BY <2>2, <2>5, <2>6
<1>2. QED
  BY <1>1, HandShakes, PTL

\* When the tool box thread has finished and no event is pending, enableGUI was
\* the last to switch the input, and has started the timer again: also when the
\* GUI thread has called the tool box itself and events have piled up.
THEOREM InputComesBack == Spec => []EnabledWhenDone
<1>1. Inv /\ LockOutInv => EnabledWhenDone
  <2> SUFFICES ASSUME Inv, LockOutInv, threadPc \in {"ended", "finished"}, events = <<>>
               PROVE  ~toolRunning /\ timerActive = UsesCorba
    BY DEF EnabledWhenDone
  <2>1. todo = <<>>
    BY DEF LockOutInv, InputInv
  <2>2. ~Left("EnableInput") /\ ~Pending("EnableInput")
    BY <2>1, EmptySequence DEF Left, Pending
  <2>3. ~toolRunning /\ timerActive = (UsesCorba /\ ~toolRunning)
    BY <2>2 DEF LockOutInv, InputInv
  <2>4. QED
    BY <2>3, ToolThreadAssumption
<1>2. QED
  BY <1>1, HandShakes, PTL
=============================================================================
