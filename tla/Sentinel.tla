------------------------------- MODULE Sentinel -------------------------------
(***************************************************************************)
(* Permission predicates in the generated Java code: the monitor Sentinel  *)
(* of an object (code/java/lib/vdmconc/Sentinel.java), and what the code   *)
(* generator makes of operations, mutexes and permission predicates        *)
(* (code/cg/mod_conc.cc).                                                  *)
(*                                                                         *)
(* An operation is sentinel.entering(op), the body, and, in a finally,     *)
(* sentinel.leaving(op).  The state that predicates read is one bit,       *)
(* volatile and not protected by the monitor.  What a program calls, and   *)
(* when its predicates throw, is arbitrary; nobody interrupts a thread.    *)
(***************************************************************************)
EXTENDS Integers, Sequences, SequencesExt, FiniteSets

CONSTANTS
  Threads,
  Ops,              \* the operations of the object
  MutexDefs,        \* its mutex definitions: sets of operations
  GivesWay,         \* per o => #waiting(p) = 0, for every p in GivesWay[o]
  StateGuarded,     \* the operations whose predicate reads the object state
  MayThrow,         \* the operations whose predicate may throw
  MaxReq,           \* bound: requests of an operation
  MaxDepth,         \* bound: nested calls on the object
  None              \* no thread, no operation

ASSUME SentinelAssumption ==
  /\ IsFiniteSet(Threads)
  /\ MutexDefs \subseteq SUBSET Ops
  /\ GivesWay \in [Ops -> SUBSET Ops]
  /\ StateGuarded \subseteq Ops /\ MayThrow \subseteq Ops
  /\ {MaxReq, MaxDepth} \subseteq Nat
  /\ None \notin Ops \cup Threads

VARIABLES
  req, act, fin, active, waiting,   \* the counters of every operation
  monitor,          \* the thread that is in the monitor
  waitSet,          \* the threads that wait() and have not been notified
  pc,               \* where every thread is
  op,               \* the operation it is entering
  stack,            \* the operations whose bodies it is in
  ivar,             \* the object state
  changed,          \* history: ivar was assigned after the last notifyAll
  failed            \* history: a predicate has thrown

counters == <<req, act, fin, active, waiting>>
vars == <<counters, monitor, waitSet, pc, op, stack, ivar, changed, failed>>

-----------------------------------------------------------------------------
(* Types.                                                                    *)

\* "run" and "calling" are outside of the monitor, the others in entering.
PCs == {"run", "calling", "test", "queue", "retest", "waiting", "dequeue", "activate"}

TypeOK ==
  /\ req \in [Ops -> Nat] /\ act \in [Ops -> Nat] /\ fin \in [Ops -> Nat]
  /\ active \in [Ops -> Nat] /\ waiting \in [Ops -> Nat]
  /\ monitor \in Threads \cup {None}
  /\ waitSet \subseteq Threads
  /\ pc \in [Threads -> PCs]
  /\ op \in [Threads -> Ops \cup {None}]
  /\ stack \in [Threads -> Seq(Ops)]
  /\ ivar \in BOOLEAN /\ changed \in BOOLEAN /\ failed \in BOOLEAN

\* init, called by the constructor of the object.
Zero == [o \in Ops |-> 0]

Init ==
  /\ req = Zero /\ act = Zero /\ fin = Zero /\ active = Zero /\ waiting = Zero
  /\ monitor = None
  /\ waitSet = {}
  /\ pc = [t \in Threads |-> "run"]
  /\ op = [t \in Threads |-> None]
  /\ stack = [t \in Threads |-> <<>>]
  /\ ivar \in BOOLEAN
  /\ changed = FALSE
  /\ failed = FALSE

-----------------------------------------------------------------------------
(* The predicates.                                                           *)

\* An operation of a mutex excludes all operations of it, itself included.
CreateMutexTable == [o \in Ops |-> UNION {m \in MutexDefs : o \in m}]

evaluatePP(o) ==
  /\ \A p \in CreateMutexTable[o] : active[p] = 0
  /\ \A p \in GivesWay[o] : waiting[p] = 0
  /\ o \in StateGuarded => ivar

-----------------------------------------------------------------------------
(* The steps of a thread.                                                    *)

Goto(t, from, to) ==
  /\ pc[t] = from
  /\ pc' = [pc EXCEPT ![t] = to]

Increment(counter, o) == [counter EXCEPT ![o] = @ + 1]
Decrement(counter, o) == [counter EXCEPT ![o] = @ - 1]

\* stateChanged.
NotifyAll ==
  /\ waitSet' = {}
  /\ changed' = FALSE

\* The thread, which may be in the body of another operation, calls one.
Call(t, o) ==
  /\ Len(stack[t]) < MaxDepth
  /\ req[o] + Cardinality({u \in Threads : pc[u] = "calling" /\ op[u] = o}) < MaxReq
  /\ Goto(t, "run", "calling")
  /\ op' = [op EXCEPT ![t] = o]
  /\ UNCHANGED <<counters, monitor, waitSet, stack, ivar, changed, failed>>

\* entering: the monitor is entered and the request is counted.
Requesting(t) ==
  /\ monitor = None
  /\ monitor' = t
  /\ Goto(t, "calling", "test")
  /\ req' = Increment(req, op[t])
  /\ NotifyAll
  /\ UNCHANGED <<act, fin, active, waiting, op, stack, ivar, failed>>

\* The first evaluation of the predicate.
Test(t) ==
  /\ pc[t] = "test"
  /\ pc' = [pc EXCEPT ![t] = IF evaluatePP(op[t]) THEN "activate" ELSE "queue"]
  /\ UNCHANGED <<counters, monitor, waitSet, op, stack, ivar, changed, failed>>

\* Mutant: the thread is not counted as waiting.
Queue_uncounted(t) ==
  /\ Goto(t, "queue", "retest")
  /\ NotifyAll
  /\ UNCHANGED <<counters, monitor, op, stack, ivar, failed>>

Queue(t) ==
  /\ Goto(t, "queue", "retest")
  /\ waiting' = Increment(waiting, op[t])
  /\ NotifyAll
  /\ UNCHANGED <<req, act, fin, active, monitor, op, stack, ivar, failed>>

\* The condition of the loop, which waits when it is false.  The monitor is
\* held until wait() releases it, so that nothing is notified in between.
Retest(t) ==
  /\ pc[t] = "retest"
  /\ \/ /\ evaluatePP(op[t])
        /\ pc' = [pc EXCEPT ![t] = "dequeue"]
        /\ UNCHANGED <<monitor, waitSet>>
     \/ /\ ~evaluatePP(op[t])
        /\ pc' = [pc EXCEPT ![t] = "waiting"]
        /\ monitor' = None
        /\ waitSet' = waitSet \cup {t}
  /\ UNCHANGED <<counters, op, stack, ivar, changed, failed>>

\* Mutant: the predicate is not evaluated again.
Reacquire_ifNotWhile(t) ==
  /\ t \notin waitSet
  /\ monitor = None
  /\ monitor' = t
  /\ Goto(t, "waiting", "dequeue")
  /\ UNCHANGED <<counters, waitSet, op, stack, ivar, changed, failed>>

\* wait() returns when the thread has been notified and the monitor is free.
Reacquire(t) ==
  /\ t \notin waitSet
  /\ monitor = None
  /\ monitor' = t
  /\ Goto(t, "waiting", "retest")
  /\ UNCHANGED <<counters, waitSet, op, stack, ivar, changed, failed>>

\* wait() may return without a notification.
SpuriousWakeup(t) ==
  /\ t \in waitSet
  /\ waitSet' = waitSet \ {t}
  /\ UNCHANGED <<counters, monitor, pc, op, stack, ivar, changed, failed>>

\* The exception of a predicate leaves entering as it is; the finally clause of
\* the operation does not cover the call of entering.
Throw(t) ==
  /\ pc[t] \in {"test", "retest"}
  /\ op[t] \in MayThrow
  /\ monitor' = None
  /\ pc' = [pc EXCEPT ![t] = "run"]
  /\ op' = [op EXCEPT ![t] = None]
  /\ failed' = TRUE
  /\ UNCHANGED <<counters, waitSet, stack, ivar, changed>>

\* entering ends with the activation, after the end of the waiting.
Activating(t) ==
  /\ \/ /\ pc[t] = "dequeue"
        /\ waiting' = Decrement(waiting, op[t])
     \/ /\ pc[t] = "activate"
        /\ UNCHANGED waiting
  /\ pc' = [pc EXCEPT ![t] = "run"]
  /\ act' = Increment(act, op[t])
  /\ active' = Increment(active, op[t])
  /\ monitor' = None
  /\ op' = [op EXCEPT ![t] = None]
  /\ stack' = [stack EXCEPT ![t] = Append(@, op[t])]
  /\ NotifyAll
  /\ UNCHANGED <<req, fin, ivar, failed>>

\* The body assigns to an instance variable.
Assign(t) ==
  /\ pc[t] = "run"
  /\ stack[t] # <<>>
  /\ ivar' \in BOOLEAN
  /\ changed' = TRUE
  /\ UNCHANGED <<counters, monitor, waitSet, pc, op, stack, failed>>

\* Mutants: nobody is notified; the activation remains.
Leaving_silent(t) ==
  /\ pc[t] = "run"
  /\ stack[t] # <<>>
  /\ monitor = None
  /\ fin' = Increment(fin, Last(stack[t]))
  /\ active' = Decrement(active, Last(stack[t]))
  /\ stack' = [stack EXCEPT ![t] = Front(@)]
  /\ UNCHANGED <<req, act, waiting, monitor, waitSet, pc, op, ivar, changed, failed>>

Leaving_notInFinally(t) ==
  /\ pc[t] = "run"
  /\ stack[t] # <<>>
  /\ monitor = None
  /\ \/ /\ fin' = Increment(fin, Last(stack[t]))
        /\ active' = Decrement(active, Last(stack[t]))
        /\ NotifyAll
     \/ UNCHANGED <<fin, active, waitSet, changed>>
  /\ stack' = [stack EXCEPT ![t] = Front(@)]
  /\ UNCHANGED <<req, act, waiting, monitor, pc, op, ivar, failed>>

\* The body ends, normally or not: the finally clause calls leaving.
Leaving(t) ==
  /\ pc[t] = "run"
  /\ stack[t] # <<>>
  /\ monitor = None
  /\ fin' = Increment(fin, Last(stack[t]))
  /\ active' = Decrement(active, Last(stack[t]))
  /\ stack' = [stack EXCEPT ![t] = Front(@)]
  /\ NotifyAll
  /\ UNCHANGED <<req, act, waiting, monitor, pc, op, ivar, failed>>

-----------------------------------------------------------------------------
(* The specification.                                                        *)

Entering(t) ==
  \/ Requesting(t)
  \/ Test(t)
  \/ Queue(t)
  \/ Retest(t)
  \/ Reacquire(t)
  \/ Activating(t)

Next ==
  \E t \in Threads :
    \/ \E o \in Ops : Call(t, o)
    \/ Entering(t)
    \/ SpuriousWakeup(t)
    \/ Throw(t)
    \/ Assign(t)
    \/ Leaving(t)

Spec == Init /\ [][Next]_vars

\* The virtual machine runs every thread and keeps none from a monitor that is
\* free again and again; bodies end.
FairSpec ==
  /\ Spec
  /\ \A t \in Threads : SF_vars(Entering(t)) /\ SF_vars(Leaving(t))

-----------------------------------------------------------------------------
(* Properties.                                                               *)

\* The activations of an operation: a thread and a place on its stack.
Activations(o) ==
  {a \in Threads \X (1 .. MaxDepth) : a[2] <= Len(stack[a[1]]) /\ stack[a[1]][a[2]] = o}

\* The threads that Sentinel counts as waiting.
Queued(o) == {t \in Threads : pc[t] \in {"retest", "waiting", "dequeue"} /\ op[t] = o}

\* The counters say what the threads do, and agree with each other as the
\* comments of Sentinel say (active == act - fin, waiting == req - act), unless
\* a predicate has thrown.
CountersAreExact ==
  \A o \in Ops :
    /\ active[o] = Cardinality(Activations(o))
    /\ active[o] = act[o] - fin[o]
    /\ ~failed => waiting[o] = Cardinality(Queued(o))
    /\ ~failed /\ monitor = None => waiting[o] = req[o] - act[o]

\* The operations of a mutex are never active together, not even two
\* activations of one of them.
MutexHolds ==
  \A m \in MutexDefs : \A o, p \in m :
    \A a \in Activations(o), b \in Activations(p) : a = b

\* Nobody sleeps while its predicate is true, unless the object state was assigned
\* by a body that has not ended yet and will notify when it does (or when it
\* calls an operation).
NobodySleepsInVain ==
  \A t \in waitSet :
    evaluatePP(op[t]) =>
      changed /\ \E u \in Threads : pc[u] \in {"run", "calling"} /\ stack[u] # <<>>

\* A thread that waits goes on, or its predicate becomes false.
WaitingEnds ==
  \A t \in Threads : pc[t] = "waiting" ~> ~(pc[t] = "waiting" /\ evaluatePP(op[t]))
=============================================================================
