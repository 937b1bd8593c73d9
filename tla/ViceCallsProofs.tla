-------------------------- MODULE ViceCallsProofs --------------------------
(***************************************************************************)
(* The proof that Vice implements RemoteCalls: over CPUs and buses whose   *)
(* clocks are stepped back, a call is executed once on each node it was    *)
(* made to, and a synchronous one is answered once, to its caller.         *)
(***************************************************************************)
EXTENDS ViceProofs

-----------------------------------------------------------------------------
(* Where a message is, and who awaits it: the invariant.                     *)

\* A message that the interpreter made.
WellFormed(m) ==
  /\ m.id <= nextmesid /\ m.call <= nextmesid
  /\ m.kind = "response" => m.thread # NoThread
  /\ m.kind # "response" => m.call = m.id
  /\ m.kind = "call" => \E n \in Nodes : m.to = {n}
  /\ m.kind = "broadcast" => m.thread = NoThread

MessagesWellFormed == \A m \in AllMessages : WellFormed(m)

MessagesDiffer == \A m, k \in AllMessages : m.id = k.id => m = k

\* Only calls wait on a node or are executed there, and they were made to it.
AtItsNode ==
  /\ \A n \in Nodes : \A m \in Queued(n) : m.kind # "response" /\ n \in m.to
  /\ \A t \in Serving : thr[t].serves.kind # "response" /\ thr[t].cpu \in thr[t].serves.to

\* A queue holds calls of its operation, each once.
QueuedOnce ==
  \A n \in Nodes, op \in Ops : \A j, k \in DOMAIN queue[n][op] :
    /\ queue[n][op][j].op = op
    /\ queue[n][op][j] = queue[n][op][k] => j = k

\* A message is in one place on every node.
InOnePlace ==
  /\ \A n \in Nodes : OnBuses \cap Queued(n) = {}
  /\ OnBuses \cap Served = {}
  /\ \A n \in Nodes, t \in Serving : thr[t].cpu = n => thr[t].serves \notin Queued(n)
  /\ \A t, u \in Serving : thr[t].serves = thr[u].serves /\ thr[t].cpu = thr[u].cpu => t = u

Responses == {m \in OnBuses : m.kind = "response"}

\* A call that was answered is gone, and answered once.
AnsweredOnce ==
  \A m \in Responses :
    /\ \A k \in AllMessages : k.kind # "response" => k.id # m.call
    /\ \A k \in Responses : k.call = m.call => k = m

Awaiting == {t \in ThreadIds : thr[t].status = "SyncOp"}

\* The thread that a call names awaits its answer, and no other thread does.
AwaitedByItsThread ==
  /\ \A t \in Awaiting : thr[t].awaits <= nextmesid
  /\ \A t, u \in Awaiting : thr[t].awaits = thr[u].awaits => t = u
  /\ \A m \in AllMessages :
       IF m.thread # NoThread
       THEN m.thread \in Awaiting /\ thr[m.thread].awaits = m.call
       ELSE \A t \in Awaiting : thr[t].awaits # m.id

CallInv ==
  /\ MessagesWellFormed
  /\ MessagesDiffer
  /\ AtItsNode
  /\ QueuedOnce
  /\ InOnePlace
  /\ AnsweredOnce
  /\ AwaitedByItsThread

LEMMA ServedBy ==
  /\ \A t \in Serving : t \in ThreadIds /\ thr[t].serves \in Served /\ thr[t].serves # NoMessage
  /\ \A m \in Served : \E t \in Serving : m = thr[t].serves
BY DEF Serving, Served

LEMMA InitCallInv == Init => CallInv
<1> SUFFICES ASSUME Init PROVE CallInv
  OBVIOUS
<1>1. OnBuses = {}
  BY DEF Init, OnBuses
<1>2. \A n \in Nodes : Queued(n) = {}
  BY DEF Init, Queued
<1>3. Serving = {} /\ Served = {}
  BY DEF Init, Served, Serving, NewThread
<1>4. AllMessages = {}
  BY <1>1, <1>2, <1>3 DEF AllMessages
<1>5. QueuedOnce
  BY DEF Init, QueuedOnce
<1>6. Awaiting = {}
  BY DEF Init, Awaiting, NewThread
<1>7. QED
  BY <1>1, <1>2, <1>3, <1>4, <1>5, <1>6
     DEF CallInv, MessagesWellFormed, MessagesDiffer, AtItsNode, InOnePlace, AnsweredOnce, Responses,
         AwaitedByItsThread

\* Ids and counts are numbers.
LEMMA MessageNumbers ==
  ASSUME TypeOK
  PROVE  /\ nextmesid \in Nat
         /\ \A m \in AllMessages : m.id \in Nat /\ m.call \in Nat
         /\ \A m \in Messages : m.id \in Nat /\ m.call \in Nat
         /\ \A t \in ThreadIds : thr[t].awaits \in Nat
<1>1. nextmesid \in Nat
  BY Costs DEF TypeOK
<1>2. \A m \in Messages : m.id \in Nat /\ m.call \in Nat
  BY DEF Messages, MesIds
<1>3. \A t \in ThreadIds : thr[t].awaits \in Nat
  BY DEF TypeOK, ThreadInfos, MesIds
<1>4. QED
  BY <1>1, <1>2, <1>3, MessageTypes

-----------------------------------------------------------------------------
(* The invariant is kept by each kind of step.                               *)

LEMMA QuietCallInv ==
  ASSUME MachineInv, CallInv, Quiet
  PROVE  CallInv' /\ Awaiting' = Awaiting /\ \A t \in Awaiting : thr'[t].awaits = thr[t].awaits
<1>1. TypeOK
  BY DEF MachineInv
<1>2. /\ OnBuses' = OnBuses
      /\ \A n \in Nodes : Queued(n)' = Queued(n)
      /\ Served' = Served /\ Serving' = Serving
      /\ AllMessages' = AllMessages
      /\ Responses' = Responses
  BY <1>1, QuietMessages DEF Responses
<1>3. nextmesid' = nextmesid /\ queue' = queue
  BY DEF Quiet
<1>4. Awaiting' = Awaiting /\ \A t \in Awaiting : thr'[t].awaits = thr[t].awaits
  BY DEF Quiet, Awaiting
<1>5. \A t \in Serving : thr'[t].serves = thr[t].serves /\ thr'[t].cpu = thr[t].cpu
  BY DEF Quiet, Serving
<1>6. MessagesWellFormed' /\ MessagesDiffer'
  BY <1>2, <1>3 DEF CallInv, MessagesWellFormed, MessagesDiffer, WellFormed
<1>7. AtItsNode'
  BY <1>2, <1>5 DEF CallInv, AtItsNode
<1>8. QueuedOnce'
  BY <1>3 DEF CallInv, QueuedOnce
<1>9. InOnePlace'
  <2>1. \A t \in Serving : thr[t].cpu \in Nodes
    BY <1>1 DEF TypeOK, Serving, ThreadInfos
  <2>2. QED
    BY <1>2, <1>5, <2>1 DEF CallInv, InOnePlace
<1>10. AnsweredOnce'
  BY <1>2 DEF CallInv, AnsweredOnce
<1>11. AwaitedByItsThread'
  BY <1>2, <1>3, <1>4 DEF CallInv, AwaitedByItsThread
<1>12. QED
  BY <1>4, <1>6, <1>7, <1>8, <1>9, <1>10, <1>11 DEF CallInv

\* The threads that await an answer after a call.
LEMMA SendsAwaiting ==
  ASSUME TypeOK, NEW m, Sends(m)
  PROVE  /\ m.thread = NoThread => Awaiting' = Awaiting
         /\ m.thread # NoThread => /\ m.thread \in ThreadIds /\ m.thread \notin Awaiting
                                   /\ Awaiting' = Awaiting \cup {m.thread}
                                   /\ thr'[m.thread].awaits = m.id
         /\ \A t \in Awaiting : thr'[t].awaits = thr[t].awaits
<1>1. m.thread = NoThread \/ m.thread \in ThreadIds
  BY DEF Sends, Messages
<1>2. NoThread \notin ThreadIds
  BY Costs
<1>3. CASE m.thread = NoThread
  <2>1. \A t \in ThreadIds : thr'[t] = thr[t]
    BY <1>2, <1>3 DEF Sends
  <2>2. QED
    BY <1>3, <2>1 DEF Awaiting
<1>4. CASE m.thread \in ThreadIds
  BY <1>2, <1>4 DEF Sends, Awaiting
<1>5. QED
  BY <1>1, <1>3, <1>4

LEMMA SendsCallInv ==
  ASSUME MachineInv, CallInv, NEW m, Sends(m)
  PROVE  CallInv'
<1>1. TypeOK
  BY DEF MachineInv
<1>2. /\ m.id = nextmesid + 1 /\ m.call = m.id /\ nextmesid' = nextmesid + 1 /\ nextmesid \in Nat
      /\ m.kind # "response" /\ queue' = queue
      /\ OnBuses' = OnBuses \/ OnBuses' = OnBuses \cup {m}
  BY <1>1, MessageNumbers DEF Sends
<1>3. /\ \A n \in Nodes : Queued(n)' = Queued(n)
      /\ Served' = Served /\ Serving' = Serving
      /\ AllMessages' \subseteq AllMessages \cup {m}
  BY <1>1, SendsMessages
<1>4. \A k \in AllMessages : /\ k.id <= nextmesid /\ k.call <= nextmesid
                             /\ k.id \in Nat /\ k.call \in Nat
  BY <1>1, MessageNumbers DEF CallInv, MessagesWellFormed, WellFormed
<1>5. \A k \in AllMessages : k.id # m.id /\ k.call # m.id /\ k # m
  BY <1>2, <1>4
<1>6. MessagesWellFormed'
  <2>1. \A k \in AllMessages : WellFormed(k)'
    BY <1>2, <1>4 DEF CallInv, MessagesWellFormed, WellFormed
  <2>2. WellFormed(m)'
    BY <1>2 DEF Sends, WellFormed
  <2>3. QED
    BY <1>3, <2>1, <2>2 DEF MessagesWellFormed
<1>7. MessagesDiffer'
  BY <1>3, <1>5 DEF CallInv, MessagesDiffer
<1>8. \A t \in Serving : thr'[t].serves = thr[t].serves /\ thr'[t].cpu = thr[t].cpu
  BY DEF Sends, Serving
<1>9. AtItsNode'
  BY <1>3, <1>8 DEF CallInv, AtItsNode
<1>10. QueuedOnce'
  BY <1>2 DEF CallInv, QueuedOnce
<1>11. InOnePlace'
  <2>1. m \notin Served /\ \A n \in Nodes : m \notin Queued(n)
    BY <1>5 DEF AllMessages
  <2>2. \A t \in Serving : thr[t].cpu \in Nodes
    BY <1>1 DEF TypeOK, Serving, ThreadInfos
  <2>3. QED
    BY <1>2, <1>3, <1>8, <2>1, <2>2 DEF CallInv, InOnePlace
<1>12. AnsweredOnce'
  <2>1. Responses' = Responses
    BY <1>2 DEF Responses
  <2>2. \A k \in Responses : k.call # m.id
    BY <1>5 DEF Responses, AllMessages
  <2>3. QED
    BY <1>3, <2>1, <2>2 DEF CallInv, AnsweredOnce
<1>13. AwaitedByItsThread'
  <2>1. \A t \in Awaiting : /\ thr[t].awaits <= nextmesid /\ thr[t].awaits \in Nat
    BY <1>1, MessageNumbers DEF CallInv, AwaitedByItsThread, Awaiting
  <2>2. \A t \in Awaiting : thr[t].awaits # m.id /\ thr[t].awaits <= nextmesid'
    BY <1>2, <2>1
  <2>3. CASE m.thread = NoThread
    <3>1. Awaiting' = Awaiting /\ \A t \in Awaiting : thr'[t].awaits = thr[t].awaits
      BY <1>1, <2>3, SendsAwaiting
    <3>2. QED
      BY <1>3, <2>2, <2>3, <3>1 DEF CallInv, AwaitedByItsThread
  <2>4. CASE m.thread # NoThread
    <3>1. /\ m.thread \notin Awaiting
          /\ Awaiting' = Awaiting \cup {m.thread} /\ thr'[m.thread].awaits = m.id
          /\ \A t \in Awaiting : thr'[t].awaits = thr[t].awaits
      BY <1>1, <2>4, SendsAwaiting
    <3>2. m.id <= nextmesid'
      BY <1>2
    <3>3. /\ \A t \in Awaiting' : thr'[t].awaits <= nextmesid'
          /\ \A t, u \in Awaiting' : thr'[t].awaits = thr'[u].awaits => t = u
      BY <2>2, <3>1, <3>2 DEF CallInv, AwaitedByItsThread
    <3>4. ASSUME NEW k \in AllMessages
          PROVE  IF k.thread # NoThread
                 THEN k.thread \in Awaiting' /\ thr'[k.thread].awaits = k.call
                 ELSE \A t \in Awaiting' : thr'[t].awaits # k.id
      BY <1>5, <3>1 DEF CallInv, AwaitedByItsThread
    <3>5. QED
      BY <1>2, <1>3, <2>4, <3>1, <3>3, <3>4 DEF AwaitedByItsThread
  <2>5. QED
    BY <2>3, <2>4
<1>14. QED
  BY <1>6, <1>7, <1>9, <1>10, <1>11, <1>12, <1>13 DEF CallInv

\* The queue without its first element.
LEMMA TailOnce ==
  ASSUME NEW S, NEW q \in Seq(S), q # <<>>, \A j, k \in DOMAIN q : q[j] = q[k] => j = k
  PROVE  /\ \A j \in DOMAIN Tail(q) : Tail(q)[j] = q[j + 1] /\ j + 1 \in DOMAIN q
                                      /\ Tail(q)[j] # Head(q)
         /\ \A j, k \in DOMAIN Tail(q) : Tail(q)[j] = Tail(q)[k] => j = k
<1>1. /\ Tail(q) \in Seq(S) /\ Len(Tail(q)) = Len(q) - 1 /\ Head(q) = q[1]
      /\ \A i \in 1 .. Len(q) - 1 : Tail(q)[i] = q[i + 1]
  BY HeadTailProperties
<1>2. Len(q) \in Nat /\ DOMAIN q = 1 .. Len(q) /\ DOMAIN Tail(q) = 1 .. Len(q) - 1
  BY <1>1, LenProperties
<1>3. \A j \in 1 .. Len(q) - 1 : j + 1 \in 1 .. Len(q) /\ j + 1 # 1 /\ 1 \in 1 .. Len(q)
  BY <1>2
<1>4. \A j \in DOMAIN Tail(q) : Tail(q)[j] = q[j + 1] /\ j + 1 \in DOMAIN q /\ Tail(q)[j] # Head(q)
  BY <1>1, <1>2, <1>3
<1>5. \A j, k \in DOMAIN Tail(q) : j + 1 = k + 1 => j = k
  BY <1>2
<1>6. QED
  BY <1>4, <1>5

LEMMA StartsQueues ==
  ASSUME TypeOK, QueuedOnce, NEW c, NEW op, NEW m, NEW t, Starts(c, op, m, t)
  PROVE  QueuedOnce' /\ m \notin Queued(c)'
<1>1. /\ c \in Nodes /\ op \in Ops /\ queue[c][op] # <<>> /\ m = Head(queue[c][op])
      /\ queue[c][op] \in Seq(Messages)
      /\ queue' = [queue EXCEPT ![c][op] = Tail(@)]
  BY DEF Starts, TypeOK
<1>2. \A n \in Nodes, o \in Ops :
        queue'[n][o] = IF n = c /\ o = op THEN Tail(queue[c][op]) ELSE queue[n][o]
  BY <1>1 DEF TypeOK
<1>3. \A j, k \in DOMAIN queue[c][op] : queue[c][op][j] = queue[c][op][k] => j = k
  BY <1>1 DEF QueuedOnce
<1>4. /\ \A j \in DOMAIN Tail(queue[c][op]) : /\ Tail(queue[c][op])[j] = queue[c][op][j + 1]
                                              /\ j + 1 \in DOMAIN queue[c][op]
                                              /\ Tail(queue[c][op])[j] # m
      /\ \A j, k \in DOMAIN Tail(queue[c][op]) : Tail(queue[c][op])[j] = Tail(queue[c][op])[k] => j = k
  BY <1>1, <1>3, TailOnce
<1>5. \A j \in DOMAIN Tail(queue[c][op]) : Tail(queue[c][op])[j].op = op
  BY <1>1, <1>4 DEF QueuedOnce
<1>6. QueuedOnce'
  <2>1. ASSUME NEW n \in Nodes, NEW o \in Ops, NEW j \in DOMAIN queue'[n][o], NEW k \in DOMAIN queue'[n][o]
        PROVE  queue'[n][o][j].op = o /\ (queue'[n][o][j] = queue'[n][o][k] => j = k)
    <3>1. CASE n = c /\ o = op
      <4>1. queue'[n][o] = Tail(queue[c][op])
        BY <1>2, <3>1
      <4>2. QED
        BY <1>4, <1>5, <2>1, <3>1, <4>1
    <3>2. CASE ~ (n = c /\ o = op)
      <4>1. queue'[n][o] = queue[n][o]
        BY <1>2, <3>2
      <4>2. QED
        BY <2>1, <4>1 DEF QueuedOnce
    <3>3. QED
      BY <3>1, <3>2
  <2>2. QED
    BY <2>1 DEF QueuedOnce
<1>7. m.op = op
  <2>1. 1 \in DOMAIN queue[c][op] /\ m = queue[c][op][1]
    BY <1>1, HeadTailProperties, LenProperties, EmptySeq
  <2>2. QED
    BY <1>1, <2>1 DEF QueuedOnce
<1>8. ASSUME NEW o \in Ops, NEW k \in DOMAIN queue'[c][o] PROVE queue'[c][o][k] # m
  <2>1. CASE o = op
    <3>1. queue'[c][o] = Tail(queue[c][op])
      BY <1>1, <1>2, <2>1
    <3>2. QED
      BY <1>4, <1>8, <3>1
  <2>2. CASE o # op
    <3>1. queue'[c][o] = queue[c][o]
      BY <1>1, <1>2, <2>2
    <3>2. queue[c][o][k].op = o
      BY <1>1, <1>8, <3>1 DEF QueuedOnce
    <3>3. QED
      BY <1>7, <2>2, <3>1, <3>2
  <2>3. QED
    BY <2>1, <2>2
<1>9. QED
  BY <1>6, <1>8 DEF Queued

LEMMA StartsCallInv ==
  ASSUME MachineInv, CallInv, NEW c, NEW op, NEW m, NEW t, Starts(c, op, m, t)
  PROVE  CallInv' /\ Awaiting' = Awaiting /\ \A u \in Awaiting : thr'[u] = thr[u]
<1>1. TypeOK
  BY DEF MachineInv
<1>2. /\ OnBuses' = OnBuses
      /\ m \in Queued(c) /\ m \in Messages
      /\ Queued(c) = Queued(c)' \cup {m}
      /\ \A n \in Nodes : n # c => Queued(n)' = Queued(n)
      /\ Serving' = Serving \cup {t} /\ t \notin Serving
      /\ Served' = Served \cup {m}
      /\ AllMessages' \subseteq AllMessages
  BY <1>1, StartsMessages
<1>3. /\ c \in Nodes /\ t \in ThreadIds /\ nextmesid' = nextmesid
      /\ thr[t].status # "SyncOp" /\ thr'[t].status # "SyncOp"
      /\ thr'[t].serves = m /\ thr'[t].cpu = c
      /\ \A u \in ThreadIds \ {t} : thr'[u] = thr[u]
  BY DEF Starts
<1>4. \A u \in Serving : thr'[u] = thr[u] /\ u # t /\ thr[u].cpu \in Nodes
  BY <1>1, <1>2, <1>3, ServedBy DEF TypeOK, ThreadInfos
<1>5. \A n \in Nodes : Queued(n)' \subseteq Queued(n)
  BY <1>2
<1>6. QueuedOnce' /\ m \notin Queued(c)'
  BY <1>1, StartsQueues DEF CallInv
<1>7. Awaiting' = Awaiting /\ \A u \in Awaiting : thr'[u] = thr[u]
  BY <1>3 DEF Awaiting
<1>8. MessagesWellFormed' /\ MessagesDiffer'
  <2>1. \A k \in AllMessages : WellFormed(k) => WellFormed(k)'
    BY <1>3 DEF WellFormed
  <2>2. QED
    BY <1>2, <2>1 DEF CallInv, MessagesWellFormed, MessagesDiffer
<1>9. AtItsNode'
  <2>1. m.kind # "response" /\ c \in m.to
    BY <1>2, <1>3 DEF CallInv, AtItsNode
  <2>2. QED
    BY <1>2, <1>3, <1>4, <1>5, <2>1 DEF CallInv, AtItsNode
<1>10. InOnePlace'
  <2>1. OnBuses' \cap Served' = {} /\ \A n \in Nodes : OnBuses' \cap Queued(n)' = {}
    BY <1>2, <1>3, <1>5 DEF CallInv, InOnePlace
  <2>2. \A n \in Nodes, u \in Serving' : thr'[u].cpu = n => thr'[u].serves \notin Queued(n)'
    <3>1. \A n \in Nodes, u \in Serving : thr'[u].cpu = n => thr'[u].serves \notin Queued(n)'
      BY <1>4, <1>5 DEF CallInv, InOnePlace
    <3>2. \A n \in Nodes : thr'[t].cpu = n => thr'[t].serves \notin Queued(n)'
      BY <1>3, <1>6
    <3>3. QED
      BY <1>2, <3>1, <3>2
  <2>3. \A u \in Serving : ~ (thr[u].serves = m /\ thr[u].cpu = c)
    BY <1>2, <1>3 DEF CallInv, InOnePlace
  <2>4. \A u, v \in Serving' : thr'[u].serves = thr'[v].serves /\ thr'[u].cpu = thr'[v].cpu => u = v
    BY <1>2, <1>3, <1>4, <2>3 DEF CallInv, InOnePlace
  <2>5. QED
    BY <2>1, <2>2, <2>4 DEF InOnePlace
<1>11. AnsweredOnce'
  <2>1. Responses' = Responses
    BY <1>2 DEF Responses
  <2>2. QED
    BY <1>2, <2>1 DEF CallInv, AnsweredOnce
<1>12. AwaitedByItsThread'
  BY <1>2, <1>3, <1>7 DEF CallInv, AwaitedByItsThread
<1>13. QED
  BY <1>6, <1>7, <1>8, <1>9, <1>10, <1>11, <1>12 DEF CallInv

\* A call that a thread awaits is executed in one place only.
LEMMA ReturnsLast ==
  ASSUME MachineInv, CallInv, NEW t, NEW m, Returns(t, m), m.thread # NoThread
  PROVE  /\ m \notin OnBuses /\ m \notin Served' /\ \A n \in Nodes : m \notin Queued(n)
         /\ m.call = m.id
<1>1. TypeOK
  BY DEF MachineInv
<1>2. /\ t \in Serving /\ m \in Served /\ Serving' = Serving \ {t}
      /\ \A u \in Serving' : thr'[u] = thr[u]
      /\ m = thr[t].serves /\ thr[t].cpu \in Nodes /\ m \in Messages
  BY <1>1, ReturnsMessages DEF Returns
<1>3. m.kind # "response" /\ thr[t].cpu \in m.to
  BY <1>2 DEF CallInv, AtItsNode
<1>4. m \in AllMessages
  BY <1>2 DEF AllMessages
<1>5. m.kind = "call" /\ m.call = m.id
  BY <1>2, <1>3, <1>4 DEF CallInv, MessagesWellFormed, WellFormed, Messages
<1>6. m.to = {thr[t].cpu}
  BY <1>3, <1>4, <1>5 DEF CallInv, MessagesWellFormed, WellFormed
<1>7. m \notin OnBuses
  BY <1>2 DEF CallInv, InOnePlace
<1>8. \A n \in Nodes : m \notin Queued(n)
  <2>1. m \notin Queued(thr[t].cpu)
    BY <1>2 DEF CallInv, InOnePlace
  <2>2. QED
    BY <1>6, <2>1 DEF CallInv, AtItsNode
<1>9. m \notin Served'
  <2>1. \A u \in Serving' : thr'[u].serves = thr[u].serves /\ u \in Serving /\ u # t
    BY <1>2
  <2>2. \A u \in Serving : thr[u].serves = m => thr[u].cpu = thr[t].cpu
    BY <1>6 DEF CallInv, AtItsNode
  <2>3. \A u \in Serving' : thr'[u].serves # m
    BY <1>2, <2>1, <2>2 DEF CallInv, InOnePlace
  <2>4. QED
    BY <2>3 DEF Served
<1>10. QED
  BY <1>5, <1>7, <1>8, <1>9

LEMMA ReturnsCallInv ==
  ASSUME MachineInv, CallInv, NEW t, NEW m, Returns(t, m)
  PROVE  CallInv' /\ Awaiting' = Awaiting /\ \A u \in Awaiting : thr'[u] = thr[u]
<1>1. TypeOK
  BY DEF MachineInv
<1>2. /\ \A n \in Nodes : Queued(n)' = Queued(n)
      /\ t \in Serving /\ m \in Served /\ Serving' = Serving \ {t}
      /\ \A u \in Serving' : thr'[u] = thr[u]
      /\ Served' \subseteq Served
  BY <1>1, ReturnsMessages
<1>3. /\ t \in ThreadIds /\ queue' = queue /\ m \in Messages
      /\ thr[t].status # "SyncOp" /\ thr'[t].status # "SyncOp"
      /\ \A u \in ThreadIds \ {t} : thr'[u] = thr[u]
  BY DEF Returns
<1>4. Awaiting' = Awaiting /\ \A u \in Awaiting : thr'[u] = thr[u]
  BY <1>3 DEF Awaiting
<1>5. m \in AllMessages
  BY <1>2 DEF AllMessages
<1>6. AtItsNode'
  <2>1. \A u \in Serving' : u \in Serving
    BY <1>2
  <2>2. QED
    BY <1>2, <2>1 DEF CallInv, AtItsNode
<1>7. QueuedOnce'
  BY <1>3 DEF CallInv, QueuedOnce
<1>8. /\ \A n \in Nodes, u \in Serving' : thr'[u].cpu = n => thr'[u].serves \notin Queued(n)'
      /\ \A u, v \in Serving' : thr'[u].serves = thr'[v].serves /\ thr'[u].cpu = thr'[v].cpu => u = v
  <2>1. \A u \in Serving' : u \in Serving /\ thr[u].cpu \in Nodes
    BY <1>1, <1>2, ServedBy DEF TypeOK, ThreadInfos
  <2>2. QED
    BY <1>2, <2>1 DEF CallInv, InOnePlace
<1>9. CASE m.thread = NoThread /\ UNCHANGED <<mes, nextmesid>>
  <2>1. OnBuses' = OnBuses /\ Responses' = Responses /\ nextmesid' = nextmesid
    BY <1>9 DEF OnBuses, Responses
  <2>2. AllMessages' \subseteq AllMessages
    BY <1>2, <2>1 DEF AllMessages
  <2>3. MessagesWellFormed' /\ MessagesDiffer'
    <3>1. \A k \in AllMessages : WellFormed(k) => WellFormed(k)'
      BY <2>1 DEF WellFormed
    <3>2. QED
      BY <2>2, <3>1 DEF CallInv, MessagesWellFormed, MessagesDiffer
  <2>4. InOnePlace'
    BY <1>2, <1>8, <2>1 DEF CallInv, InOnePlace
  <2>5. AnsweredOnce' /\ AwaitedByItsThread'
    BY <1>4, <2>1, <2>2 DEF CallInv, AnsweredOnce, AwaitedByItsThread
  <2>6. QED
    BY <1>4, <1>6, <1>7, <2>3, <2>4, <2>5 DEF CallInv
<1>10. ASSUME m.thread # NoThread, nextmesid' = nextmesid + 1, NEW r \in Messages,
              r.id = nextmesid + 1, r.kind = "response", r.call = m.call,
              r.from = thr[t].cpu, r.thread = m.thread, OnBuses' = OnBuses \cup {r}
       PROVE  CallInv'
  <2>1. /\ m \notin OnBuses /\ m \notin Served' /\ \A n \in Nodes : m \notin Queued(n)
        /\ m.call = m.id
    BY <1>10, ReturnsLast
  <2>2. m # r
    <3>1. m.kind # "response"
      BY <1>2, <1>3 DEF CallInv, AtItsNode, Returns
    <3>2. QED
      BY <1>10, <3>1
  <2>3. AllMessages' \subseteq (AllMessages \ {m}) \cup {r}
    BY <1>2, <1>10, <2>1 DEF AllMessages
  <2>4. /\ nextmesid \in Nat
        /\ \A k \in AllMessages : /\ k.id <= nextmesid /\ k.call <= nextmesid
                                  /\ k.id \in Nat /\ k.call \in Nat
    BY <1>1, MessageNumbers DEF CallInv, MessagesWellFormed, WellFormed
  <2>5. \A k \in AllMessages : k.id # r.id /\ k # r
    BY <1>10, <2>4
  <2>6. MessagesWellFormed'
    <3>1. \A k \in AllMessages : WellFormed(k)'
      BY <1>10, <2>4 DEF CallInv, MessagesWellFormed, WellFormed
    <3>2. m.call <= nextmesid + 1
      BY <1>5, <2>4
    <3>3. WellFormed(r)'
      BY <1>10, <2>4, <3>2 DEF WellFormed
    <3>4. QED
      BY <2>3, <3>1, <3>3 DEF MessagesWellFormed
  <2>7. MessagesDiffer'
    BY <2>3, <2>5 DEF CallInv, MessagesDiffer
  <2>8. InOnePlace'
    <3>1. r \notin Served' /\ \A n \in Nodes : r \notin Queued(n)'
      BY <1>2, <2>5 DEF AllMessages
    <3>2. OnBuses' \cap Served' = {} /\ \A n \in Nodes : OnBuses' \cap Queued(n)' = {}
      BY <1>2, <1>10, <3>1 DEF CallInv, InOnePlace
    <3>3. QED
      BY <1>8, <3>2 DEF InOnePlace
  <2>9. AnsweredOnce'
    <3>1. Responses' = Responses \cup {r}
      BY <1>10 DEF Responses
    <3>2. \A k \in AllMessages \ {m} : k.id # r.call
      BY <1>5, <1>10, <2>1 DEF CallInv, MessagesDiffer
    <3>3. \A k \in Responses : k.call # r.call
      <4>1. m.kind # "response"
        BY <1>2, <1>3 DEF CallInv, AtItsNode, Returns
      <4>2. QED
        BY <1>5, <1>10, <2>1, <4>1 DEF CallInv, AnsweredOnce
    <3>4. \A k \in Responses : \A l \in AllMessages' : l.kind # "response" => l.id # k.call
      BY <1>10, <2>3 DEF CallInv, AnsweredOnce
    <3>5. \A l \in AllMessages' : l.kind # "response" => l.id # r.call
      BY <1>10, <2>3, <3>2
    <3>6. QED
      BY <3>1, <3>3, <3>4, <3>5 DEF CallInv, AnsweredOnce
  <2>10. AwaitedByItsThread'
    <3>1. m.thread \in Awaiting /\ thr[m.thread].awaits = m.call
      BY <1>5, <1>10 DEF CallInv, AwaitedByItsThread
    <3>2. \A u \in Awaiting : thr[u].awaits \in Nat /\ thr[u].awaits <= nextmesid + 1
      BY <1>1, <2>4, MessageNumbers DEF CallInv, AwaitedByItsThread, Awaiting
    <3>3. \A k \in AllMessages \cup {r} :
            IF k.thread # NoThread
            THEN k.thread \in Awaiting' /\ thr'[k.thread].awaits = k.call
            ELSE \A u \in Awaiting' : thr'[u].awaits # k.id
      BY <1>4, <1>10, <3>1 DEF CallInv, AwaitedByItsThread
    <3>4. QED
      BY <1>4, <1>10, <2>3, <3>2, <3>3 DEF CallInv, AwaitedByItsThread
  <2>11. QED
    BY <1>6, <1>7, <2>6, <2>7, <2>8, <2>9, <2>10 DEF CallInv
<1>11. QED
  BY <1>4, <1>9, <1>10 DEF Returns

\* An element that is new to a queue is in it once.
LEMMA InsertedOnce ==
  ASSUME NEW S, NEW s \in Seq(S), NEW m \in S
  PROVE  /\ \A j \in DOMAIN s : s[j] # m
         /\ \A j, k \in DOMAIN s : s[j] = s[k] => j = k
         => \A j, k \in DOMAIN InsertByTime(s, m) :
              InsertByTime(s, m)[j] = InsertByTime(s, m)[k] => j = k
<1> DEFINE p == PlaceOf(s, m)
           n == Len(s)
           q == InsertByTime(s, m)
<1> HIDE DEF p, n, q
<1>place. p \in 0 .. n
  BY InsertByTimePlace DEF p, n
<1>type. q \in Seq(S) /\ Len(q) = n + 1
  BY InsertByTimePlace DEF q, n
<1>elements. ASSUME NEW i \in 1 .. n + 1
      PROVE  q[i] = IF i <= p THEN s[i] ELSE IF i = p + 1 THEN m ELSE s[i - 1]
  BY InsertByTimePlace DEF p, n, q
<1>1. /\ p \in 0 .. n /\ q \in Seq(S) /\ Len(q) = n + 1
      /\ \A i \in 1 .. n + 1 : q[i] = IF i <= p THEN s[i] ELSE IF i = p + 1 THEN m ELSE s[i - 1]
  BY <1>place, <1>type, <1>elements
<1>2. n \in Nat /\ DOMAIN s = 1 .. n
  BY LenProperties DEF n
<1>3. DOMAIN q = 1 .. n + 1
  BY <1>1, LenProperties
<1> HIDE DEF p, n, q
<1> SUFFICES ASSUME \A j \in DOMAIN s : s[j] # m,
                    \A j, k \in DOMAIN s : s[j] = s[k] => j = k
             PROVE  \A j, k \in DOMAIN q : q[j] = q[k] => j = k
  BY DEF q
<1> DEFINE from(i) == IF i <= p THEN i ELSE i - 1
<1>4. \A i \in 1 .. n + 1 : i # p + 1 => q[i] = s[from(i)] /\ from(i) \in 1 .. n
  BY <1>1, <1>2
<1>5. q[p + 1] = m /\ p + 1 \in 1 .. n + 1
  BY <1>1, <1>2
<1>6. \A i, j \in 1 .. n + 1 : i # p + 1 /\ j # p + 1 /\ from(i) = from(j) => i = j
  BY <1>1, <1>2
<1> HIDE DEF from
<1>7. \A i \in 1 .. n + 1 : i # p + 1 => q[i] # m
  BY <1>2, <1>4
<1>8. \A j, k \in 1 .. n + 1 : q[j] = q[k] => j = k
  BY <1>2, <1>4, <1>5, <1>6, <1>7
<1>9. QED
  BY <1>3, <1>8

LEMMA SpreadsQueues ==
  ASSUME TypeOK, QueuedOnce, NEW m \in Messages, NEW S, Spreads(m, S),
         \A n \in Nodes : m \notin Queued(n)
  PROVE  QueuedOnce'
<1>1. m.op \in Ops
  BY DEF Messages
<1>2. ASSUME NEW n \in Nodes, NEW o \in Ops, NEW j \in DOMAIN queue'[n][o], NEW k \in DOMAIN queue'[n][o]
      PROVE  queue'[n][o][j].op = o /\ (queue'[n][o][j] = queue'[n][o][k] => j = k)
  <2>1. queue[n] \in [Ops -> Seq(Messages)] /\ queue[n][o] \in Seq(Messages)
    BY DEF TypeOK
  <2>2. \A i, l \in DOMAIN queue[n][o] : /\ queue[n][o][i].op = o
                                         /\ queue[n][o][i] = queue[n][o][l] => i = l
                                         /\ queue[n][o][i] # m
    BY DEF QueuedOnce, Queued
  <2>3. CASE n \in S /\ o = m.op
    <3>1. queue'[n] = [queue[n] EXCEPT ![m.op] = InsertByTime(@, m)]
      BY <2>3 DEF Spreads
    <3>2. queue'[n][o] = InsertByTime(queue[n][o], m)
      BY <1>1, <2>1, <2>3, <3>1
    <3>3. queue'[n][o][j] = queue'[n][o][k] => j = k
      BY <1>2, <2>1, <2>2, <3>2, InsertedOnce
    <3>4. Elements(queue'[n][o]) = Elements(queue[n][o]) \cup {m}
      BY <2>1, <3>2, InsertByTimeElements
    <3>5. queue'[n][o][j] \in Elements(queue'[n][o])
      BY <1>2 DEF Elements
    <3>6. \A x \in Elements(queue[n][o]) \cup {m} : x.op = o
      BY <2>2, <2>3 DEF Elements
    <3>7. QED
      BY <3>3, <3>4, <3>5, <3>6
  <2>4. CASE ~ (n \in S /\ o = m.op)
    <3>1. queue'[n] = IF n \in S THEN [queue[n] EXCEPT ![m.op] = InsertByTime(@, m)] ELSE queue[n]
      BY DEF Spreads
    <3>2. queue'[n][o] = queue[n][o]
      BY <2>1, <2>4, <3>1
    <3>3. QED
      BY <1>2, <2>2, <3>2
  <2>5. QED
    BY <2>3, <2>4
<1>3. QED
  BY <1>2 DEF QueuedOnce

LEMMA DeliversResponseInv ==
  ASSUME MachineInv, CallInv, NEW m, Delivers(m), m.kind = "response"
  PROVE  /\ CallInv'
         /\ m.thread \in Awaiting /\ thr[m.thread].awaits = m.call
         /\ Awaiting' = Awaiting \ {m.thread}
         /\ \A t \in Awaiting' : thr'[t] = thr[t]
<1>1. TypeOK
  BY DEF MachineInv
<1>2. /\ m \in OnBuses /\ OnBuses' = OnBuses \ {m} /\ nextmesid' = nextmesid
      /\ queue' = queue
      /\ \A t \in ThreadIds : /\ thr'[t].serves = thr[t].serves
                              /\ thr'[t].cpu = thr[t].cpu
                              /\ t = m.thread => thr'[t].status = "Running"
                              /\ t # m.thread => thr'[t] = thr[t]
  BY DEF Delivers
<1>3. /\ Served' = Served /\ Serving' = Serving
      /\ AllMessages' \subseteq AllMessages
  BY <1>1, DeliversMessages
<1>4. \A n \in Nodes : Queued(n)' = Queued(n)
  BY <1>2 DEF Queued
<1>5. m \in AllMessages /\ m \in Responses
  BY <1>2 DEF AllMessages, Responses
<1>6. m.thread # NoThread
  BY <1>5 DEF CallInv, MessagesWellFormed, WellFormed
<1>7. m.thread \in Awaiting /\ thr[m.thread].awaits = m.call
  BY <1>5, <1>6 DEF CallInv, AwaitedByItsThread
<1>8. Awaiting' = Awaiting \ {m.thread} /\ \A t \in Awaiting' : thr'[t] = thr[t]
  BY <1>2 DEF Awaiting
<1>9. \A t \in Serving : thr'[t].serves = thr[t].serves /\ thr'[t].cpu = thr[t].cpu
  BY <1>2, ServedBy
<1>10. MessagesWellFormed' /\ MessagesDiffer'
  <2>1. \A k \in AllMessages : WellFormed(k) => WellFormed(k)'
    BY <1>2 DEF WellFormed
  <2>2. QED
    BY <1>3, <2>1 DEF CallInv, MessagesWellFormed, MessagesDiffer
<1>11. AtItsNode' /\ QueuedOnce'
  BY <1>2, <1>3, <1>4, <1>9 DEF CallInv, AtItsNode, QueuedOnce
<1>12. InOnePlace'
  BY <1>2, <1>3, <1>4, <1>9 DEF CallInv, InOnePlace
<1>13. Responses' = Responses \ {m}
  BY <1>2 DEF Responses
<1>14. AnsweredOnce'
  BY <1>3, <1>13 DEF CallInv, AnsweredOnce
<1>15. AwaitedByItsThread'
  <2>1. m \notin AllMessages'
    <3>1. m \notin Served /\ \A n \in Nodes : m \notin Queued(n)
      BY <1>2 DEF CallInv, InOnePlace
    <3>2. QED
      BY <1>2, <1>3, <1>4, <3>1 DEF AllMessages
  <2>2. ASSUME NEW k \in AllMessages', k.thread # NoThread
        PROVE  k.thread # m.thread
    <3>1. k \in AllMessages /\ k # m
      BY <1>3, <2>1, <2>2
    <3>2. SUFFICES ASSUME k.thread = m.thread PROVE FALSE
      OBVIOUS
    <3>3. k.call = m.call
      BY <1>7, <2>2, <3>1, <3>2 DEF CallInv, AwaitedByItsThread
    <3>4. CASE k.kind = "response"
      <4>1. k \in OnBuses
        <5>1. k \notin Served /\ \A n \in Nodes : k \notin Queued(n)
          BY <3>4, ServedBy DEF CallInv, AtItsNode
        <5>2. QED
          BY <3>1, <5>1 DEF AllMessages
      <4>2. QED
        BY <1>5, <3>1, <3>3, <3>4, <4>1 DEF CallInv, AnsweredOnce, Responses
    <3>5. CASE k.kind # "response"
      <4>1. k.call = k.id
        BY <3>1, <3>5 DEF CallInv, MessagesWellFormed, WellFormed
      <4>2. QED
        BY <1>5, <3>1, <3>3, <3>5, <4>1 DEF CallInv, AnsweredOnce
    <3>6. QED
      BY <3>4, <3>5
  <2>3. ASSUME NEW k \in AllMessages'
        PROVE  IF k.thread # NoThread
               THEN k.thread \in Awaiting' /\ thr'[k.thread].awaits = k.call
               ELSE \A t \in Awaiting' : thr'[t].awaits # k.id
    <3>1. k \in AllMessages
      BY <1>3, <2>3
    <3>2. CASE k.thread # NoThread
      BY <1>8, <2>2, <3>1, <3>2 DEF CallInv, AwaitedByItsThread
    <3>3. CASE k.thread = NoThread
      BY <1>8, <3>1, <3>3 DEF CallInv, AwaitedByItsThread
    <3>4. QED
      BY <3>2, <3>3
  <2>4. QED
    BY <1>2, <1>8, <2>3 DEF CallInv, AwaitedByItsThread
<1>16. QED
  BY <1>7, <1>8, <1>10, <1>11, <1>12, <1>14, <1>15 DEF CallInv

LEMMA DeliversCallInv ==
  ASSUME MachineInv, CallInv, NEW m, Delivers(m), m.kind # "response"
  PROVE  /\ CallInv'
         /\ thr' = thr
         /\ \A n \in Nodes : Queued(n)' = IF n \in m.to THEN Queued(n) \cup {m} ELSE Queued(n)
<1>1. TypeOK
  BY DEF MachineInv
<1>2. /\ m \in OnBuses /\ m \in Messages /\ OnBuses' = OnBuses \ {m} /\ nextmesid' = nextmesid
      /\ thr' = thr
  BY DEF Delivers
<1>3. PICK S \in SUBSET m.to : Spreads(m, S)
  BY DEF Delivers
<1>4. /\ Served' = Served /\ Serving' = Serving
      /\ AllMessages' \subseteq AllMessages
  BY <1>1, DeliversMessages
<1>5. m \in AllMessages
  BY <1>2 DEF AllMessages
<1>6. S = m.to
  <2>1. CASE m.kind = "broadcast"
    BY <1>3, <2>1 DEF Spreads
  <2>2. CASE m.kind = "call"
    <3>1. PICK n \in Nodes : m.to = {n}
      BY <1>5, <2>2 DEF CallInv, MessagesWellFormed, WellFormed
    <3>2. S # {}
      BY <1>3, <2>2 DEF Spreads
    <3>3. QED
      BY <1>3, <3>1, <3>2
  <2>3. QED
    BY <1>2, <2>1, <2>2 DEF Messages
<1>7. \A n \in Nodes : Queued(n)' = IF n \in m.to THEN Queued(n) \cup {m} ELSE Queued(n)
  BY <1>3, <1>6 DEF Spreads
<1>8. m \notin Served /\ \A n \in Nodes : m \notin Queued(n)
  BY <1>2 DEF CallInv, InOnePlace
<1>9. MessagesWellFormed' /\ MessagesDiffer'
  <2>1. \A k \in AllMessages : WellFormed(k) => WellFormed(k)'
    BY <1>2 DEF WellFormed
  <2>2. QED
    BY <1>4, <2>1 DEF CallInv, MessagesWellFormed, MessagesDiffer
<1>10. AtItsNode'
  BY <1>2, <1>4, <1>7 DEF CallInv, AtItsNode
<1>11. QueuedOnce'
  BY <1>1, <1>2, <1>3, <1>8, SpreadsQueues DEF CallInv
<1>12. InOnePlace'
  <2>1. \A t \in Serving : thr[t].serves # m
    BY <1>8, ServedBy
  <2>2. \A n \in Nodes : OnBuses' \cap Queued(n)' = {}
    BY <1>2, <1>7 DEF CallInv, InOnePlace
  <2>3. \A n \in Nodes, t \in Serving : thr[t].cpu = n => thr[t].serves \notin Queued(n)'
    BY <1>7, <2>1 DEF CallInv, InOnePlace
  <2>4. QED
    BY <1>2, <1>4, <2>2, <2>3 DEF CallInv, InOnePlace
<1>13. AnsweredOnce'
  <2>1. Responses' \subseteq Responses
    BY <1>2 DEF Responses
  <2>2. QED
    BY <1>4, <2>1 DEF CallInv, AnsweredOnce
<1>14. AwaitedByItsThread'
  <2>1. Awaiting' = Awaiting
    BY <1>2 DEF Awaiting
  <2>2. QED
    BY <1>2, <1>4, <2>1 DEF CallInv, AwaitedByItsThread
<1>15. QED
  BY <1>2, <1>7, <1>9, <1>10, <1>11, <1>12, <1>13, <1>14 DEF CallInv

LEMMA NextCallInv ==
  ASSUME MachineInv, CallInv, [Next]_vars
  PROVE  CallInv'
<1>1. ASSUME NEW m, Delivers(m) PROVE CallInv'
  BY <1>1, DeliversResponseInv, DeliversCallInv
<1>2. QED
  BY <1>1, StepKinds, QuietCallInv, SendsCallInv, StartsCallInv, ReturnsCallInv

-----------------------------------------------------------------------------
(* The steps of RemoteCalls.                                                 *)

Calls == SentOnBuses \cup SentAndQueued \cup Executed \cup Answered

LEMMA CallMembers ==
  /\ \A x : x \in SentOnBuses <=>
              \E m \in OnBuses : m.kind # "response" /\ \E n \in m.to : x = CallAt(m.id, n, "sent")
  /\ \A x : x \in SentAndQueued <=> \E n \in Nodes : \E m \in Queued(n) : x = CallAt(m.id, n, "sent")
  /\ \A x : x \in Executed <=> \E t \in Serving : x = CallAt(thr[t].serves.id, thr[t].cpu, "running")
  /\ \A x : x \in Answered <=> \E m \in Responses : x = CallAt(m.call, m.from, "answered")
  /\ \A x : x \in Awaited <=> \E t \in Awaiting : x = thr[t].awaits
<1>1. \A x : x \in SentOnBuses <=>
        \E m \in OnBuses : m.kind # "response" /\ \E n \in m.to : x = CallAt(m.id, n, "sent")
  BY DEF SentOnBuses
<1>2. \A x : x \in SentAndQueued <=> \E n \in Nodes : \E m \in Queued(n) : x = CallAt(m.id, n, "sent")
  BY DEF SentAndQueued
<1>3. \A x : x \in Executed <=> \E t \in Serving : x = CallAt(thr[t].serves.id, thr[t].cpu, "running")
  BY DEF Executed
<1>4. \A x : x \in Answered <=> \E m \in Responses : x = CallAt(m.call, m.from, "answered")
  BY DEF Answered, Responses
<1>5. \A x : x \in Awaited <=> \E t \in Awaiting : x = thr[t].awaits
  BY DEF Awaited, Awaiting
<1>6. QED
  BY <1>1, <1>2, <1>3, <1>4, <1>5

LEMMA CallsAt ==
  /\ \A i, n, s, j, l, r : CallAt(i, n, s) = CallAt(j, l, r) => i = j /\ n = l /\ s = r
  /\ \A i, n, s : /\ CallAt(i, n, s).id = i
                  /\ CallAt(i, n, s).node = n
                  /\ CallAt(i, n, s).stage = s
                  /\ Remote!CallAt(i, n, s) = CallAt(i, n, s)
BY DEF CallAt, Remote!CallAt

\* What the step of RemoteCalls is.
SendsCall(S, wait) ==
  /\ nextmesid' = nextmesid + 1
  /\ wait => \E n : S = {n}
  /\ Calls' = Calls \cup {CallAt(nextmesid + 1, n, "sent") : n \in S}
  /\ Awaited' = IF wait THEN Awaited \cup {nextmesid + 1} ELSE Awaited

StartsCall(i, n) ==
  /\ CallAt(i, n, "sent") \in Calls
  /\ Calls' = (Calls \ {CallAt(i, n, "sent")}) \cup {CallAt(i, n, "running")}
  /\ Awaited' = Awaited /\ nextmesid' = nextmesid

ReturnsCall(i, n) ==
  /\ CallAt(i, n, "running") \in Calls
  /\ \/ /\ i \in Awaited
        /\ Calls' = (Calls \ {CallAt(i, n, "running")}) \cup {CallAt(i, n, "answered")}
        /\ nextmesid' = nextmesid + 1
     \/ /\ i \notin Awaited
        /\ Calls' = Calls \ {CallAt(i, n, "running")}
        /\ nextmesid' = nextmesid
  /\ Awaited' = Awaited

ResumesCall(i, n) ==
  /\ CallAt(i, n, "answered") \in Calls
  /\ i \in Awaited
  /\ Calls' = Calls \ {CallAt(i, n, "answered")}
  /\ Awaited' = Awaited \ {i}
  /\ nextmesid' = nextmesid

LEMMA SameAwaited ==
  ASSUME Awaiting' = Awaiting, \A t \in Awaiting : thr'[t].awaits = thr[t].awaits
  PROVE  Awaited' = Awaited
<1>1. \A x : x \in Awaited' <=> \E t \in Awaiting' : x = thr'[t].awaits
  BY DEF Awaited, Awaiting
<1>2. ASSUME NEW x PROVE x \in Awaited' <=> x \in Awaited
  BY <1>1, CallMembers
<1>3. QED
  BY <1>2

LEMMA QuietStutters ==
  ASSUME MachineInv, CallInv, Quiet
  PROVE  UNCHANGED <<nextmesid, Awaited, Calls>>
<1>1. /\ OnBuses' = OnBuses
      /\ \A n \in Nodes : Queued(n)' = Queued(n)
      /\ Serving' = Serving
  BY QuietMessages DEF MachineInv
<1>2. \A t \in Serving : thr'[t].serves = thr[t].serves /\ thr'[t].cpu = thr[t].cpu
  BY DEF Quiet, Serving
<1>3. SentOnBuses' = SentOnBuses /\ Answered' = Answered
  BY <1>1 DEF SentOnBuses, Answered
<1>4. SentAndQueued' = SentAndQueued
  BY <1>1 DEF SentAndQueued
<1>5. Executed' = Executed
  BY <1>1, <1>2 DEF Executed
<1>6. Awaited' = Awaited
  BY QuietCallInv, SameAwaited
<1>7. nextmesid' = nextmesid
  BY DEF Quiet
<1>8. QED
  BY <1>3, <1>4, <1>5, <1>6, <1>7 DEF Calls

LEMMA SendsSendsCall ==
  ASSUME MachineInv, CallInv, NEW m, Sends(m)
  PROVE  SendsCall(m.to, m.thread # NoThread)
<1>1. TypeOK
  BY DEF MachineInv
<1>2. /\ m.id = nextmesid + 1 /\ nextmesid' = nextmesid + 1
      /\ m.kind # "response"
      /\ OnBuses' = IF m.to = {} THEN OnBuses ELSE OnBuses \cup {m}
      /\ m.thread # NoThread => \E n : m.to = {n}
  BY DEF Sends
<1>3. /\ \A n \in Nodes : Queued(n)' = Queued(n)
      /\ Serving' = Serving
  BY <1>1, SendsMessages
<1>4. \A t \in Serving : thr'[t].serves = thr[t].serves /\ thr'[t].cpu = thr[t].cpu
  BY DEF Sends, Serving
<1> DEFINE new == {CallAt(nextmesid + 1, n, "sent") : n \in m.to}
<1>5. SentOnBuses' = SentOnBuses \cup new
  <2>1. \A x : x \in SentOnBuses' <=>
          \E k \in OnBuses' : k.kind # "response" /\ \E n \in k.to : x = CallAt(k.id, n, "sent")
    BY DEF SentOnBuses
  <2>2. ASSUME NEW x PROVE x \in SentOnBuses' <=> x \in SentOnBuses \cup new
    <3>1. x \in new <=> \E n \in m.to : x = CallAt(m.id, n, "sent")
      BY <1>2
    <3>2. x \in SentOnBuses <=>
            \E k \in OnBuses : k.kind # "response" /\ \E n \in k.to : x = CallAt(k.id, n, "sent")
      BY CallMembers
    <3>3. CASE m.to = {}
      BY <1>2, <2>1, <3>1, <3>2, <3>3
    <3>4. CASE m.to # {}
      BY <1>2, <2>1, <3>1, <3>2, <3>4
    <3>5. QED
      BY <3>3, <3>4
  <2>3. QED
    BY <2>2
<1>6. SentAndQueued' = SentAndQueued
  BY <1>3 DEF SentAndQueued
<1>7. Executed' = Executed
  BY <1>3, <1>4 DEF Executed
<1>8. Answered' = Answered
  <2>1. Responses' = Responses
    BY <1>2 DEF Responses
  <2>2. QED
    BY <2>1 DEF Answered, Responses
<1>9. Awaited' = IF m.thread # NoThread THEN Awaited \cup {nextmesid + 1} ELSE Awaited
  <2>1. CASE m.thread = NoThread
    BY <1>1, <2>1, SendsAwaiting, SameAwaited
  <2>2. CASE m.thread # NoThread
    <3>1. \A x : x \in Awaited' <=> \E t \in Awaiting' : x = thr'[t].awaits
      BY DEF Awaited, Awaiting
    <3>2. /\ Awaiting' = Awaiting \cup {m.thread}
          /\ thr'[m.thread].awaits = nextmesid + 1
          /\ \A t \in Awaiting : thr'[t].awaits = thr[t].awaits
      BY <1>1, <1>2, <2>2, SendsAwaiting
    <3>3. ASSUME NEW x PROVE x \in Awaited' <=> x \in Awaited \cup {nextmesid + 1}
      BY <3>1, <3>2, CallMembers
    <3>4. QED
      BY <2>2, <3>3
  <2>3. QED
    BY <2>1, <2>2
<1> HIDE DEF new
<1>10. Calls' = Calls \cup new
  BY <1>5, <1>6, <1>7, <1>8 DEF Calls
<1>11. QED
  BY <1>2, <1>9, <1>10 DEF SendsCall, new

LEMMA StartsStartsCall ==
  ASSUME MachineInv, CallInv, NEW c, NEW op, NEW m, NEW t, Starts(c, op, m, t)
  PROVE  StartsCall(m.id, c)
<1>1. TypeOK
  BY DEF MachineInv
<1>2. /\ OnBuses' = OnBuses
      /\ m \in Queued(c)
      /\ Queued(c) = Queued(c)' \cup {m}
      /\ \A n \in Nodes : n # c => Queued(n)' = Queued(n)
      /\ Serving' = Serving \cup {t} /\ t \notin Serving
  BY <1>1, StartsMessages
<1>3. /\ c \in Nodes /\ nextmesid' = nextmesid
      /\ thr'[t].serves = m /\ thr'[t].cpu = c
      /\ \A u \in ThreadIds \ {t} : thr'[u] = thr[u]
  BY DEF Starts
<1>4. \A u \in Serving : thr'[u] = thr[u]
  BY <1>2, <1>3, ServedBy
<1>5. m \notin Queued(c)'
  BY <1>1, StartsQueues DEF CallInv
<1>6. \A k \in AllMessages : k.id = m.id => k = m
  BY <1>2, <1>3 DEF CallInv, MessagesDiffer, AllMessages
<1> DEFINE sent == CallAt(m.id, c, "sent")
           running == CallAt(m.id, c, "running")
<1>7. SentOnBuses' = SentOnBuses /\ sent \notin SentOnBuses
  <2>1. SentOnBuses' = SentOnBuses
    BY <1>2 DEF SentOnBuses
  <2>2. \A k \in OnBuses : k.id # m.id
    BY <1>2, <1>3, <1>6 DEF CallInv, InOnePlace, AllMessages
  <2>3. QED
    BY <2>1, <2>2, CallMembers, CallsAt
<1>8. SentAndQueued' = SentAndQueued \ {sent} /\ sent \in SentAndQueued
  <2>1. \A x : x \in SentAndQueued' <=>
               \E n \in Nodes : \E k \in Queued(n)' : x = CallAt(k.id, n, "sent")
    BY DEF SentAndQueued
  <2>2. \A k \in Queued(c)' : k.id # m.id
    BY <1>2, <1>3, <1>5, <1>6 DEF AllMessages
  <2>3. \A n \in Nodes : Queued(n)' \subseteq Queued(n)
    BY <1>2
  <2>4. ASSUME NEW x PROVE x \in SentAndQueued' <=> x \in SentAndQueued \ {sent}
    <3>1. ASSUME x \in SentAndQueued' PROVE x \in SentAndQueued /\ x # sent
      BY <2>1, <2>2, <2>3, <3>1, CallMembers, CallsAt
    <3>2. ASSUME x \in SentAndQueued, x # sent PROVE x \in SentAndQueued'
      <4>1. PICK n \in Nodes : \E k \in Queued(n) : x = CallAt(k.id, n, "sent")
        BY <3>2, CallMembers
      <4>2. PICK k \in Queued(n) : x = CallAt(k.id, n, "sent")
        BY <4>1
      <4>3. k \in Queued(n)'
        BY <1>2, <3>2, <4>2
      <4>4. QED
        BY <2>1, <4>2, <4>3
    <3>3. QED
      BY <3>1, <3>2
  <2>5. sent \in SentAndQueued
    BY <1>2, <1>3, CallMembers
  <2>6. QED
    BY <2>4, <2>5
<1>9. Executed' = Executed \cup {running}
  <2>1. \A x : x \in Executed' <=> \E u \in Serving' : x = CallAt(thr'[u].serves.id, thr'[u].cpu, "running")
    BY DEF Executed
  <2>2. ASSUME NEW x PROVE x \in Executed' <=> x \in Executed \cup {running}
    BY <1>2, <1>3, <1>4, <2>1, CallMembers
  <2>3. QED
    BY <2>2
<1>10. Answered' = Answered
  BY <1>2 DEF Answered
<1>11. Awaited' = Awaited
  BY StartsCallInv, SameAwaited
<1>12. sent \notin Executed /\ sent \notin Answered
  BY CallMembers, CallsAt
<1> HIDE DEF sent, running
<1>13. Calls' = (Calls \ {sent}) \cup {running} /\ sent \in Calls
  BY <1>7, <1>8, <1>9, <1>10, <1>12 DEF Calls
<1>14. QED
  BY <1>3, <1>11, <1>13 DEF StartsCall, sent, running

LEMMA ReturnsReturnsCall ==
  ASSUME MachineInv, CallInv, NEW t, NEW m, Returns(t, m)
  PROVE  ReturnsCall(m.id, thr[t].cpu)
<1>1. TypeOK
  BY DEF MachineInv
<1>2. /\ \A n \in Nodes : Queued(n)' = Queued(n)
      /\ t \in Serving /\ m \in Served /\ Serving' = Serving \ {t}
      /\ \A u \in Serving' : thr'[u] = thr[u]
  BY <1>1, ReturnsMessages
<1>3. m = thr[t].serves /\ m \in AllMessages
  BY <1>2 DEF Returns, AllMessages
<1>4. \A k \in AllMessages : k.id = m.id => k = m
  BY <1>3 DEF CallInv, MessagesDiffer
<1> DEFINE c == thr[t].cpu
           running == CallAt(m.id, c, "running")
           answered == CallAt(m.id, c, "answered")
<1>5. SentAndQueued' = SentAndQueued
  BY <1>2 DEF SentAndQueued
<1>6. Executed' = Executed \ {running} /\ running \in Executed
  <2>1. \A x : x \in Executed' <=> \E u \in Serving' : x = CallAt(thr'[u].serves.id, thr'[u].cpu, "running")
    BY DEF Executed
  <2>2. \A u \in Serving' : thr[u].serves.id = m.id => thr[u].cpu # c
    <3>1. \A u \in Serving' : u \in Serving /\ u # t /\ thr[u].serves \in AllMessages
      BY <1>2, ServedBy DEF AllMessages
    <3>2. QED
      BY <1>2, <1>3, <1>4, <3>1 DEF CallInv, InOnePlace
  <2>3. ASSUME NEW x PROVE x \in Executed' <=> x \in Executed \ {running}
    <3>1. ASSUME x \in Executed' PROVE x \in Executed /\ x # running
      BY <1>2, <2>1, <2>2, <3>1, CallMembers, CallsAt
    <3>2. ASSUME x \in Executed, x # running PROVE x \in Executed'
      BY <1>2, <1>3, <2>1, <3>2, CallMembers
    <3>3. QED
      BY <3>1, <3>2
  <2>4. running \in Executed
    BY <1>2, <1>3, CallMembers
  <2>5. QED
    BY <2>3, <2>4
<1>7. Awaited' = Awaited
  BY ReturnsCallInv, SameAwaited
<1>8. running \notin SentOnBuses /\ running \notin SentAndQueued /\ running \notin Answered
  BY CallMembers, CallsAt
<1>9. CASE m.thread = NoThread /\ UNCHANGED <<mes, nextmesid>>
  <2>1. SentOnBuses' = SentOnBuses /\ Answered' = Answered /\ nextmesid' = nextmesid
    BY <1>9 DEF SentOnBuses, Answered, OnBuses
  <2>2. m.id \notin Awaited
    BY <1>3, <1>9, CallMembers DEF CallInv, AwaitedByItsThread
  <2> HIDE DEF running
  <2>3. Calls' = Calls \ {running} /\ running \in Calls
    BY <1>5, <1>6, <1>8, <2>1 DEF Calls
  <2>4. QED
    BY <1>7, <2>1, <2>2, <2>3 DEF ReturnsCall, running
<1>10. ASSUME m.thread # NoThread, nextmesid' = nextmesid + 1, NEW r \in Messages,
              r.id = nextmesid + 1, r.kind = "response", r.call = m.call,
              r.from = thr[t].cpu, r.thread = m.thread, OnBuses' = OnBuses \cup {r}
       PROVE  ReturnsCall(m.id, thr[t].cpu)
  <2>1. m.call = m.id
    BY <1>10, ReturnsLast
  <2>2. SentOnBuses' = SentOnBuses
    <3>1. \A x : x \in SentOnBuses' <=>
            \E k \in OnBuses' : k.kind # "response" /\ \E n \in k.to : x = CallAt(k.id, n, "sent")
      BY DEF SentOnBuses
    <3>2. ASSUME NEW x PROVE x \in SentOnBuses' <=> x \in SentOnBuses
      BY <1>10, <3>1, CallMembers
    <3>3. QED
      BY <3>2
  <2>3. Answered' = Answered \cup {answered}
    <3>1. Responses' = Responses \cup {r}
      BY <1>10 DEF Responses
    <3>2. \A x : x \in Answered' <=> \E k \in Responses' : x = CallAt(k.call, k.from, "answered")
      BY DEF Answered, Responses
    <3>3. ASSUME NEW x PROVE x \in Answered' <=> x \in Answered \cup {answered}
      BY <1>10, <2>1, <3>1, <3>2, CallMembers
    <3>4. QED
      BY <3>3
  <2>4. m.id \in Awaited
    <3>1. m.thread \in Awaiting /\ thr[m.thread].awaits = m.id
      BY <1>3, <1>10, <2>1 DEF CallInv, AwaitedByItsThread
    <3>2. QED
      BY <3>1, CallMembers
  <2> HIDE DEF running, answered
  <2>5. Calls' = (Calls \ {running}) \cup {answered} /\ running \in Calls
    BY <1>5, <1>6, <1>8, <2>2, <2>3 DEF Calls
  <2>6. QED
    BY <1>7, <1>10, <2>4, <2>5 DEF ReturnsCall, running, answered
<1>11. QED
  BY <1>9, <1>10 DEF Returns

LEMMA DeliversResponseResumes ==
  ASSUME MachineInv, CallInv, NEW m, Delivers(m), m.kind = "response"
  PROVE  ResumesCall(m.call, m.from)
<1>1. TypeOK
  BY DEF MachineInv
<1>2. /\ m \in OnBuses /\ OnBuses' = OnBuses \ {m} /\ nextmesid' = nextmesid
      /\ queue' = queue
      /\ \A t \in ThreadIds : thr'[t].serves = thr[t].serves /\ thr'[t].cpu = thr[t].cpu
  BY DEF Delivers
<1>3. Serving' = Serving
  BY <1>1, DeliversMessages
<1>4. \A n \in Nodes : Queued(n)' = Queued(n)
  BY <1>2 DEF Queued
<1> DEFINE answered == CallAt(m.call, m.from, "answered")
<1>5. m \in Responses /\ Responses' = Responses \ {m}
  BY <1>2 DEF Responses
<1>6. SentOnBuses' = SentOnBuses
  <2>1. \A x : x \in SentOnBuses' <=>
          \E k \in OnBuses' : k.kind # "response" /\ \E n \in k.to : x = CallAt(k.id, n, "sent")
    BY DEF SentOnBuses
  <2>2. \A k : k \in OnBuses' /\ k.kind # "response" <=> k \in OnBuses /\ k.kind # "response"
    BY <1>2
  <2>3. ASSUME NEW x PROVE x \in SentOnBuses' <=> x \in SentOnBuses
    BY <2>1, <2>2, CallMembers
  <2>4. QED
    BY <2>3
<1>7. SentAndQueued' = SentAndQueued
  BY <1>4 DEF SentAndQueued
<1>8. Executed' = Executed
  <2>1. \A t \in Serving : thr'[t].serves = thr[t].serves /\ thr'[t].cpu = thr[t].cpu
    BY <1>2, ServedBy
  <2>2. QED
    BY <1>3, <2>1 DEF Executed
<1>9. Answered' = Answered \ {answered} /\ answered \in Answered
  <2>1. \A x : x \in Answered' <=> \E k \in Responses' : x = CallAt(k.call, k.from, "answered")
    BY DEF Answered, Responses
  <2>2. \A k \in Responses' : k.call # m.call
    BY <1>5 DEF CallInv, AnsweredOnce
  <2>3. ASSUME NEW x PROVE x \in Answered' <=> x \in Answered \ {answered}
    <3>1. ASSUME x \in Answered' PROVE x \in Answered /\ x # answered
      BY <1>5, <2>1, <2>2, <3>1, CallMembers, CallsAt
    <3>2. ASSUME x \in Answered, x # answered PROVE x \in Answered'
      BY <1>5, <2>1, <3>2, CallMembers
    <3>3. QED
      BY <3>1, <3>2
  <2>4. answered \in Answered
    BY <1>5, CallMembers
  <2>5. QED
    BY <2>3, <2>4
<1>10. m.call \in Awaited /\ Awaited' = Awaited \ {m.call}
  <2>1. /\ m.thread \in Awaiting /\ thr[m.thread].awaits = m.call
        /\ Awaiting' = Awaiting \ {m.thread}
        /\ \A t \in Awaiting' : thr'[t] = thr[t]
    BY DeliversResponseInv
  <2>2. \A t \in Awaiting' : thr[t].awaits # m.call
    BY <2>1 DEF CallInv, AwaitedByItsThread
  <2>3. \A x : x \in Awaited' <=> \E t \in Awaiting' : x = thr'[t].awaits
    BY DEF Awaited, Awaiting
  <2>4. ASSUME NEW x PROVE x \in Awaited' <=> x \in Awaited \ {m.call}
    <3>1. ASSUME x \in Awaited' PROVE x \in Awaited /\ x # m.call
      BY <2>1, <2>2, <2>3, <3>1, CallMembers
    <3>2. ASSUME x \in Awaited, x # m.call PROVE x \in Awaited'
      BY <2>1, <2>3, <3>2, CallMembers
    <3>3. QED
      BY <3>1, <3>2
  <2>5. QED
    BY <2>1, <2>4, CallMembers
<1>11. answered \notin SentOnBuses /\ answered \notin SentAndQueued /\ answered \notin Executed
  BY CallMembers, CallsAt
<1> HIDE DEF answered
<1>12. Calls' = Calls \ {answered} /\ answered \in Calls
  BY <1>6, <1>7, <1>8, <1>9, <1>11 DEF Calls
<1>13. QED
  BY <1>2, <1>10, <1>12 DEF ResumesCall, answered

LEMMA DeliversCallStutters ==
  ASSUME MachineInv, CallInv, NEW m, Delivers(m), m.kind # "response"
  PROVE  UNCHANGED <<nextmesid, Awaited, Calls>>
<1>1. /\ m \in OnBuses /\ OnBuses' = OnBuses \ {m} /\ nextmesid' = nextmesid /\ thr' = thr
      /\ m \in Messages
  BY DEF Delivers
<1>2. \A n \in Nodes : Queued(n)' = IF n \in m.to THEN Queued(n) \cup {m} ELSE Queued(n)
  BY DeliversCallInv
<1>3. Executed' = Executed /\ Awaited' = Awaited
  BY <1>1 DEF Executed, Serving, Awaited
<1>4. Answered' = Answered
  <2>1. Responses' = Responses
    BY <1>1 DEF Responses
  <2>2. QED
    BY <2>1 DEF Answered, Responses
<1>5. \A n \in m.to : n \in Nodes
  BY <1>1 DEF Messages
<1> DEFINE moved == {CallAt(m.id, n, "sent") : n \in m.to}
<1>6. SentOnBuses = SentOnBuses' \cup moved
  <2>1. \A x : x \in SentOnBuses' <=>
          \E k \in OnBuses' : k.kind # "response" /\ \E n \in k.to : x = CallAt(k.id, n, "sent")
    BY DEF SentOnBuses
  <2>2. \A x : x \in moved <=> \E n \in m.to : x = CallAt(m.id, n, "sent")
    OBVIOUS
  <2> HIDE DEF moved
  <2>3. ASSUME NEW x PROVE x \in SentOnBuses <=> x \in SentOnBuses' \cup moved
    BY <1>1, <2>1, <2>2, CallMembers
  <2>4. QED
    BY <2>3
<1>7. SentAndQueued' = SentAndQueued \cup moved
  <2>1. \A x : x \in SentAndQueued' <=>
               \E n \in Nodes : \E k \in Queued(n)' : x = CallAt(k.id, n, "sent")
    BY DEF SentAndQueued
  <2>2. \A x : x \in moved <=> \E n \in m.to : x = CallAt(m.id, n, "sent")
    OBVIOUS
  <2> HIDE DEF moved
  <2>3. ASSUME NEW x PROVE x \in SentAndQueued' <=> x \in SentAndQueued \cup moved
    <3>1. ASSUME x \in SentAndQueued' PROVE x \in SentAndQueued \cup moved
      BY <1>2, <2>1, <2>2, <3>1, CallMembers
    <3>2. ASSUME x \in SentAndQueued PROVE x \in SentAndQueued'
      BY <1>2, <2>1, <3>2, CallMembers
    <3>3. ASSUME x \in moved PROVE x \in SentAndQueued'
      BY <1>2, <1>5, <2>1, <2>2, <3>3
    <3>4. QED
      BY <3>1, <3>2, <3>3
  <2>4. QED
    BY <2>3
<1> HIDE DEF moved
<1>8. Calls' = Calls
  BY <1>3, <1>4, <1>6, <1>7 DEF Calls
<1>9. QED
  BY <1>1, <1>3, <1>8

-----------------------------------------------------------------------------
(* The refinement.                                                           *)

LEMMA RemoteCallStep ==
  ASSUME NEW S \in SUBSET Nodes, NEW wait \in BOOLEAN, SendsCall(S, wait)
  PROVE  Remote!Next
<1>1. wait => \E n \in Nodes : S = {n}
  BY DEF SendsCall
<1>2. {CallAt(nextmesid + 1, n, "sent") : n \in S} = {Remote!CallAt(nextmesid', n, "sent") : n \in S}
  BY CallsAt DEF SendsCall
<1>3. Calls' = Calls \cup {Remote!CallAt(nextmesid', n, "sent") : n \in S}
  BY <1>2 DEF SendsCall
<1>4. nextmesid' = nextmesid + 1 /\ Awaited' = IF wait THEN Awaited \cup {nextmesid'} ELSE Awaited
  BY DEF SendsCall
<1>5. Remote!Call(S, wait)
  BY <1>1, <1>3, <1>4 DEF Remote!Call, Calls
<1>6. QED
  BY <1>5 DEF Remote!Next

LEMMA RemoteStartStep ==
  ASSUME NEW i, NEW n, StartsCall(i, n)
  PROVE  Remote!Next
<1> DEFINE c == CallAt(i, n, "sent")
<1>1. c.stage = "sent" /\ Remote!CallAt(c.id, c.node, "running") = CallAt(i, n, "running")
  BY CallsAt
<1>2. c \in Calls /\ Calls' = (Calls \ {c}) \cup {CallAt(i, n, "running")}
      /\ Awaited' = Awaited /\ nextmesid' = nextmesid
  BY DEF StartsCall
<1> HIDE DEF c
<1>3. c \in Calls /\ Remote!Start(c)
  BY <1>1, <1>2 DEF Remote!Start, Calls
<1>4. QED
  BY <1>3 DEF Remote!Next, Calls

LEMMA RemoteReturnStep ==
  ASSUME NEW i, NEW n, ReturnsCall(i, n)
  PROVE  Remote!Next
<1> DEFINE c == CallAt(i, n, "running")
<1>1. c.stage = "running" /\ c.id = i /\ Remote!CallAt(c.id, c.node, "answered") = CallAt(i, n, "answered")
  BY CallsAt
<1>2. /\ c \in Calls
      /\ \/ /\ i \in Awaited
            /\ Calls' = (Calls \ {c}) \cup {CallAt(i, n, "answered")}
            /\ nextmesid' = nextmesid + 1
         \/ /\ i \notin Awaited
            /\ Calls' = Calls \ {c}
            /\ nextmesid' = nextmesid
      /\ Awaited' = Awaited
  BY DEF ReturnsCall
<1> HIDE DEF c
<1>3. c \in Calls /\ Remote!Return(c)
  BY <1>1, <1>2 DEF Remote!Return, Calls
<1>4. QED
  BY <1>3 DEF Remote!Next, Calls

LEMMA RemoteResumeStep ==
  ASSUME NEW i, NEW n, ResumesCall(i, n)
  PROVE  Remote!Next
<1> DEFINE c == CallAt(i, n, "answered")
<1>1. c.stage = "answered" /\ c.id = i
  BY CallsAt
<1>2. /\ c \in Calls /\ i \in Awaited /\ Calls' = Calls \ {c}
      /\ Awaited' = Awaited \ {i} /\ nextmesid' = nextmesid
  BY DEF ResumesCall
<1> HIDE DEF c
<1>3. c \in Calls /\ Remote!Resume(c)
  BY <1>1, <1>2 DEF Remote!Resume, Calls
<1>4. QED
  BY <1>3 DEF Remote!Next, Calls

LEMMA InitRemote == Init => Remote!Init
<1> SUFFICES ASSUME Init PROVE Remote!Init
  OBVIOUS
<1>1. OnBuses = {}
  BY DEF Init, OnBuses
<1>2. \A n \in Nodes : Queued(n) = {}
  BY DEF Init, Queued
<1>3. Serving = {} /\ Awaiting = {}
  BY DEF Init, Serving, Awaiting, NewThread
<1>4. Responses = {}
  BY <1>1 DEF Responses
<1>5. ASSUME NEW x PROVE x \notin Calls /\ x \notin Awaited
  BY <1>1, <1>2, <1>3, <1>4, CallMembers DEF Calls
<1>6. Calls = {} /\ Awaited = {}
  BY <1>5
<1>7. nextmesid = 0
  BY DEF Init
<1>8. QED
  BY <1>6, <1>7 DEF Remote!Init, Calls

LEMMA RemoteSteps ==
  ASSUME MachineInv, CallInv, [Next]_vars
  PROVE  [Remote!Next]_Remote!vars
<1>1. ASSUME UNCHANGED <<nextmesid, Awaited, Calls>> PROVE UNCHANGED Remote!vars
  BY <1>1 DEF Remote!vars, Calls
<1>2. CASE Quiet
  BY <1>1, <1>2, QuietStutters
<1>3. ASSUME NEW m, Sends(m) PROVE Remote!Next
  <2>1. m.to \in SUBSET Nodes
    BY <1>3 DEF Sends, Messages
  <2>2. SendsCall(m.to, m.thread # NoThread)
    BY <1>3, SendsSendsCall
  <2>3. QED
    BY <2>1, <2>2, RemoteCallStep
<1>4. ASSUME NEW c, NEW op, NEW m, NEW t, Starts(c, op, m, t) PROVE Remote!Next
  BY <1>4, StartsStartsCall, RemoteStartStep
<1>5. ASSUME NEW t, NEW m, Returns(t, m) PROVE Remote!Next
  BY <1>5, ReturnsReturnsCall, RemoteReturnStep
<1>6. ASSUME NEW m, Delivers(m) PROVE [Remote!Next]_Remote!vars
  <2>1. CASE m.kind = "response"
    BY <1>6, <2>1, DeliversResponseResumes, RemoteResumeStep
  <2>2. CASE m.kind # "response"
    BY <1>1, <1>6, <2>2, DeliversCallStutters
  <2>3. QED
    BY <2>1, <2>2
<1>7. QED
  BY <1>2, <1>3, <1>4, <1>5, <1>6, StepKinds

\* The CPUs and buses implement RemoteCalls: an operation of an object on another
\* node is executed once on each node it was called on (AddMessageToBUS, ProcessBUS,
\* RunMessage), a synchronous one is answered once, when it was executed, and the
\* answer resumes the thread that awaits it (AddReturnMessageToBUS).
THEOREM CallsAreServed == Spec => CallsAreServedOnce
<1>1. Init => CallInv
  BY InitCallInv
<1>2. MachineInv /\ CallInv /\ [Next]_vars => CallInv'
  BY NextCallInv
<1>3. MachineInv /\ CallInv /\ [Next]_vars => [Remote!Next]_Remote!vars
  BY RemoteSteps
<1>4. QED
  BY <1>1, <1>2, <1>3, InitRemote, MachineIsSound, PTL DEF Spec, CallsAreServedOnce, Remote!Spec
=============================================================================
