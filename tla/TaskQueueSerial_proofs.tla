------------------------- MODULE TaskQueueSerial_proofs -------------------------
(***************************************************************************)
(* SerialInv is an invariant of TaskQueue whenever its callers are         *)
(* serialised, for every number of tasks, every window and every bound;    *)
(* and the queue then implements TaskDelivery.                             *)
(***************************************************************************)
EXTENDS TaskQueue_proofs

-----------------------------------------------------------------------------
(* Facts about the queue.                                                  *)

\* The indices of a sequence, in the form the SMT backend handles best.
LEMMA QueueDomain ==
  ASSUME NEW S, NEW q \in Seq(S)
  PROVE  /\ Len(q) \in Nat
         /\ DOMAIN q = 1 .. Len(q)
         /\ q = <<>> <=> Len(q) = 0
         /\ \A i \in 1 .. Len(q) : q[i] \in S
OBVIOUS

\* Two elements of the queue are equal when their fields are.
LEMMA NodeEqual ==
  ASSUME NEW m \in Node, NEW n \in Node, m.tag = n.tag, m.use = n.use
  PROVE  m = n
BY DEF Node

\* A new element goes to the end and keeps the queue linked.
LEMMA Enqueue ==
  ASSUME TypeOK, QueueLinked, NEW n \in Node, QueueTaskNow(n),
         n.use = use[n.tag] + 1,
         use' \in [Tags -> Nat],
         use'[n.tag] = n.use,
         \A u \in Tags : u # n.tag => use'[u] = use[u]
  PROVE  /\ QueueLinked'
         /\ taskQueue' \in Seq(Node)
         /\ Len(taskQueue') = Len(taskQueue) + 1
         /\ \A i \in 1 .. Len(taskQueue) : taskQueue'[i] = taskQueue[i]
         /\ taskQueue'[Len(taskQueue) + 1] = n
         /\ newTask' <=> newTask \/ taskQueue = <<>>
<1>1. /\ taskQueue \in Seq(Node)
      /\ Len(taskQueue) \in Nat
      /\ DOMAIN taskQueue = 1 .. Len(taskQueue)
      /\ \A i \in 1 .. Len(taskQueue) : taskQueue[i] \in Node
  BY QueueDomain DEF TypeOK
<1>2. taskQueue' = Append(taskQueue, n) /\ tail' = n
  BY LinkedAppends DEF QueueTaskNow, QueueLinked, TypeOK
<1>3. /\ taskQueue' \in Seq(Node)
      /\ Len(taskQueue') = Len(taskQueue) + 1
      /\ \A i \in 1 .. Len(taskQueue) : taskQueue'[i] = taskQueue[i]
      /\ taskQueue'[Len(taskQueue) + 1] = n
      /\ DOMAIN taskQueue' = 1 .. Len(taskQueue) + 1
  BY <1>1, <1>2
<1>4. \A i \in 1 .. Len(taskQueue) : taskQueue[i].use <= use[taskQueue[i].tag]
  BY <1>1 DEF QueueLinked
<1>5. \A i \in 1 .. Len(taskQueue) : taskQueue[i] # n
  <2> SUFFICES ASSUME NEW i \in 1 .. Len(taskQueue), taskQueue[i] = n
               PROVE  FALSE
    OBVIOUS
  <2>1. n.use <= use[n.tag]
    BY <1>4
  <2> QED
    BY <2>1 DEF TypeOK, Node
<1>6. \A i \in DOMAIN taskQueue' : taskQueue'[i].use <= use'[taskQueue'[i].tag]
  <2> SUFFICES ASSUME NEW i \in 1 .. Len(taskQueue) + 1
               PROVE  taskQueue'[i].use <= use'[taskQueue'[i].tag]
    BY <1>3
  <2>1. CASE i \in 1 .. Len(taskQueue)
    <3>1. taskQueue[i] \in Node /\ taskQueue[i].use <= use[taskQueue[i].tag]
      BY <1>1, <1>4, <2>1
    <3>2. \A u \in Tags : use[u] \in Nat /\ use'[u] \in Nat /\ use[u] <= use'[u]
      <4> SUFFICES ASSUME NEW u \in Tags
                   PROVE  use[u] \in Nat /\ use'[u] \in Nat /\ use[u] <= use'[u]
        OBVIOUS
      <4>1. use[u] \in Nat /\ use'[u] \in Nat
        BY DEF TypeOK
      <4>2. use'[u] = use[u] \/ use'[u] = use[u] + 1
        OBVIOUS
      <4> QED
        BY <4>1, <4>2
    <3>3. taskQueue[i].tag \in Tags /\ taskQueue[i].use \in Nat
      BY <3>1 DEF Node
    <3>4. use[taskQueue[i].tag] \in Nat /\ use'[taskQueue[i].tag] \in Nat
      BY <3>2, <3>3
    <3>5. use[taskQueue[i].tag] <= use'[taskQueue[i].tag]
      BY <3>2, <3>3
    <3>6. taskQueue[i].use <= use'[taskQueue[i].tag]
      BY <3>1, <3>3, <3>4, <3>5
    <3> QED
      BY <1>3, <2>1, <3>6
  <2>2. CASE i = Len(taskQueue) + 1
    BY <1>3, <2>2 DEF Node
  <2> QED
    BY <1>1, <2>1, <2>2
<1>7. \A i, j \in DOMAIN taskQueue' : i # j => taskQueue'[i] # taskQueue'[j]
  <2> SUFFICES ASSUME NEW i \in 1 .. Len(taskQueue) + 1,
                      NEW j \in 1 .. Len(taskQueue) + 1,
                      i # j
               PROVE  taskQueue'[i] # taskQueue'[j]
    BY <1>3
  <2>1. CASE i \in 1 .. Len(taskQueue) /\ j \in 1 .. Len(taskQueue)
    BY <1>1, <1>3, <2>1 DEF QueueLinked
  <2>2. CASE i \in 1 .. Len(taskQueue) /\ j = Len(taskQueue) + 1
    BY <1>3, <1>5, <2>2
  <2>3. CASE i = Len(taskQueue) + 1 /\ j \in 1 .. Len(taskQueue)
    BY <1>3, <1>5, <2>3
  <2> QED
    BY <1>1, <2>1, <2>2, <2>3
<1>8. taskQueue' # <<>> /\ tail' = taskQueue'[Len(taskQueue')]
  BY <1>1, <1>2, <1>3
<1>9. newTask' <=> newTask \/ taskQueue = <<>>
  BY DEF QueueTaskNow, TypeOK
<1> QED
  BY <1>3, <1>6, <1>7, <1>8, <1>9 DEF QueueLinked

\* Removing the first element keeps the queue linked.
LEMMA Dequeue ==
  ASSUME TypeOK, QueueLinked, taskQueue # <<>>, RemoveFirst, UNCHANGED use
  PROVE  /\ QueueLinked'
         /\ taskQueue' \in Seq(Node)
         /\ Len(taskQueue') = Len(taskQueue) - 1
         /\ \A i \in 1 .. Len(taskQueue) - 1 : taskQueue'[i] = taskQueue[i + 1]
<1>1. /\ taskQueue \in Seq(Node)
      /\ Len(taskQueue) \in Nat \ {0}
      /\ DOMAIN taskQueue = 1 .. Len(taskQueue)
  BY QueueDomain DEF TypeOK
<1>2. /\ taskQueue' \in Seq(Node)
      /\ Len(taskQueue') = Len(taskQueue) - 1
      /\ DOMAIN taskQueue' = 1 .. Len(taskQueue) - 1
      /\ \A i \in 1 .. Len(taskQueue) - 1 : taskQueue'[i] = taskQueue[i + 1]
  BY <1>1 DEF RemoveFirst
<1>3. \A i \in 1 .. Len(taskQueue) - 1 : i + 1 \in 1 .. Len(taskQueue)
  BY <1>1
<1>4. \A i \in DOMAIN taskQueue' : taskQueue'[i].use <= use'[taskQueue'[i].tag]
  <2> SUFFICES ASSUME NEW i \in 1 .. Len(taskQueue) - 1
               PROVE  taskQueue[i + 1].use <= use[taskQueue[i + 1].tag]
    BY <1>2
  <2> QED
    BY <1>1, <1>3 DEF QueueLinked
<1>5. \A i, j \in DOMAIN taskQueue' : i # j => taskQueue'[i] # taskQueue'[j]
  <2> SUFFICES ASSUME NEW i \in 1 .. Len(taskQueue) - 1,
                      NEW j \in 1 .. Len(taskQueue) - 1,
                      i # j
               PROVE  taskQueue[i + 1] # taskQueue[j + 1]
    BY <1>2
  <2>1. i + 1 # j + 1
    OBVIOUS
  <2> QED
    BY <1>1, <1>3, <2>1 DEF QueueLinked
<1>6. CASE Len(taskQueue) = 1
  <2>1. taskQueue' = <<>> /\ tail' = QHead
    BY <1>2, <1>6 DEF RemoveFirst
  <2> QED
    BY <1>2, <1>4, <1>5, <2>1 DEF QueueLinked
<1>7. CASE Len(taskQueue) # 1
  <2>1. taskQueue' # <<>> /\ Len(taskQueue) - 1 \in 1 .. Len(taskQueue) - 1
    BY <1>1, <1>2, <1>7
  <2>2. tail' = taskQueue'[Len(taskQueue')]
    BY <1>1, <1>2, <1>7, <2>1 DEF RemoveFirst, QueueLinked
  <2> QED
    BY <1>2, <1>4, <1>5, <2>1, <2>2 DEF QueueLinked
<1> QED
  BY <1>6, <1>7

\* No other element has the tag of a live head.
LEMMA LiveHeadIsAlone ==
  ASSUME TypeOK, QueueLinked, QueueLive, taskQueue # <<>>,
         taskQueue[1].tag \in Tasks, Live(taskQueue[1])
  PROVE  \A i \in 2 .. Len(taskQueue) : taskQueue[i].tag # taskQueue[1].tag
<1> SUFFICES ASSUME NEW i \in 2 .. Len(taskQueue),
                    taskQueue[i].tag = taskQueue[1].tag
             PROVE  FALSE
  OBVIOUS
<1>1. /\ Len(taskQueue) \in Nat
      /\ DOMAIN taskQueue = 1 .. Len(taskQueue)
      /\ 1 \in DOMAIN taskQueue
      /\ i \in DOMAIN taskQueue
      /\ taskQueue[1] \in Node /\ taskQueue[i] \in Node
  BY QueueDomain DEF TypeOK
<1>2. Live(taskQueue[i])
  BY <1>1 DEF QueueLive
<1>3. taskQueue[i].use = taskQueue[1].use
  BY <1>2 DEF Live
<1> QED
  BY <1>1, <1>3, NodeEqual DEF QueueLinked

\* The measurement that a transfer may lead to, as the queue sees it.
LEMMA MeasureTransferEffect ==
  ASSUME TypeOK, QueueLinked, NEW t \in Tasks, MeasureTransfer(t)
  PROVE  /\ QueueLinked'
         /\ taskQueue' \in Seq(Node)
         /\ Len(taskQueue) <= Len(taskQueue')
         /\ \A i \in 1 .. Len(taskQueue) : taskQueue'[i] = taskQueue[i]
         /\ \A i \in 1 .. Len(taskQueue') :
              i \in 1 .. Len(taskQueue) \/ taskQueue'[i].tag = Latency
         /\ newTask' <=> newTask \/ (taskQueue = <<>> /\ taskQueue' # <<>>)
         /\ \A u \in Tasks : use'[u] = use[u]
<1>0. /\ taskQueue \in Seq(Node)
      /\ Len(taskQueue) \in Nat
      /\ newTask \in BOOLEAN
  BY QueueDomain DEF TypeOK
<1>2. CASE t \in DataTasks /\ historyIdx' = 0
  <2> DEFINE n == [tag |-> Latency, use |-> use[Latency] + 1]
  <2>1. n \in Node /\ n.use = use[n.tag] + 1
    BY DEF TypeOK, Node, Tags
  <2>2. QueueTaskNow(n) /\ use' = [use EXCEPT ![Latency] = @ + 1]
    BY <1>2 DEF MeasureTransfer
  <2>3. /\ use' \in [Tags -> Nat]
        /\ use'[n.tag] = n.use
        /\ \A u \in Tags : u # n.tag => use'[u] = use[u]
    BY <2>2 DEF TypeOK, Tags
  <2>4. /\ QueueLinked'
        /\ taskQueue' \in Seq(Node)
        /\ Len(taskQueue') = Len(taskQueue) + 1
        /\ \A i \in 1 .. Len(taskQueue) : taskQueue'[i] = taskQueue[i]
        /\ taskQueue'[Len(taskQueue) + 1] = n
        /\ newTask' <=> newTask \/ taskQueue = <<>>
    <3> HIDE DEF n
    <3> QED
      BY <2>1, <2>2, <2>3, Enqueue
  <2>5. \A u \in Tasks : use'[u] = use[u]
    BY <2>3, ConstantsAssumption DEF Tags
  <2>6. \A i \in 1 .. Len(taskQueue') : i \in 1 .. Len(taskQueue) \/ taskQueue'[i].tag = Latency
    BY <1>0, <2>4
  <2>7. taskQueue' # <<>>
    BY <1>0, <2>4
  <2>8. newTask' <=> newTask \/ (taskQueue = <<>> /\ taskQueue' # <<>>)
    BY <1>0, <2>4, <2>7
  <2>9. Len(taskQueue) <= Len(taskQueue')
    BY <1>0, <2>4
  <2> QED
    BY <2>4, <2>5, <2>6, <2>8, <2>9
<1>3. CASE ~(t \in DataTasks /\ historyIdx' = 0)
  <2>1. UNCHANGED <<use, taskQueue, tail, newTask>>
    BY <1>3 DEF MeasureTransfer, queueVars
  <2>2. QueueLinked'
    BY <2>1 DEF QueueLinked
  <2> QED
    BY <1>0, <2>1, <2>2
<1> QED
  BY <1>2, <1>3

\* CompleteParallelTask, as the queue sees it.
LEMMA CompleteTaskEffect ==
  ASSUME TypeOK, QueueLinked, NEW t \in Tasks, CompleteTask(t)
  PROVE  /\ QueueLinked'
         /\ taskQueue' \in Seq(Node)
         /\ Len(taskQueue) <= Len(taskQueue')
         /\ \A i \in 1 .. Len(taskQueue) : taskQueue'[i] = taskQueue[i]
         /\ \A i \in 1 .. Len(taskQueue') :
              i \in 1 .. Len(taskQueue) \/ taskQueue'[i].tag = Latency
         /\ newTask' <=> newTask \/ (taskQueue = <<>> /\ taskQueue' # <<>>)
         /\ \A u \in Tasks : use'[u] = use[u]
         /\ \A u \in Tasks : scsi'[u] = IF u = t THEN "free" ELSE scsi[u]
         /\ \A u \in Tasks : sent'[u] = IF u = t THEN 0 ELSE sent[u]
         /\ armed' = armed \ {t}
<1>1. /\ \A u \in Tasks : scsi'[u] = IF u = t THEN "free" ELSE scsi[u]
      /\ \A u \in Tasks : sent'[u] = IF u = t THEN 0 ELSE sent[u]
      /\ armed' = armed \ {t}
  BY DEF CompleteTask, TypeOK
<1>2. MeasureTransfer(t)
  BY DEF CompleteTask
<1> QED
  BY <1>1, <1>2, MeasureTransferEffect

-----------------------------------------------------------------------------
(* SerialInv, action by action.                                            *)

\* The parts of the invariant that the steps use most, with the queue indexed
\* by 1 .. Len(taskQueue).
LEMMA SerialFacts ==
  ASSUME SerialInv
  PROVE  /\ TypeOK
         /\ Latency \notin Tasks
         /\ armed \subseteq Tasks
         /\ Len(taskQueue) \in Nat
         /\ DOMAIN taskQueue = 1 .. Len(taskQueue)
         /\ taskQueue # <<>> <=> Len(taskQueue) # 0
         /\ \A i \in 1 .. Len(taskQueue) :
              /\ taskQueue[i] \in Node
              /\ taskQueue[i].tag \in Tags
              /\ taskQueue[i].use \in Nat
              /\ taskQueue[i].use <= use[taskQueue[i].tag]
         /\ \A t \in Tasks : use[t] \in Nat /\ sent[t] \in Nat
<1>1. TypeOK /\ QueueLinked
  BY DEF SerialInv
<1>2. /\ Len(taskQueue) \in Nat
      /\ DOMAIN taskQueue = 1 .. Len(taskQueue)
      /\ taskQueue # <<>> <=> Len(taskQueue) # 0
      /\ \A i \in 1 .. Len(taskQueue) : taskQueue[i] \in Node
  BY <1>1, QueueDomain DEF TypeOK
<1>3. \A i \in 1 .. Len(taskQueue) : taskQueue[i].tag \in Tags /\ taskQueue[i].use \in Nat
  BY <1>2 DEF Node
<1>4. \A i \in 1 .. Len(taskQueue) : taskQueue[i].use <= use[taskQueue[i].tag]
  BY <1>1, <1>2 DEF QueueLinked
<1> QED
  BY <1>1, <1>2, <1>3, <1>4, ConstantsAssumption DEF TypeOK, Tags

\* A connection that was just activated satisfies the invariant.
LEMMA SerialInit ==
  ASSUME Init
  PROVE  SerialInv
<1>1. TypeOK
  BY TypeInit
<1>2. DOMAIN taskQueue = {} /\ taskQueue = <<>>
  BY DEF Init
<1>3. CallersAway /\ QueueLinked /\ QueueLive /\ TaskStaysQueued
  BY <1>2 DEF Init, CallersAway, QueueLinked, QueueLive, TaskStaysQueued, Draining, Outstanding, Returned
<1>4. PopsOwnHead /\ HoldsOneTask /\ WakeupDue /\ Deactivated /\ EnabledHandlers
  BY <1>2 DEF Init, PopsOwnHead, HoldsOneTask, InHand, WakeupDue, Deactivated, Draining, EnabledHandlers, Idle
<1>5. OneInService
  BY DEF Init, OneInService, InFlightIsHead, Idle
<1>6. AnswersOwn /\ ResumesAfterDrain
  BY DEF Init, AnswersOwn, ResumesAfterDrain, Idle
<1> QED
  BY <1>1, <1>3, <1>4, <1>5, <1>6 DEF SerialInv

\* Outside the drain loop no handler is left to go on.
LEMMA ResumeKept ==
  ASSUME SerialInv, ~Draining, UNCHANGED resume,
         workloop'.pc \notin {"lookUp", "dataIn", "stale"}
  PROVE  ResumesAfterDrain'
<1>1. resume = Idle
  BY DEF SerialInv, ResumesAfterDrain
<1> QED
  BY <1>1 DEF ResumesAfterDrain, Idle

\* While the connection is open no handler drains or comes from it, and none has
\* to resume.
LEMMA OpenHandlers ==
  ASSUME SerialInv, enabled
  PROVE  ~Draining /\ workloop.pc \notin {"lookUp", "dataIn", "stale"}
BY DEF SerialInv, EnabledHandlers, Draining

\* ProcessParallelTask and queueTask on the workloop thread: the new element is
\* the tail, live, and signalled if it is the head.
LEMMA SerialSubmit ==
  ASSUME SerialCallers, SerialInv, NEW t \in Tasks, SubmitOnThread(t), TypeOK'
  PROVE  SerialInv'
<1> DEFINE n == [tag |-> t, use |-> use[t] + 1]
<1>1. /\ UNCHANGED <<enabled, caller, workloop, resume, armed, historyIdx, atTarget, pings, tmfs>>
      /\ scsi[t] # "active"
      /\ \A c \in atTarget : c.tag # t
      /\ workloop.pc \in {"idle", "drain"} \/ (workloop.pc = "pop" /\ workloop.tag \notin armed)
  <2>1. \A c \in atTarget : c.copy = 1
    BY DEF SerialInv, AnswersOwn
  <2>2. \A c \in atTarget : c.tag = t => c.copy > 1
    BY DEF SubmitOnThread, Issue, SerialCallers
  <2> QED
    BY <2>1, <2>2 DEF SubmitOnThread, Issue, StackOnThread, Outstanding, targetVars
<1>2. /\ \A u \in Tasks : scsi'[u] = IF u = t THEN "active" ELSE scsi[u]
      /\ \A u \in Tasks : sent'[u] = IF u = t THEN 0 ELSE sent[u]
      /\ \A u \in Tags : use'[u] = IF u = t THEN use[t] + 1 ELSE use[u]
  BY DEF SubmitOnThread, Issue, SerialInv, TypeOK, Tags
<1>3. /\ QueueLinked'
      /\ taskQueue' \in Seq(Node)
      /\ Len(taskQueue') = Len(taskQueue) + 1
      /\ \A i \in 1 .. Len(taskQueue) : taskQueue'[i] = taskQueue[i]
      /\ taskQueue'[Len(taskQueue) + 1] = n
      /\ newTask' <=> newTask \/ taskQueue = <<>>
  <2>1. /\ TypeOK /\ QueueLinked
        /\ n \in Node
        /\ n.use = use[n.tag] + 1
        /\ QueueTaskNow(n)
        /\ use' \in [Tags -> Nat]
        /\ use'[n.tag] = n.use
        /\ \A u \in Tags : u # n.tag => use'[u] = use[u]
    BY <1>2 DEF SubmitOnThread, SerialInv, TypeOK, Node, Tags
  <2> HIDE DEF n
  <2> QED
    BY <2>1, Enqueue
<1>4. /\ Len(taskQueue) \in Nat
      /\ DOMAIN taskQueue = 1 .. Len(taskQueue)
      /\ DOMAIN taskQueue' = 1 .. Len(taskQueue) + 1
      /\ taskQueue # <<>> <=> Len(taskQueue) # 0
      /\ taskQueue' # <<>>
  BY <1>3, SerialFacts, QueueDomain
<1>5. \A i \in 1 .. Len(taskQueue) : taskQueue[i].tag # t \/ (i = 1 /\ workloop.pc = "pop")
  BY <1>1, SerialFacts DEF SerialInv, QueueLive, Live
<1>6. t \notin armed
  BY <1>1 DEF SerialInv, OneInService, Outstanding
<1>7. CallersAway'
  BY <1>1 DEF SerialInv, CallersAway
<1>8. QueueLive'
  <2> SUFFICES ASSUME NEW i \in 1 .. Len(taskQueue) + 1,
                      ~(i = 1 /\ workloop.pc = "pop")
               PROVE  Live(taskQueue[i])'
    BY <1>1, <1>4 DEF QueueLive
  <2>1. CASE i \in 1 .. Len(taskQueue)
    <3>1. Live(taskQueue[i]) /\ taskQueue[i].tag # t
      BY <1>1, <1>4, <1>5, <2>1 DEF SerialInv, QueueLive
    <3>2. taskQueue'[i] = taskQueue[i]
      BY <1>3, <2>1
    <3> QED
      BY <1>2, <3>1, <3>2 DEF Live, Tags
  <2>2. CASE i = Len(taskQueue) + 1
    <3>1. taskQueue'[i].tag = t /\ taskQueue'[i].use = use[t] + 1
      BY <1>3, <2>2
    <3> QED
      BY <1>2, <3>1 DEF Live, Tags
  <2> QED
    BY <1>4, <2>1, <2>2
<1>9. TaskStaysQueued'
  <2> SUFFICES ASSUME enabled \/ Draining, NEW u \in Tasks, Outstanding(u)', ~InHand(u)'
               PROVE  \E i \in DOMAIN taskQueue' :
                        taskQueue'[i] = [tag |-> u, use |-> use'[u]]
    BY <1>1 DEF TaskStaysQueued, Draining
  <2>1. CASE u = t
    BY <1>2, <1>3, <1>4, <2>1 DEF Tags
  <2>2. CASE u # t
    <3>1. PICK i \in DOMAIN taskQueue : taskQueue[i] = [tag |-> u, use |-> use[u]]
      BY <1>1, <1>2, <2>2 DEF SerialInv, TaskStaysQueued, Draining, CallersAway, Outstanding, InHand
    <3> QED
      BY <1>2, <1>3, <1>4, <2>2, <3>1 DEF Tags
  <2> QED
    BY <2>1, <2>2
<1>10. PopsOwnHead' /\ HoldsOneTask'
  <2>1. enabled /\ workloop.pc = "pop" =>
          taskQueue # <<>> /\ taskQueue'[1] = taskQueue[1] /\ ~newTask'
    <3> SUFFICES ASSUME enabled, workloop.pc = "pop"
                 PROVE  taskQueue # <<>> /\ taskQueue'[1] = taskQueue[1] /\ ~newTask'
      OBVIOUS
    <3>1. taskQueue # <<>> /\ ~newTask
      BY DEF SerialInv, PopsOwnHead
    <3> QED
      BY <1>3, <1>4, <3>1
  <2>2. enabled /\ workloop.pc = "pop" /\ workloop.tag \in Tasks =>
          (workloop.tag \in armed <=> Live(taskQueue[1]))'
    <3> SUFFICES ASSUME enabled, workloop.pc = "pop", workloop.tag \in Tasks
                 PROVE  ~Live(taskQueue[1])'
      BY <1>1
    <3>1. ~Live(taskQueue[1]) /\ taskQueue[1].tag = workloop.tag /\ taskQueue # <<>>
      BY <1>1 DEF SerialInv, PopsOwnHead
    <3>2. taskQueue[1].use \in Nat /\ taskQueue[1].use <= use[taskQueue[1].tag]
      BY <1>4, <3>1, SerialFacts
    <3> QED
      BY <1>2, <1>3, <1>4, <2>1, <3>1, <3>2, SerialFacts, SMTT(30) DEF Live, Tags
  <2>3. (\A i \in DOMAIN taskQueue : ~InHand(taskQueue[i].tag))'
    BY <1>1 DEF InHand
  <2>4. PopsOwnHead'
    BY <1>1, <1>4, <2>1, <2>2 DEF SerialInv, PopsOwnHead
  <2>5. workloop'.pc \notin {"signal", "fail", "reject"}
    BY <1>1
  <2>6. HoldsOneTask'
    BY <2>3, <2>5 DEF HoldsOneTask
  <2> QED
    BY <2>4, <2>6
<1>11. OneInService'
  <2>1. (\A u \in armed : Outstanding(u))'
    BY <1>1, <1>2, SerialFacts DEF SerialInv, OneInService, Outstanding
  <2>2. taskQueue # <<>> => taskQueue' # <<>> /\ taskQueue'[1] = taskQueue[1]
    BY <1>3, <1>4
  <2>3. InFlightIsHead'
    BY <1>1, <2>2 DEF SerialInv, OneInService, InFlightIsHead, InHand
  <2>4. (\A u \in Tasks : sent[u] <= 1 /\ (u \notin armed => sent[u] = 0))'
    BY <1>1, <1>2 DEF SerialInv, OneInService
  <2>5. (enabled /\ pings > 0 => /\ workloop.pc = "idle"
                                /\ pings = 1
                                /\ taskQueue # <<>>
                                /\ taskQueue[1].tag = Latency)'
    BY <1>1, <2>2 DEF SerialInv, OneInService
  <2> QED
    BY <1>1, <2>1, <2>3, <2>4, <2>5 DEF OneInService
<1>12. WakeupDue'
  <2> SUFFICES ASSUME enabled, workloop.pc = "idle"
               PROVE  (newTask <=> ~InService(taskQueue[1]))'
    BY <1>1 DEF WakeupDue
  <2>1. CASE taskQueue = <<>>
    <3>1. taskQueue'[1].tag = t /\ newTask'
      BY <1>3, <1>4, <2>1
    <3> QED
      BY <1>1, <1>6, <3>1, SerialFacts DEF InService
  <2>2. CASE taskQueue # <<>>
    <3>1. taskQueue'[1] = taskQueue[1] /\ taskQueue[1].tag # t /\ taskQueue[1].tag \in Tags
      BY <1>3, <1>4, <1>5, <2>2, SerialFacts
    <3>2. newTask' <=> newTask
      BY <1>3, <2>2
    <3>3. newTask <=> ~InService(taskQueue[1])
      BY <2>2 DEF SerialInv, WakeupDue
    <3>4. InService(taskQueue[1])' <=> InService(taskQueue[1])
      BY <1>1, <1>2, <3>1 DEF InService, Outstanding, Tags
    <3> QED
      BY <3>2, <3>3, <3>4
  <2> QED
    BY <2>1, <2>2
<1>13. Deactivated' /\ EnabledHandlers'
  BY <1>1 DEF SerialInv, Deactivated, Draining, EnabledHandlers
<1>14. AnswersOwn'
  <2> SUFFICES ASSUME NEW c \in atTarget
               PROVE  (c.use = use[c.tag] /\ c.copy = 1 /\ (Outstanding(c.tag) => c.tag \in armed))'
    BY <1>1 DEF AnswersOwn
  <2>1. c.tag \in Tasks /\ c.tag \in Tags /\ c.tag # t
    BY <1>1 DEF SerialInv, TypeOK, Command, Tags
  <2>2. use'[c.tag] = use[c.tag] /\ (Outstanding(c.tag)' <=> Outstanding(c.tag))
    BY <1>2, <2>1 DEF Outstanding
  <2> QED
    BY <1>1, <2>2 DEF SerialInv, AnswersOwn
<1>15. ResumesAfterDrain'
  <2>1. CASE ~Draining
    BY <1>1, <2>1, ResumeKept
  <2>2. CASE Draining
    <3>1. resume.pc = "dataIn" => Outstanding(resume.tag)'
      <4>1. resume.pc = "dataIn" => resume.tag \in Tasks
        BY DEF SerialInv, TypeOK, ResumeState, Idle
      <4>2. resume.pc = "dataIn" => scsi[resume.tag] = "active"
        BY DEF SerialInv, ResumesAfterDrain, Outstanding
      <4>3. \A u \in Tasks : scsi[u] = "active" => scsi'[u] = "active"
        BY <1>2
      <4> QED
        BY <1>1, <4>1, <4>2, <4>3 DEF Outstanding
    <3> QED
      BY <1>1, <2>2, <3>1 DEF ResumesAfterDrain, Draining
  <2> QED
    BY <2>1, <2>2
<1> QED
  BY <1>3, <1>7, <1>8, <1>9, <1>10, <1>11, <1>12, <1>13, <1>14, <1>15 DEF SerialInv

\* An event that leaves the queue and the SCSI stack alone.
LEMMA QueueUntouched ==
  ASSUME SerialInv, enabled, workloop.pc = "idle", workloop'.pc \in {"idle", "drain", "pop"},
         UNCHANGED <<taskQueue, tail, use, scsi, caller, tmfs>>
  PROVE  /\ CallersAway' /\ QueueLinked' /\ QueueLive' /\ TaskStaysQueued'
         /\ \A u : ~InHand(u)'
         /\ \A i \in 1 .. Len(taskQueue) : Live(taskQueue[i])
<1>1. CallersAway' /\ QueueLinked'
  BY DEF SerialInv, CallersAway, QueueLinked
<1>2. \A i \in 1 .. Len(taskQueue) : Live(taskQueue[i])
  BY SerialFacts DEF SerialInv, QueueLive
<1>3. QueueLive'
  BY <1>2, SerialFacts DEF QueueLive, Live
<1>4. \A u : ~InHand(u) /\ ~InHand(u)'
  BY DEF InHand
<1>5. TaskStaysQueued'
  BY <1>4 DEF SerialInv, TaskStaysQueued, Draining, Outstanding
<1> QED
  BY <1>1, <1>2, <1>3, <1>4, <1>5

\* Disabling the event sources leaves the queue and every element as they were.
LEMMA SerialDrainStarts ==
  ASSUME SerialCallers, SerialInv, TypeOK', enabled, workloop.pc = "idle",
         NEW next \in ResumeState, StartDrain(next),
         next.pc = "dataIn" => Outstanding(next.tag),
         atTarget' \subseteq atTarget,
         UNCHANGED <<taskQueue, tail, use, scsi, sent, caller, tmfs>>,
         armed' = armed \/ (taskQueue # <<>> /\ Outstanding(taskQueue[1].tag)
                            /\ taskQueue[1].tag \in Tasks
                            /\ armed' = armed \cup {taskQueue[1].tag})
  PROVE  SerialInv'
<1>1. workloop'.pc = "drain" /\ ~enabled'
  BY DEF StartDrain
<1>2. /\ CallersAway' /\ QueueLinked' /\ QueueLive' /\ TaskStaysQueued'
      /\ \A u : ~InHand(u)'
  BY <1>1, QueueUntouched
<1>3. PopsOwnHead' /\ HoldsOneTask'
  BY <1>1, <1>2 DEF PopsOwnHead, HoldsOneTask
<1>4. OneInService'
  <2>1. (\A u \in armed : Outstanding(u))'
    BY DEF SerialInv, OneInService, Outstanding
  <2>2. InFlightIsHead'
    BY DEF SerialInv, OneInService, InFlightIsHead, InHand
  <2>3. (\A u \in Tasks : sent[u] <= 1 /\ (u \notin armed => sent[u] = 0))'
    BY DEF SerialInv, OneInService
  <2> QED
    BY <1>1, <2>1, <2>2, <2>3 DEF OneInService
<1>5. WakeupDue' /\ Deactivated' /\ EnabledHandlers'
  BY <1>1 DEF WakeupDue, Deactivated, Draining, EnabledHandlers
<1>6. AnswersOwn'
  <2>1. \A u \in armed : u \in armed'
    OBVIOUS
  <2> QED
    BY <2>1 DEF SerialInv, AnswersOwn, Outstanding
<1>7. ResumesAfterDrain'
  BY <1>1 DEF StartDrain, ResumesAfterDrain, Draining, Outstanding
<1> QED
  BY <1>2, <1>3, <1>4, <1>5, <1>6, <1>7 DEF SerialInv

\* checkForWork starts the head, which was not in service, and clears newTask.
LEMMA SerialCheckForWork ==
  ASSUME SerialCallers, SerialInv, CheckForWork, TypeOK'
  PROVE  SerialInv'
<1>1. /\ workloop.pc = "idle" /\ enabled /\ newTask /\ ~newTask'
      /\ UNCHANGED <<taskQueue, tail, caller, scsi, use, tmfs>>
  BY DEF CheckForWork, queueVars
<1>2. CASE taskQueue = <<>>
  <2>1. UNCHANGED <<sent, armed, atTarget, pings, enabled, resume, workloop>>
    BY <1>2 DEF CheckForWork
  <2>2. /\ CallersAway' /\ QueueLinked' /\ QueueLive' /\ TaskStaysQueued'
        /\ \A u : ~InHand(u)'
    BY <1>1, <2>1, QueueUntouched
  <2>3. PopsOwnHead' /\ HoldsOneTask'
    BY <1>1, <2>1, <2>2 DEF PopsOwnHead, HoldsOneTask
  <2>4. OneInService'
    BY <1>1, <2>1 DEF SerialInv, OneInService, InFlightIsHead, InHand, Outstanding
  <2>5. WakeupDue' /\ Deactivated' /\ EnabledHandlers'
    BY <1>1, <1>2, <2>1 DEF SerialInv, WakeupDue, Deactivated, Draining, EnabledHandlers
  <2>6. AnswersOwn'
    BY <1>1, <2>1 DEF SerialInv, AnswersOwn, Outstanding
  <2>7. ResumesAfterDrain'
    BY <1>1, <2>1, OpenHandlers, ResumeKept
  <2> QED
    BY <2>2, <2>3, <2>4, <2>5, <2>6, <2>7 DEF SerialInv
<1>3. CASE taskQueue # <<>>
  <2> DEFINE n == taskQueue[1]
  <2>1. /\ BeginTask(n)
        /\ n \in Node /\ n.tag \in Tags
        /\ Live(n)
        /\ ~InService(n)
    BY <1>1, <1>3, SerialFacts DEF CheckForWork, SerialInv, QueueLive, WakeupDue
  <2>2. /\ \A u \in armed : u = n.tag /\ Outstanding(u)
        /\ \A u \in Tasks : sent[u] <= 1 /\ (u \notin armed => sent[u] = 0)
        /\ n.tag # Latency => n.tag \notin armed /\ pings = 0
        /\ n.tag = Latency => pings = 0
        /\ pings \in Nat
    <3>1. \A u : ~InHand(u)
      BY <1>1 DEF InHand
    <3>2. \A u \in armed : u = n.tag /\ Outstanding(u)
      BY <1>3, <3>1, SerialFacts DEF SerialInv, OneInService, InFlightIsHead
    <3>3. n.tag # Latency => n.tag \notin armed
      BY <2>1, <3>2 DEF InService
    <3>4. pings \in Nat /\ (pings > 0 => n.tag = Latency)
      BY <1>1 DEF SerialInv, TypeOK, OneInService
    <3>5. n.tag = Latency => ~(pings > 0)
      BY <2>1 DEF InService
    <3> QED
      BY <3>2, <3>3, <3>4, <3>5 DEF SerialInv, OneInService
  <2>3. CASE BeginLatency(n)
    <3>1. /\ n.tag = Latency /\ pings' = 1
          /\ UNCHANGED <<sent, armed, atTarget, enabled, resume, workloop>>
      BY <2>2, <2>3 DEF BeginLatency
    <3>2. /\ CallersAway' /\ QueueLinked' /\ QueueLive' /\ TaskStaysQueued'
          /\ \A u : ~InHand(u)'
      BY <1>1, <3>1, QueueUntouched
    <3>3. PopsOwnHead' /\ HoldsOneTask'
      BY <1>1, <3>1, <3>2 DEF PopsOwnHead, HoldsOneTask
    <3>4. OneInService'
      BY <1>1, <1>3, <3>1 DEF SerialInv, OneInService, InFlightIsHead, InHand, Outstanding
    <3>5. WakeupDue' /\ Deactivated' /\ EnabledHandlers'
      BY <1>1, <3>1 DEF SerialInv, WakeupDue, InService, Deactivated, Draining, EnabledHandlers
    <3>6. AnswersOwn'
      BY <1>1, <3>1 DEF SerialInv, AnswersOwn, Outstanding
    <3>7. ResumesAfterDrain'
      BY <1>1, <3>1, OpenHandlers, ResumeKept
    <3> QED
      BY <3>2, <3>3, <3>4, <3>5, <3>6, <3>7 DEF SerialInv
  <2>4. CASE TaskNotFound(n)
    BY <2>1, <2>4 DEF TaskNotFound, Live, Tags, Outstanding
  <2>5. CASE SendCommand(n)
    <3> DEFINE c == [tag |-> n.tag, use |-> use[n.tag], copy |-> sent[n.tag] + 1]
    <3>1. /\ n.tag \in Tasks /\ n.tag # Latency /\ Outstanding(n.tag)
          /\ armed' = armed \cup {n.tag}
          /\ sent' = [sent EXCEPT ![n.tag] = @ + 1]
          /\ atTarget' = atTarget \cup {c}
          /\ UNCHANGED <<pings, enabled, resume, workloop>>
      BY <2>1, <2>5 DEF SendCommand, Tags
    <3>2. /\ CallersAway' /\ QueueLinked' /\ QueueLive' /\ TaskStaysQueued'
          /\ \A u : ~InHand(u)'
      BY <1>1, <3>1, QueueUntouched
    <3>3. PopsOwnHead' /\ HoldsOneTask'
      BY <1>1, <3>1, <3>2 DEF PopsOwnHead, HoldsOneTask
    <3>4. sent[n.tag] = 0 /\ \A u \in Tasks : sent'[u] = IF u = n.tag THEN 1 ELSE sent[u]
      BY <2>2, <3>1 DEF SerialInv, TypeOK
    <3>5. OneInService'
      <4>1. (\A u \in armed : Outstanding(u))'
        BY <1>1, <2>2, <3>1 DEF Outstanding
      <4>2. InFlightIsHead'
        BY <1>1, <1>3, <2>2, <3>1 DEF InFlightIsHead
      <4>3. (\A u \in Tasks : sent[u] <= 1 /\ (u \notin armed => sent[u] = 0))'
        BY <2>2, <3>1, <3>4
      <4> QED
        BY <1>1, <2>2, <3>1, <4>1, <4>2, <4>3 DEF OneInService
    <3>6. WakeupDue' /\ Deactivated' /\ EnabledHandlers'
      BY <1>1, <3>1 DEF SerialInv, WakeupDue, InService, Outstanding, Deactivated, Draining, EnabledHandlers
    <3>7. AnswersOwn'
      <4>1. c.use = use[c.tag] /\ c.copy = 1 /\ c.tag = n.tag
        BY <3>1, <3>4
      <4> HIDE DEF c
      <4> QED
        BY <1>1, <3>1, <4>1 DEF SerialInv, AnswersOwn, Outstanding
    <3>8. ResumesAfterDrain'
      BY <1>1, <3>1, OpenHandlers, ResumeKept
    <3> QED
      BY <3>2, <3>3, <3>5, <3>6, <3>7, <3>8 DEF SerialInv
  <2>6. CASE SendFails(n)
    <3>1. /\ StartDrain(Idle)
          /\ UNCHANGED sent
          /\ UNCHANGED atTarget
          /\ armed' = armed \/ (Outstanding(n.tag) /\ n.tag \in Tasks
                                /\ armed' = armed \cup {n.tag})
      BY <2>6 DEF SendFails
    <3>2. Idle \in ResumeState /\ Idle.pc # "dataIn"
      BY DEF Idle, ResumeState
    <3> QED
      BY <1>1, <1>3, <3>1, <3>2, SerialDrainStarts
  <2> QED
    BY <2>1, <2>3, <2>4, <2>5, <2>6 DEF BeginTask
<1> QED
  BY <1>2, <1>3

\* The answer to a ping finds the measurement at the head.
LEMMA SerialNOPIn ==
  ASSUME SerialCallers, SerialInv, ProcessNOPIn, TypeOK'
  PROVE  SerialInv'
<1>1. /\ workloop.pc = "idle" /\ enabled /\ pings > 0
      /\ pings' = pings - 1
      /\ workloop' = [pc |-> "pop", tag |-> Latency]
      /\ UNCHANGED <<taskQueue, tail, newTask, enabled, resume, caller, scsi, use, sent, armed,
                     atTarget, tmfs>>
  BY DEF ProcessNOPIn, queueVars, stackVars
<1>2. /\ CallersAway' /\ QueueLinked' /\ QueueLive' /\ TaskStaysQueued'
      /\ \A u : ~InHand(u)'
  BY <1>1, QueueUntouched
<1>3. taskQueue # <<>> /\ taskQueue[1].tag = Latency /\ pings' = 0
  BY <1>1 DEF SerialInv, OneInService
<1>4. Latency \notin armed /\ Latency \notin Tasks
  BY SerialFacts
<1>5. ~newTask
  BY <1>1, <1>3 DEF SerialInv, WakeupDue, InService
<1>6. PopsOwnHead' /\ HoldsOneTask'
  BY <1>1, <1>2, <1>3, <1>4, <1>5 DEF PopsOwnHead, HoldsOneTask
<1>7. OneInService'
  BY <1>1, <1>3 DEF SerialInv, OneInService, InFlightIsHead, InHand, Outstanding
<1>8. WakeupDue' /\ Deactivated' /\ EnabledHandlers'
  BY <1>1 DEF WakeupDue, Deactivated, Draining, EnabledHandlers
<1>9. AnswersOwn'
  BY <1>1 DEF SerialInv, AnswersOwn, Outstanding
<1>10. ResumesAfterDrain'
  BY <1>1, OpenHandlers, ResumeKept
<1> QED
  BY <1>2, <1>6, <1>7, <1>8, <1>9, <1>10 DEF SerialInv

\* A task whose timer fires is armed, so it is the head.
LEMMA SerialTimeout ==
  ASSUME SerialCallers, SerialInv, NEW t \in Tasks, HandleTimeout(t), TypeOK'
  PROVE  SerialInv'
<1>1. /\ workloop.pc = "idle" /\ t \in armed
      /\ workloop' = [pc |-> "pop", tag |-> t]
      /\ UNCHANGED <<taskQueue, tail, newTask, enabled, resume, caller, scsi, use, sent, armed,
                     atTarget, pings, tmfs>>
  BY DEF HandleTimeout, queueVars, stackVars, targetVars
<1>2. enabled /\ Outstanding(t)
  BY <1>1 DEF SerialInv, Deactivated, Draining, OneInService
<1>3. /\ CallersAway' /\ QueueLinked' /\ QueueLive' /\ TaskStaysQueued'
      /\ \A u : ~InHand(u)'
      /\ \A i \in 1 .. Len(taskQueue) : Live(taskQueue[i])
  BY <1>1, <1>2, QueueUntouched
<1>4. taskQueue # <<>> /\ taskQueue[1].tag = t
  BY <1>1 DEF SerialInv, OneInService, InFlightIsHead, InHand
<1>5. Live(taskQueue[1])'
  BY <1>1, <1>3, <1>4, SerialFacts DEF Live
<1>6. ~newTask
  BY <1>1, <1>2, <1>4, SerialFacts DEF SerialInv, WakeupDue, InService
<1>7. PopsOwnHead' /\ HoldsOneTask'
  BY <1>1, <1>3, <1>4, <1>5, <1>6 DEF PopsOwnHead, HoldsOneTask
<1>8. OneInService'
  BY <1>1, <1>4, SerialFacts DEF SerialInv, OneInService, InFlightIsHead, InHand, Outstanding
<1>9. WakeupDue' /\ Deactivated' /\ EnabledHandlers'
  BY <1>1, <1>2 DEF WakeupDue, Deactivated, Draining, EnabledHandlers
<1>10. AnswersOwn'
  BY <1>1 DEF SerialInv, AnswersOwn, Outstanding
<1>11. ResumesAfterDrain'
  BY <1>1, <1>2, OpenHandlers, ResumeKept
<1> QED
  BY <1>3, <1>7, <1>8, <1>9, <1>10, <1>11 DEF SerialInv

\* A lost connection disables the queue and starts the drain.
LEMMA SerialConnectionTimeout ==
  ASSUME SerialCallers, SerialInv, HandleConnectionTimeout, TypeOK'
  PROVE  SerialInv'
<1>1. /\ workloop.pc = "idle" /\ StartDrain(Idle)
      /\ UNCHANGED <<taskQueue, tail, use, scsi, sent, caller, atTarget, tmfs, armed>>
  BY DEF HandleConnectionTimeout, queueVars, stackVars, targetVars
<1>2. enabled
  BY <1>1 DEF HandleConnectionTimeout, SerialInv, Deactivated, Draining
<1>3. Idle \in ResumeState /\ Idle.pc # "dataIn"
  BY DEF Idle, ResumeState
<1> QED
  BY <1>1, <1>2, <1>3, SerialDrainStarts

\* A failed receive starts the drain in the middle of the handler of an answer.
LEMMA SerialReceiveFails ==
  ASSUME SerialCallers, SerialInv, NEW c \in atTarget, ReceiveFails(c), TypeOK'
  PROVE  SerialInv'
<1>1. /\ workloop.pc = "idle" /\ enabled
      /\ atTarget' \subseteq atTarget
      /\ UNCHANGED <<taskQueue, tail, use, scsi, sent, caller, tmfs, armed>>
  BY DEF ReceiveFails, queueVars, stackVars
<1>2. PICK next \in AfterReceive(c) : StartDrain(next)
  BY DEF ReceiveFails
<1>3. c.tag \in Tasks
  BY DEF SerialInv, TypeOK, Command
<1>4. next \in ResumeState /\ (next.pc = "dataIn" => Outstanding(next.tag))
  BY <1>3 DEF AfterReceive, ResumeState, Idle
<1> QED
  BY <1>1, <1>2, <1>4, SerialDrainStarts

\* An answer that completes nothing.
LEMMA SerialAnswerIgnored ==
  ASSUME SerialCallers, SerialInv, TypeOK', enabled, workloop.pc = "idle", NEW c \in atTarget,
         atTarget' = atTarget \ {c},
         UNCHANGED <<taskQueue, tail, newTask, enabled, resume, caller, workloop, scsi, use, sent,
                     armed, pings, tmfs>>
  PROVE  SerialInv'
<1>1. /\ CallersAway' /\ QueueLinked' /\ QueueLive' /\ TaskStaysQueued'
      /\ \A u : ~InHand(u)'
  BY QueueUntouched
<1>2. PopsOwnHead' /\ HoldsOneTask'
  BY <1>1 DEF PopsOwnHead, HoldsOneTask
<1>3. OneInService'
  BY DEF SerialInv, OneInService, InFlightIsHead, InHand, Outstanding
<1>4. WakeupDue' /\ Deactivated' /\ EnabledHandlers'
  BY DEF SerialInv, WakeupDue, InService, Outstanding, Deactivated, Draining, EnabledHandlers
<1>5. AnswersOwn'
  BY DEF SerialInv, AnswersOwn, Outstanding
<1>6. ResumesAfterDrain'
  BY OpenHandlers, ResumeKept
<1> QED
  BY <1>1, <1>2, <1>3, <1>4, <1>5, <1>6 DEF SerialInv

\* A data-in PDU without a data segment changes nothing but the target.
LEMMA SerialEmptyDataIn ==
  ASSUME SerialCallers, SerialInv, NEW c \in atTarget, ProcessEmptyDataIn(c), TypeOK'
  PROVE  SerialInv'
<1>1. /\ workloop.pc = "idle" /\ enabled
      /\ atTarget' = atTarget \ {c}
      /\ UNCHANGED <<taskQueue, tail, newTask, enabled, resume, caller, workloop, scsi, use, sent,
                     armed, pings, tmfs>>
  BY DEF ProcessEmptyDataIn, queueVars, stackVars
<1> QED
  BY <1>1, SerialAnswerIgnored

\* A response finds its task at the head, or no task at all after a timeout.
LEMMA SerialResponse ==
  ASSUME SerialCallers, SerialInv, NEW c \in atTarget, ProcessSCSIResponse(c), TypeOK'
  PROVE  SerialInv'
<1>1. /\ workloop.pc = "idle" /\ enabled
      /\ atTarget' = atTarget \ {c}
      /\ UNCHANGED <<enabled, resume, caller, pings, tmfs>>
      /\ c \in Command /\ c.tag \in Tasks
  BY DEF ProcessSCSIResponse, SerialInv, TypeOK, Command
<1>2. CASE ~Outstanding(c.tag)
  <2>1. UNCHANGED <<taskQueue, tail, newTask, workloop, scsi, use, sent, armed>>
    BY <1>2 DEF ProcessSCSIResponse, queueVars, stackVars
  <2> QED
    BY <1>1, <2>1, SerialAnswerIgnored
<1>3. CASE Outstanding(c.tag)
  <2> DEFINE t == c.tag
  <2>1. /\ CompleteTask(t)
        /\ workloop' = [pc |-> "pop", tag |-> t]
    BY <1>3 DEF ProcessSCSIResponse
  <2>2. /\ QueueLinked'
        /\ taskQueue' \in Seq(Node)
        /\ Len(taskQueue) <= Len(taskQueue')
        /\ \A i \in 1 .. Len(taskQueue) : taskQueue'[i] = taskQueue[i]
        /\ \A i \in 1 .. Len(taskQueue') :
             i \in 1 .. Len(taskQueue) \/ taskQueue'[i].tag = Latency
        /\ newTask' <=> newTask \/ (taskQueue = <<>> /\ taskQueue' # <<>>)
        /\ \A u \in Tasks : use'[u] = use[u]
        /\ \A u \in Tasks : scsi'[u] = IF u = t THEN "free" ELSE scsi[u]
        /\ \A u \in Tasks : sent'[u] = IF u = t THEN 0 ELSE sent[u]
        /\ armed' = armed \ {t}
    BY <1>1, <2>1, CompleteTaskEffect DEF SerialInv
  <2>3. /\ t \in armed
        /\ c.use = use[t] /\ c.copy = 1
    BY <1>1, <1>3 DEF SerialInv, AnswersOwn
  <2>4. /\ taskQueue # <<>>
        /\ taskQueue[1].tag = t
        /\ armed = {t}
        /\ ~(pings > 0)
    BY <1>1, <2>3, SerialFacts DEF SerialInv, OneInService, InFlightIsHead, InHand
  <2>5. /\ Len(taskQueue) \in Nat \ {0}
        /\ DOMAIN taskQueue = 1 .. Len(taskQueue)
        /\ DOMAIN taskQueue' = 1 .. Len(taskQueue')
        /\ Len(taskQueue') \in Nat \ {0}
        /\ taskQueue' # <<>>
        /\ taskQueue'[1] = taskQueue[1]
    BY <2>2, <2>4, SerialFacts, QueueDomain
  <2>6. \A i \in 1 .. Len(taskQueue) : Live(taskQueue[i])
    BY <1>1, <2>5 DEF SerialInv, QueueLive
  <2>7. \A i \in 2 .. Len(taskQueue) : taskQueue[i].tag # t
    BY <1>1, <2>4, <2>5, <2>6, LiveHeadIsAlone DEF SerialInv
  <2>8. CallersAway'
    BY <1>1 DEF SerialInv, CallersAway
  <2>9. QueueLive'
    <3> SUFFICES ASSUME NEW i \in 1 .. Len(taskQueue'), i # 1
                 PROVE  Live(taskQueue[i])'
      BY <2>1, <2>5 DEF QueueLive
    <3>1. CASE i \in 1 .. Len(taskQueue)
      <4>1. /\ taskQueue'[i] = taskQueue[i]
            /\ taskQueue[i].tag # t
            /\ Live(taskQueue[i])
        BY <2>2, <2>5, <2>6, <2>7, <3>1
      <4> QED
        BY <2>2, <4>1 DEF Live
    <3>2. CASE taskQueue'[i].tag = Latency
      BY <3>2, SerialFacts DEF Live
    <3> QED
      BY <2>2, <3>1, <3>2
  <2>10. TaskStaysQueued'
    <3> SUFFICES ASSUME NEW u \in Tasks, Outstanding(u)'
                 PROVE  (\E i \in DOMAIN taskQueue : taskQueue[i] = [tag |-> u, use |-> use[u]])'
      BY DEF TaskStaysQueued, Draining
    <3>1. u # t /\ Outstanding(u)
      BY <1>1, <2>2 DEF Outstanding
    <3>2. PICK i \in DOMAIN taskQueue : taskQueue[i] = [tag |-> u, use |-> use[u]]
      BY <1>1, <3>1 DEF SerialInv, TaskStaysQueued, Draining, CallersAway, InHand
    <3>3. i \in DOMAIN taskQueue' /\ taskQueue'[i] = taskQueue[i]
      BY <2>2, <2>5, <3>2
    <3> QED
      BY <2>2, <3>2, <3>3
  <2>11. PopsOwnHead'
    <3>1. ~Live(taskQueue[1])'
      BY <1>1, <2>2, <2>4, <2>5 DEF Live
    <3>2. ~newTask'
      BY <1>1, <1>3, <2>2, <2>3, <2>4, SerialFacts DEF SerialInv, WakeupDue, InService
    <3> QED
      BY <2>1, <2>2, <2>4, <2>5, <3>1, <3>2 DEF PopsOwnHead
  <2>12. HoldsOneTask'
    BY <2>1, <2>2 DEF HoldsOneTask, InHand
  <2>13. OneInService'
    BY <1>1, <2>1, <2>2, <2>4 DEF SerialInv, OneInService, InFlightIsHead
  <2>14. WakeupDue' /\ Deactivated' /\ EnabledHandlers'
    BY <1>1, <2>1 DEF WakeupDue, Deactivated, Draining, EnabledHandlers
  <2>15. AnswersOwn'
    <3> SUFFICES ASSUME NEW d \in atTarget, d # c
                 PROVE  (d.use = use[d.tag] /\ d.copy = 1 /\ (Outstanding(d.tag) => d.tag \in armed))'
      BY <1>1 DEF AnswersOwn
    <3>1. /\ d \in Command /\ d.tag \in Tasks
          /\ d.use = use[d.tag] /\ d.copy = 1
          /\ Outstanding(d.tag) => d.tag \in armed
      BY DEF SerialInv, AnswersOwn, TypeOK, Command
    <3>2. d.tag # t
      BY <1>1, <2>3, <3>1 DEF Command
    <3> QED
      BY <2>2, <3>1, <3>2 DEF Outstanding
  <2>16. ResumesAfterDrain'
    BY <1>1, <2>1, OpenHandlers, ResumeKept
  <2> QED
    BY <2>2, <2>8, <2>9, <2>10, <2>11, <2>12, <2>13, <2>14, <2>15, <2>16 DEF SerialInv
<1> QED
  BY <1>2, <1>3

\* completeCurrentTask removes the head, which is the task of its handler.
LEMMA SerialPop ==
  ASSUME SerialCallers, SerialInv, enabled, PopTask, TypeOK'
  PROVE  SerialInv'
<1>1. /\ workloop.pc = "pop"
      /\ taskQueue # <<>>
      /\ taskQueue[1].tag = workloop.tag
      /\ workloop.tag \in Tasks => (workloop.tag \in armed <=> Live(taskQueue[1]))
  BY DEF PopTask, SerialInv, PopsOwnHead
<1>2. /\ workloop'.pc = "signal" /\ workloop'.tag = workloop.tag
      /\ RemoveFirst
      /\ UNCHANGED <<newTask, enabled, resume, caller, scsi, use, sent, armed, atTarget, pings, tmfs>>
  BY <1>1 DEF PopTask, stackVars, targetVars, SerialInv, TypeOK, WorkloopState
<1>3. /\ QueueLinked'
      /\ taskQueue' \in Seq(Node)
      /\ Len(taskQueue') = Len(taskQueue) - 1
      /\ \A i \in 1 .. Len(taskQueue) - 1 : taskQueue'[i] = taskQueue[i + 1]
  BY <1>1, <1>2, Dequeue DEF SerialInv
<1>4. /\ Len(taskQueue) \in Nat \ {0}
      /\ DOMAIN taskQueue = 1 .. Len(taskQueue)
      /\ DOMAIN taskQueue' = 1 .. Len(taskQueue) - 1
      /\ taskQueue[1] \in Node /\ workloop.tag \in Tags
  BY <1>1, <1>3, SerialFacts, QueueDomain
<1>5. \A i \in 2 .. Len(taskQueue) : Live(taskQueue[i])
  BY <1>4 DEF SerialInv, QueueLive
<1>6. workloop.tag \in armed => \A i \in 2 .. Len(taskQueue) : taskQueue[i].tag # workloop.tag
  BY <1>1, LiveHeadIsAlone, SerialFacts DEF SerialInv
<1>7. \A i \in 1 .. Len(taskQueue) - 1 : i + 1 \in 2 .. Len(taskQueue)
  BY <1>4
<1>8. enabled /\ \A u \in armed : u = workloop.tag /\ Outstanding(u)
  BY <1>1, SerialFacts DEF SerialInv, Deactivated, Draining, OneInService, InFlightIsHead, InHand
<1>9. CallersAway'
  BY <1>2 DEF SerialInv, CallersAway
<1>10. QueueLive'
  <2> SUFFICES ASSUME NEW i \in 1 .. Len(taskQueue) - 1
               PROVE  Live(taskQueue[i])'
    BY <1>4 DEF QueueLive
  <2>1. taskQueue'[i] = taskQueue[i + 1] /\ Live(taskQueue[i + 1])
    BY <1>3, <1>5, <1>7
  <2> QED
    BY <1>2, <2>1 DEF Live
<1>11. TaskStaysQueued'
  <2> SUFFICES ASSUME NEW u \in Tasks, Outstanding(u)', ~InHand(u)'
               PROVE  (\E i \in DOMAIN taskQueue : taskQueue[i] = [tag |-> u, use |-> use[u]])'
    BY DEF TaskStaysQueued, Draining
  <2>1. PICK i \in DOMAIN taskQueue : taskQueue[i] = [tag |-> u, use |-> use[u]]
    BY <1>1, <1>2 DEF SerialInv, TaskStaysQueued, Draining, CallersAway, InHand, Outstanding
  <2>2. i # 1
    <3>1. i = 1 => Live(taskQueue[1]) /\ u = workloop.tag
      BY <1>1, <1>2, <2>1 DEF Live, Outstanding
    <3> QED
      BY <1>1, <1>2, <3>1 DEF InHand
  <2>3. i - 1 \in 1 .. Len(taskQueue) - 1 /\ taskQueue'[i - 1] = taskQueue[(i - 1) + 1]
    BY <1>3, <1>4, <2>2
  <2>4. (i - 1) + 1 = i
    BY <1>4
  <2> QED
    BY <1>2, <1>4, <2>1, <2>3, <2>4
<1>12. PopsOwnHead'
  BY <1>2 DEF PopsOwnHead
<1>13. HoldsOneTask'
  <2>1. (\A i \in DOMAIN taskQueue : ~InHand(taskQueue[i].tag))'
    BY <1>2, <1>3, <1>4, <1>6, <1>7 DEF InHand
  <2> QED
    BY <1>1, <1>2, <1>4, <2>1 DEF SerialInv, HoldsOneTask
<1>14. OneInService'
  BY <1>1, <1>2, <1>8 DEF SerialInv, OneInService, InFlightIsHead, InHand, Outstanding
<1>15. WakeupDue' /\ Deactivated' /\ EnabledHandlers'
  BY <1>2, <1>8 DEF WakeupDue, Deactivated, Draining, EnabledHandlers
<1>16. AnswersOwn'
  BY <1>2 DEF SerialInv, AnswersOwn, Outstanding
<1>17. ResumesAfterDrain'
  BY <1>2, OpenHandlers, ResumeKept
<1> QED
  BY <1>3, <1>9, <1>10, <1>11, <1>12, <1>13, <1>14, <1>15, <1>16, <1>17 DEF SerialInv

\* completeCurrentTask wakes the workloop exactly when a task is left.
LEMMA SerialSignal ==
  ASSUME SerialCallers, SerialInv, enabled, SignalNext, TypeOK'
  PROVE  SerialInv'
<1>1. /\ workloop.pc = "signal"
      /\ newTask' <=> newTask \/ taskQueue # <<>>
      /\ UNCHANGED <<taskQueue, tail, enabled, resume, caller, scsi, use, sent, armed,
                     atTarget, pings, tmfs>>
  BY DEF SignalNext, queueVars, stackVars, targetVars, SerialInv, TypeOK
<1>2. /\ enabled /\ ~(pings > 0)
      /\ armed \subseteq {workloop.tag}
      /\ workloop.tag \in Tags
      /\ \A u \in armed : Outstanding(u)
  BY <1>1 DEF SerialInv, Deactivated, Draining, OneInService, HoldsOneTask
<1>3. \/ /\ workloop.tag \in armed
         /\ workloop'.pc = "fail" /\ workloop'.tag = workloop.tag
      \/ /\ armed = {}
         /\ workloop'.pc = "idle"
  BY <1>1, <1>2 DEF SignalNext, AfterPop, Idle, SerialInv, TypeOK, WorkloopState
<1>4. \A u : InHand(u)' <=> InHand(u)
  BY <1>1, <1>3 DEF InHand
<1>5. CallersAway' /\ QueueLinked'
  BY <1>1 DEF SerialInv, CallersAway, QueueLinked
<1>6. QueueLive' /\ TaskStaysQueued'
  BY <1>1, <1>4 DEF SerialInv, QueueLive, Live, TaskStaysQueued, Draining, Outstanding
<1>7. PopsOwnHead'
  BY <1>3 DEF PopsOwnHead
<1>8. HoldsOneTask'
  BY <1>1, <1>2, <1>3, <1>4 DEF SerialInv, HoldsOneTask
<1>9. OneInService'
  BY <1>1, <1>2, <1>3, <1>4 DEF SerialInv, OneInService, InFlightIsHead, Outstanding
<1>10. WakeupDue'
  <2> SUFFICES ASSUME taskQueue # <<>>
               PROVE  (newTask <=> ~InService(taskQueue[1]))'
    BY <1>1 DEF WakeupDue
  <2>1. 1 \in DOMAIN taskQueue /\ taskQueue[1].tag \in Tags
    BY SerialFacts
  <2>2. taskQueue[1].tag \notin armed
    BY <1>1, <1>2, <2>1, SerialFacts DEF SerialInv, HoldsOneTask, InHand
  <2>3. ~InService(taskQueue[1])'
    BY <1>1, <1>2, <2>2 DEF InService
  <2> QED
    BY <1>1, <2>3
<1>11. Deactivated' /\ EnabledHandlers'
  BY <1>1, <1>2, <1>3 DEF Deactivated, Draining, EnabledHandlers
<1>12. AnswersOwn'
  BY <1>1 DEF SerialInv, AnswersOwn, Outstanding
<1>13. ResumesAfterDrain'
  BY <1>1, <1>3, OpenHandlers, ResumeKept
<1> QED
  BY <1>5, <1>6, <1>7, <1>8, <1>9, <1>10, <1>11, <1>12, <1>13 DEF SerialInv

\* Completing the task in hand, which is no longer queued: what FailTimedOutTask
\* and RejectTask have in common.
LEMMA CompleteInHand ==
  ASSUME SerialCallers, SerialInv, TypeOK', NEW t \in Tasks, CompleteTask(t),
         workloop.pc \in {"fail", "reject"}, workloop.tag = t,
         workloop'.pc \in {"idle", "drain"},
         UNCHANGED <<caller, tmfs>>
  PROVE  /\ CallersAway' /\ QueueLinked' /\ QueueLive' /\ TaskStaysQueued'
         /\ PopsOwnHead' /\ HoldsOneTask'
         /\ armed' = {}
         /\ \A u \in Tasks : use'[u] = use[u]
         /\ \A u \in Tasks : scsi'[u] = IF u = t THEN "free" ELSE scsi[u]
         /\ \A u \in Tasks : sent'[u] = 0
         /\ newTask' <=> newTask \/ (taskQueue = <<>> /\ taskQueue' # <<>>)
         /\ taskQueue # <<>> => /\ taskQueue' # <<>> /\ taskQueue'[1] = taskQueue[1]
                                /\ taskQueue[1].tag # t
         /\ taskQueue = <<>> /\ taskQueue' # <<>> => taskQueue'[1].tag = Latency
<1>1. /\ QueueLinked'
      /\ taskQueue' \in Seq(Node)
      /\ Len(taskQueue) <= Len(taskQueue')
      /\ \A i \in 1 .. Len(taskQueue) : taskQueue'[i] = taskQueue[i]
      /\ \A i \in 1 .. Len(taskQueue') :
           i \in 1 .. Len(taskQueue) \/ taskQueue'[i].tag = Latency
      /\ newTask' <=> newTask \/ (taskQueue = <<>> /\ taskQueue' # <<>>)
      /\ \A u \in Tasks : use'[u] = use[u]
      /\ \A u \in Tasks : scsi'[u] = IF u = t THEN "free" ELSE scsi[u]
      /\ \A u \in Tasks : sent'[u] = IF u = t THEN 0 ELSE sent[u]
      /\ armed' = armed \ {t}
  BY CompleteTaskEffect DEF SerialInv
<1>2. /\ Len(taskQueue) \in Nat
      /\ DOMAIN taskQueue = 1 .. Len(taskQueue)
      /\ taskQueue # <<>> <=> Len(taskQueue) # 0
      /\ DOMAIN taskQueue' = 1 .. Len(taskQueue')
      /\ Len(taskQueue') \in Nat
      /\ taskQueue' # <<>> <=> Len(taskQueue') # 0
  BY <1>1, SerialFacts, QueueDomain
<1>3. InHand(t) /\ \A u : ~InHand(u)'
  BY DEF InHand, SerialInv, HoldsOneTask
<1>4. \A i \in 1 .. Len(taskQueue) : taskQueue[i].tag # t
  BY <1>2, <1>3, SerialFacts DEF SerialInv, HoldsOneTask
<1>5. \A i \in 1 .. Len(taskQueue) : Live(taskQueue[i])
  BY <1>2 DEF SerialInv, QueueLive
<1>6. armed' = {} /\ \A u \in Tasks : sent'[u] = 0
  BY <1>1 DEF SerialInv, OneInService
<1>7. CallersAway'
  BY DEF SerialInv, CallersAway
<1>8. QueueLive'
  <2> SUFFICES ASSUME NEW i \in 1 .. Len(taskQueue')
               PROVE  Live(taskQueue[i])'
    BY <1>2 DEF QueueLive
  <2>1. CASE i \in 1 .. Len(taskQueue)
    <3>1. taskQueue'[i] = taskQueue[i] /\ taskQueue[i].tag # t /\ Live(taskQueue[i])
      BY <1>1, <1>4, <1>5, <2>1
    <3> QED
      BY <1>1, <3>1 DEF Live
  <2>2. CASE taskQueue'[i].tag = Latency
    BY <2>2, SerialFacts DEF Live
  <2> QED
    BY <1>1, <2>1, <2>2
<1>9. TaskStaysQueued'
  <2> SUFFICES ASSUME NEW u \in Tasks, Outstanding(u)'
               PROVE  (\E i \in DOMAIN taskQueue : taskQueue[i] = [tag |-> u, use |-> use[u]])'
    BY DEF TaskStaysQueued, Draining
  <2>1. u # t /\ Outstanding(u)
    BY <1>1 DEF Outstanding
  <2>2. enabled \/ Draining
    BY DEF SerialInv, Deactivated, Draining
  <2>3. PICK i \in DOMAIN taskQueue : taskQueue[i] = [tag |-> u, use |-> use[u]]
    BY <2>1, <2>2 DEF SerialInv, TaskStaysQueued, CallersAway, InHand
  <2>4. i \in DOMAIN taskQueue' /\ taskQueue'[i] = taskQueue[i]
    BY <1>1, <1>2, <2>3
  <2> QED
    BY <1>1, <2>3, <2>4
<1>10. PopsOwnHead' /\ HoldsOneTask'
  BY <1>3 DEF PopsOwnHead, HoldsOneTask
<1>11. taskQueue # <<>> => /\ taskQueue' # <<>> /\ taskQueue'[1] = taskQueue[1]
                           /\ taskQueue[1].tag # t
  BY <1>1, <1>2, <1>4
<1>12. taskQueue = <<>> /\ taskQueue' # <<>> => taskQueue'[1].tag = Latency
  BY <1>1, <1>2
<1> QED
  BY <1>1, <1>6, <1>7, <1>8, <1>9, <1>10, <1>11, <1>12

\* HandleTimeout fails the task it has just removed.
LEMMA SerialFail ==
  ASSUME SerialCallers, SerialInv, FailTimedOutTask, TypeOK'
  PROVE  SerialInv'
<1> DEFINE t == workloop.tag
<1>1. /\ workloop.pc = "fail" /\ workloop'.pc = "idle"
      /\ CompleteTask(t)
      /\ UNCHANGED <<enabled, resume, caller, atTarget, pings, tmfs>>
      /\ t \in Tasks /\ t \in armed
  BY DEF FailTimedOutTask, Idle, targetVars, SerialInv, TypeOK, HoldsOneTask
<1>2. /\ CallersAway' /\ QueueLinked' /\ QueueLive' /\ TaskStaysQueued'
      /\ PopsOwnHead' /\ HoldsOneTask'
      /\ armed' = {}
      /\ \A u \in Tasks : use'[u] = use[u]
      /\ \A u \in Tasks : scsi'[u] = IF u = t THEN "free" ELSE scsi[u]
      /\ \A u \in Tasks : sent'[u] = 0
      /\ newTask' <=> newTask \/ (taskQueue = <<>> /\ taskQueue' # <<>>)
      /\ taskQueue # <<>> => /\ taskQueue' # <<>> /\ taskQueue'[1] = taskQueue[1]
                             /\ taskQueue[1].tag # t
      /\ taskQueue = <<>> /\ taskQueue' # <<>> => taskQueue'[1].tag = Latency
  <2> HIDE DEF t
  <2>1. workloop.tag = t
    BY DEF t
  <2> QED
    BY <1>1, <2>1, CompleteInHand
<1>3. enabled /\ ~(pings > 0) /\ armed \subseteq {t}
  BY <1>1 DEF SerialInv, Deactivated, Draining, OneInService
<1>4. OneInService'
  BY <1>1, <1>2, <1>3 DEF OneInService, InFlightIsHead
<1>5. WakeupDue'
  <2> SUFFICES ASSUME taskQueue' # <<>>
               PROVE  newTask' /\ ~InService(taskQueue[1])'
    BY DEF WakeupDue
  <2>1. ~InService(taskQueue[1])'
    BY <1>1, <1>2, <1>3 DEF InService
  <2>2. CASE taskQueue = <<>>
    BY <1>2, <2>1, <2>2
  <2>3. CASE taskQueue # <<>>
    <3>1. ~InService(taskQueue[1])
      BY <1>2, <1>3, <2>3 DEF InService
    <3>2. newTask
      BY <1>1, <1>3, <2>3, <3>1 DEF SerialInv, WakeupDue
    <3> QED
      BY <1>2, <2>1, <3>2
  <2> QED
    BY <2>2, <2>3
<1>6. Deactivated' /\ EnabledHandlers'
  BY <1>1, <1>3 DEF Deactivated, Draining, EnabledHandlers
<1>7. AnswersOwn'
  <2>1. \A c \in atTarget : c.tag \in Tasks
    BY DEF SerialInv, TypeOK, Command
  <2> QED
    BY <1>1, <1>2, <1>3, <2>1 DEF SerialInv, AnswersOwn, Outstanding
<1>8. ResumesAfterDrain'
  BY <1>1, <1>3, OpenHandlers, ResumeKept
<1> QED
  BY <1>2, <1>4, <1>5, <1>6, <1>7, <1>8 DEF SerialInv

\* The body of the drain loop hands back the task it has just removed.
LEMMA SerialReject ==
  ASSUME SerialCallers, SerialInv, RejectTask, TypeOK'
  PROVE  SerialInv'
<1> DEFINE t == workloop.tag
<1>1. /\ workloop.pc = "reject" /\ workloop'.pc = "drain"
      /\ UNCHANGED <<enabled, caller, atTarget, pings, tmfs>>
      /\ t \in Tags
      /\ ~enabled
  BY DEF RejectTask, targetVars, SerialInv, TypeOK, EnabledHandlers
<1>2. WakeupDue' /\ Deactivated' /\ EnabledHandlers'
  BY <1>1 DEF WakeupDue, Deactivated, Draining, EnabledHandlers
<1>3. CASE t # Latency
  <2>1. t \in Tasks /\ CompleteTask(t)
    BY <1>1, <1>3 DEF RejectTask, SerialInv, HoldsOneTask, Tags
  <2>2. /\ CallersAway' /\ QueueLinked' /\ QueueLive' /\ TaskStaysQueued'
        /\ PopsOwnHead' /\ HoldsOneTask'
        /\ armed' = {}
        /\ \A u \in Tasks : use'[u] = use[u]
        /\ \A u \in Tasks : scsi'[u] = IF u = t THEN "free" ELSE scsi[u]
        /\ \A u \in Tasks : sent'[u] = 0
    <3> HIDE DEF t
    <3>1. workloop.tag = t
      BY DEF t
    <3> QED
      BY <1>1, <2>1, <3>1, CompleteInHand
  <2>3. OneInService'
    BY <1>1, <2>2 DEF OneInService, InFlightIsHead
  <2>4. AnswersOwn'
    <3>1. armed' = armed \ {t}
      BY <2>1 DEF CompleteTask
    <3>2. \A c \in atTarget : c.tag \in Tasks
      BY DEF SerialInv, TypeOK, Command
    <3> HIDE DEF t
    <3> QED
      BY <1>1, <2>2, <3>1, <3>2 DEF SerialInv, AnswersOwn, Outstanding
  <2>5. ResumesAfterDrain'
    <3>1. resume \in ResumeState /\ (resume.pc = "dataIn" => Outstanding(resume.tag))
      BY DEF SerialInv, TypeOK, ResumesAfterDrain
    <3>2. Outstanding(t)
      BY <1>1, <2>1 DEF SerialInv, HoldsOneTask
    <3>3. resume' = IF resume = [pc |-> "dataIn", tag |-> t]
                    THEN [resume EXCEPT !.pc = "stale"] ELSE resume
      BY <1>3, <3>2 DEF RejectTask
    <3>4. (resume.pc = "dataIn" => Outstanding(resume.tag))'
      <4>1. CASE resume = [pc |-> "dataIn", tag |-> t]
        BY <3>3, <4>1
      <4>2. CASE resume # [pc |-> "dataIn", tag |-> t]
        <5>1. resume.pc = "dataIn" => resume.tag \in Tasks /\ resume.tag # t
          BY <3>1, <4>2 DEF ResumeState, Idle
        <5> QED
          BY <2>2, <3>1, <3>3, <4>2, <5>1 DEF Outstanding
      <4> QED
        BY <4>1, <4>2
    <3> QED
      BY <1>1, <3>4 DEF ResumesAfterDrain, Draining
  <2> QED
    BY <1>2, <2>2, <2>3, <2>4, <2>5 DEF SerialInv
<1>4. CASE t = Latency
  <2>1. UNCHANGED <<resume, taskQueue, tail, newTask, scsi, use, sent, armed>>
    BY <1>4 DEF RejectTask, queueVars, stackVars
  <2>2. /\ \A u \in Tasks : ~InHand(u)
        /\ \A u : ~InHand(u)'
        /\ armed = {}
    BY <1>1, <1>4, SerialFacts DEF InHand, SerialInv, OneInService
  <2>3. CallersAway' /\ QueueLinked' /\ QueueLive'
    BY <1>1, <2>1 DEF SerialInv, CallersAway, QueueLinked, QueueLive, Live
  <2>4. TaskStaysQueued'
    BY <1>1, <2>1, <2>2 DEF SerialInv, TaskStaysQueued, Draining, Outstanding
  <2>5. PopsOwnHead' /\ HoldsOneTask'
    BY <1>1, <2>2 DEF PopsOwnHead, HoldsOneTask
  <2>6. OneInService'
    BY <1>1, <2>1, <2>2 DEF SerialInv, OneInService, InFlightIsHead
  <2>7. AnswersOwn'
    BY <1>1, <2>1 DEF SerialInv, AnswersOwn, Outstanding
  <2>8. ResumesAfterDrain'
    BY <1>1, <2>1 DEF SerialInv, ResumesAfterDrain, Draining, Outstanding
  <2> QED
    BY <1>2, <2>3, <2>4, <2>5, <2>6, <2>7, <2>8 DEF SerialInv
<1> QED
  BY <1>3, <1>4

\* The drain loop removes the head, or ends on an empty queue.
LEMMA SerialDrain ==
  ASSUME SerialCallers, SerialInv, DrainTask, TypeOK'
  PROVE  SerialInv'
<1>1. /\ workloop.pc = "drain"
      /\ UNCHANGED <<enabled, caller, scsi, use, sent, armed, atTarget, pings, tmfs>>
      /\ ~enabled
  BY DEF DrainTask, stackVars, targetVars, SerialInv, EnabledHandlers
<1>2. \A u : ~InHand(u)
  BY <1>1 DEF InHand
<1>3. CallersAway' /\ AnswersOwn'
  BY <1>1 DEF SerialInv, CallersAway, AnswersOwn, Outstanding
<1>4. CASE taskQueue = <<>>
  <2>1. UNCHANGED <<taskQueue, tail, newTask>> /\ workloop' = resume /\ resume' = Idle
    BY <1>1, <1>4 DEF DrainTask, DrainEnds, queueVars
  <2>2. \A u \in Tasks : ~Outstanding(u)
    BY <1>1, <1>2, <1>4, SerialFacts DEF SerialInv, TaskStaysQueued, Draining, CallersAway
  <2>3. workloop'.pc \in {"idle", "lookUp", "stale"}
    <3>1. resume.pc = "dataIn" => resume.tag \in Tasks /\ Outstanding(resume.tag)
      BY DEF SerialInv, TypeOK, ResumesAfterDrain, ResumeState, Idle
    <3> QED
      BY <2>1, <2>2, <3>1 DEF SerialInv, TypeOK, ResumeState, Idle
  <2>4. armed = {}
    BY <1>2, <1>4, SerialFacts DEF SerialInv, OneInService, InFlightIsHead
  <2>5. QueueLinked' /\ QueueLive'
    BY <1>1, <1>4, <2>1 DEF SerialInv, QueueLinked, QueueLive
  <2>6. TaskStaysQueued' /\ PopsOwnHead' /\ HoldsOneTask' /\ OneInService'
    BY <1>1, <1>4, <2>1, <2>3, <2>4
    DEF SerialInv, TaskStaysQueued, Draining, PopsOwnHead, HoldsOneTask, InHand,
        OneInService, InFlightIsHead
  <2>7. WakeupDue' /\ Deactivated' /\ EnabledHandlers' /\ ResumesAfterDrain'
    BY <1>1, <2>1, <2>2, <2>3, <2>4
    DEF WakeupDue, Deactivated, EnabledHandlers, Draining, ResumesAfterDrain, Outstanding, Idle
  <2> QED
    BY <1>3, <2>5, <2>6, <2>7 DEF SerialInv
<1>5. CASE taskQueue # <<>>
  <2> DEFINE t == taskQueue[1].tag
  <2>1. /\ Len(taskQueue) \in Nat \ {0}
        /\ DOMAIN taskQueue = 1 .. Len(taskQueue)
        /\ taskQueue[1] \in Node /\ t \in Tags
    BY <1>5, SerialFacts
  <2>2. RemoveFirst /\ workloop'.pc = "reject" /\ workloop'.tag = t /\ resume' = resume
    BY <1>1, <1>5, <2>1 DEF DrainTask, SerialCallers
  <2>3. /\ QueueLinked'
        /\ taskQueue' \in Seq(Node)
        /\ Len(taskQueue') = Len(taskQueue) - 1
        /\ \A i \in 1 .. Len(taskQueue) - 1 : taskQueue'[i] = taskQueue[i + 1]
    BY <1>1, <1>5, <2>2, Dequeue DEF SerialInv
  <2>4. DOMAIN taskQueue' = 1 .. Len(taskQueue) - 1
    BY <2>3, QueueDomain
  <2>5. \A i \in 1 .. Len(taskQueue) : Live(taskQueue[i])
    BY <1>1, <2>1 DEF SerialInv, QueueLive
  <2>6. t \in Tasks => \A i \in 2 .. Len(taskQueue) : taskQueue[i].tag # t
    BY <1>5, <2>1, <2>5, LiveHeadIsAlone DEF SerialInv
  <2>7. \A i \in 1 .. Len(taskQueue) - 1 : i + 1 \in 2 .. Len(taskQueue)
    BY <2>1
  <2>8. \A u : InHand(u)' <=> u = t
    BY <2>2 DEF InHand
  <2>9. QueueLive'
    <3> SUFFICES ASSUME NEW i \in 1 .. Len(taskQueue) - 1
                 PROVE  Live(taskQueue[i])'
      BY <2>4 DEF QueueLive
    <3>1. taskQueue'[i] = taskQueue[i + 1] /\ Live(taskQueue[i + 1])
      BY <2>1, <2>3, <2>5, <2>7
    <3> QED
      BY <1>1, <3>1 DEF Live
  <2>10. TaskStaysQueued'
    <3> SUFFICES ASSUME NEW u \in Tasks, Outstanding(u)', u # t
                 PROVE  (\E i \in DOMAIN taskQueue : taskQueue[i] = [tag |-> u, use |-> use[u]])'
      BY <2>8 DEF TaskStaysQueued, Draining
    <3>1. PICK i \in DOMAIN taskQueue : taskQueue[i] = [tag |-> u, use |-> use[u]]
      BY <1>1, <1>2 DEF SerialInv, TaskStaysQueued, Draining, CallersAway, Outstanding
    <3>2. i # 1
      BY <3>1
    <3>3. i - 1 \in 1 .. Len(taskQueue) - 1 /\ (i - 1) + 1 = i
      BY <2>1, <3>2
    <3>4. taskQueue'[i - 1] = taskQueue[i]
      BY <2>3, <3>3
    <3> QED
      BY <1>1, <2>4, <3>1, <3>3, <3>4
  <2>11. PopsOwnHead'
    BY <2>2 DEF PopsOwnHead
  <2>12. HoldsOneTask'
    <3>1. (workloop.tag \in Tasks => Outstanding(workloop.tag))'
      <4>1. t \in Tasks => scsi[t] = "active"
        BY <2>1, <2>5 DEF Live
      <4> QED
        BY <1>1, <2>2, <4>1 DEF Outstanding
    <3>2. (\A i \in DOMAIN taskQueue : ~InHand(taskQueue[i].tag) \/ taskQueue[i].tag = Latency)'
      <4> SUFFICES ASSUME NEW i \in 1 .. Len(taskQueue) - 1, taskQueue'[i].tag = t
                   PROVE  t = Latency
        BY <2>4, <2>8
      <4>1. i + 1 \in 2 .. Len(taskQueue) /\ taskQueue[i + 1].tag = t
        BY <2>3, <2>7
      <4> QED
        BY <2>1, <2>6, <4>1 DEF Tags
    <3> QED
      BY <2>2, <3>1, <3>2 DEF HoldsOneTask
  <2>13. OneInService'
    <3>1. armed \subseteq {t}
      BY <1>2, <1>5, SerialFacts DEF SerialInv, OneInService, InFlightIsHead
    <3>2. InFlightIsHead'
      BY <1>1, <2>8, <3>1 DEF InFlightIsHead
    <3> QED
      BY <1>1, <2>2, <3>1, <3>2 DEF SerialInv, OneInService, Outstanding
  <2>14. WakeupDue' /\ Deactivated' /\ EnabledHandlers'
    BY <1>1, <2>2 DEF WakeupDue, Deactivated, Draining, EnabledHandlers
  <2>15. ResumesAfterDrain'
    BY <1>1, <2>2 DEF SerialInv, ResumesAfterDrain, Draining, Outstanding
  <2> QED
    BY <1>3, <2>3, <2>9, <2>10, <2>11, <2>12, <2>13, <2>14, <2>15 DEF SerialInv
<1> QED
  BY <1>4, <1>5

\* What a handler does after its own receive has closed the connection: nothing
\* is in service, so that only the queue has to be looked at.
LEMMA SerialAfterDrain ==
  ASSUME SerialCallers, SerialInv, TypeOK', ~enabled, ~Draining, UNCHANGED enabled,
         workloop'.pc \in {"idle", "pop", "signal"}, UNCHANGED resume,
         QueueLinked', QueueLive', \A u \in Tasks : use'[u] = use[u],
         UNCHANGED <<caller, scsi, sent, armed, atTarget, pings, tmfs>>
  PROVE  SerialInv'
<1>1. armed = {}
  BY DEF SerialInv, Deactivated
<1>2. CallersAway' /\ TaskStaysQueued' /\ PopsOwnHead'
  BY DEF SerialInv, CallersAway, TaskStaysQueued, Draining, PopsOwnHead
<1>3. HoldsOneTask'
  BY <1>1 DEF HoldsOneTask, InHand
<1>4. OneInService'
  BY <1>1 DEF SerialInv, OneInService, InFlightIsHead
<1>5. WakeupDue' /\ Deactivated' /\ EnabledHandlers'
  BY <1>1 DEF WakeupDue, Deactivated, EnabledHandlers
<1>6. AnswersOwn'
  <2>1. \A c \in atTarget : c.tag \in Tasks
    BY DEF SerialInv, TypeOK, Command
  <2> QED
    BY <2>1 DEF SerialInv, AnswersOwn, Outstanding
<1>7. ResumesAfterDrain'
  BY ResumeKept
<1> QED
  BY <1>2, <1>3, <1>4, <1>5, <1>6, <1>7 DEF SerialInv

\* ProcessSCSIResponse finds no task after the drain.
LEMMA SerialResumeResponse ==
  ASSUME SerialCallers, SerialInv, ResumeResponse, TypeOK'
  PROVE  SerialInv'
<1>1. /\ workloop.pc = "lookUp" /\ ~enabled /\ ~Draining
      /\ workloop.tag \in Tasks
      /\ \A u \in Tasks : ~Outstanding(u)
      /\ armed = {} /\ resume = Idle
  BY DEF ResumeResponse, SerialInv, TypeOK, EnabledHandlers, Deactivated, Draining,
         ResumesAfterDrain
<1>2. /\ StartDrain(Idle) \/ (workloop' = Idle /\ UNCHANGED <<enabled, resume>>)
      /\ UNCHANGED <<taskQueue, tail, newTask, scsi, use, sent, armed, caller,
                     atTarget, pings, tmfs>>
  BY <1>1 DEF ResumeResponse, queueVars, stackVars, targetVars
<1>3. QueueLinked' /\ QueueLive'
  BY <1>1, <1>2 DEF SerialInv, QueueLinked, QueueLive, Live
<1>4. CASE workloop' = Idle /\ UNCHANGED <<enabled, resume>>
  <2>1. workloop'.pc \in {"idle", "pop", "signal"}
    BY <1>4 DEF Idle
  <2> QED
    BY <1>1, <1>2, <1>3, <1>4, <2>1, SerialAfterDrain
<1>5. CASE StartDrain(Idle)
  <2>1. workloop'.pc = "drain" /\ ~enabled' /\ resume' = Idle
    BY <1>5 DEF StartDrain
  <2>2. CallersAway' /\ TaskStaysQueued' /\ PopsOwnHead' /\ HoldsOneTask'
    BY <1>1, <1>2, <2>1
    DEF SerialInv, CallersAway, TaskStaysQueued, Outstanding, PopsOwnHead, HoldsOneTask, InHand
  <2>3. OneInService'
    BY <1>1, <1>2, <2>1 DEF SerialInv, OneInService, InFlightIsHead
  <2>4. WakeupDue' /\ Deactivated' /\ EnabledHandlers' /\ ResumesAfterDrain'
    BY <2>1 DEF WakeupDue, Deactivated, EnabledHandlers, Draining, ResumesAfterDrain, Idle
  <2>5. AnswersOwn'
    BY <1>2 DEF SerialInv, AnswersOwn, Outstanding
  <2> QED
    BY <1>3, <2>2, <2>3, <2>4, <2>5 DEF SerialInv
<1> QED
  BY <1>2, <1>4, <1>5

\* ProcessDataIn completes a task that the drain has handed back: no task is left
\* that could suffer, but a measurement may be queued.
LEMMA SerialResumeDataIn ==
  ASSUME SerialCallers, SerialInv, ResumeDataIn, TypeOK'
  PROVE  SerialInv'
<1> DEFINE t == workloop.tag
<1>1. /\ workloop.pc = "stale" /\ ~enabled /\ ~Draining
      /\ t \in Tasks
      /\ \A u \in Tasks : ~Outstanding(u)
  BY DEF ResumeDataIn, SerialInv, TypeOK, EnabledHandlers, Draining, ResumesAfterDrain
<1>2. /\ MeasureTransfer(t)
      /\ workloop'.pc = "pop"
      /\ UNCHANGED <<enabled, resume, caller, scsi, sent, armed, atTarget, pings, tmfs>>
  BY <1>1 DEF ResumeDataIn, CompleteAgain, targetVars, SerialInv, TypeOK, WorkloopState
<1>3. /\ QueueLinked'
      /\ taskQueue' \in Seq(Node)
      /\ \A i \in 1 .. Len(taskQueue) : taskQueue'[i] = taskQueue[i]
      /\ \A i \in 1 .. Len(taskQueue') :
           i \in 1 .. Len(taskQueue) \/ taskQueue'[i].tag = Latency
      /\ \A u \in Tasks : use'[u] = use[u]
  <2> HIDE DEF t
  <2> QED
    BY <1>1, <1>2, MeasureTransferEffect DEF SerialInv
<1>4. QueueLive'
  <2>1. DOMAIN taskQueue' = 1 .. Len(taskQueue')
    BY <1>3, QueueDomain
  <2> SUFFICES ASSUME NEW i \in 1 .. Len(taskQueue')
               PROVE  Live(taskQueue[i])'
    BY <2>1 DEF QueueLive
  <2>2. CASE i \in 1 .. Len(taskQueue)
    <3>1. taskQueue'[i] = taskQueue[i] /\ Live(taskQueue[i])
      BY <1>1, <1>3, <2>2, SerialFacts DEF SerialInv, QueueLive
    <3> QED
      BY <1>2, <1>3, <3>1 DEF Live
  <2>3. CASE taskQueue'[i].tag = Latency
    BY <2>3, SerialFacts DEF Live
  <2> QED
    BY <1>3, <2>2, <2>3
<1> QED
  BY <1>1, <1>2, <1>3, <1>4, SerialAfterDrain

\* completeCurrentTask on a closed connection removes whatever is at the head.
LEMMA SerialPopClosed ==
  ASSUME SerialCallers, SerialInv, ~enabled, PopTask, TypeOK'
  PROVE  SerialInv'
<1>1. /\ workloop.pc = "pop" /\ ~Draining /\ armed = {}
      /\ UNCHANGED <<enabled, resume, caller, scsi, use, sent, armed, atTarget, pings, tmfs>>
  BY DEF PopTask, stackVars, targetVars, SerialInv, Deactivated, Draining
<1>2. CASE taskQueue = <<>>
  <2>1. UNCHANGED <<taskQueue, tail>> /\ workloop'.pc = "idle"
    BY <1>1, <1>2 DEF PopTask, AfterPop, Idle, queueVars
  <2>2. QueueLinked' /\ QueueLive'
    BY <1>2, <2>1, <1>1 DEF SerialInv, QueueLinked, QueueLive
  <2> QED
    BY <1>1, <2>1, <2>2, SerialAfterDrain
<1>3. CASE taskQueue # <<>>
  <2>1. RemoveFirst /\ workloop'.pc = "signal"
    BY <1>3 DEF PopTask, SerialInv, TypeOK, WorkloopState
  <2>2. /\ QueueLinked'
        /\ taskQueue' \in Seq(Node)
        /\ Len(taskQueue') = Len(taskQueue) - 1
        /\ \A i \in 1 .. Len(taskQueue) - 1 : taskQueue'[i] = taskQueue[i + 1]
    BY <1>1, <1>3, <2>1, Dequeue DEF SerialInv
  <2>3. /\ DOMAIN taskQueue' = 1 .. Len(taskQueue) - 1
        /\ Len(taskQueue) \in Nat
    BY <2>2, QueueDomain, SerialFacts
  <2>4. QueueLive'
    <3> SUFFICES ASSUME NEW i \in 1 .. Len(taskQueue) - 1
                 PROVE  Live(taskQueue[i])'
      BY <2>3 DEF QueueLive
    <3>1. i + 1 \in 1 .. Len(taskQueue) /\ i + 1 # 1
      BY <2>3
    <3>2. taskQueue'[i] = taskQueue[i + 1] /\ Live(taskQueue[i + 1])
      BY <2>2, <3>1, SerialFacts DEF SerialInv, QueueLive
    <3> QED
      BY <1>1, <3>2 DEF Live
  <2> QED
    BY <1>1, <2>1, <2>2, <2>4, SerialAfterDrain
<1> QED
  BY <1>2, <1>3

\* ... and wakes nobody, since the event source is disabled.
LEMMA SerialSignalClosed ==
  ASSUME SerialCallers, SerialInv, ~enabled, SignalNext, TypeOK'
  PROVE  SerialInv'
<1>1. /\ workloop.pc = "signal" /\ ~Draining /\ armed = {}
      /\ UNCHANGED <<taskQueue, tail, enabled, resume, caller, scsi, use, sent, armed,
                     atTarget, pings, tmfs>>
  BY DEF SignalNext, queueVars, stackVars, targetVars, SerialInv, Deactivated, Draining
<1>2. workloop'.pc = "idle"
  BY <1>1 DEF SignalNext, AfterPop, Idle
<1>3. QueueLinked' /\ QueueLive'
  BY <1>1 DEF SerialInv, QueueLinked, QueueLive, Live
<1> QED
  BY <1>1, <1>2, <1>3, SerialAfterDrain

-----------------------------------------------------------------------------
(* The theorems.                                                           *)

\* Every step of a connection with serialised callers preserves the invariant.
LEMMA SerialStep ==
  ASSUME SerialCallers, SerialInv, [Next]_vars
  PROVE  SerialInv'
<1>1. TypeOK'
  BY TypeStep DEF SerialInv
<1>2. \A t \in Tasks : t \notin OffThread /\ caller[t].pc = "done"
  BY DEF SerialCallers, SerialInv, CallersAway
<1>3. ASSUME NEW t \in Tasks, Submit(t)
      PROVE  SerialInv'
  BY <1>1, <1>2, <1>3, SerialSubmit DEF Submit, SubmitOffThread
<1>4. ASSUME NEW t \in Tasks, QueueTaskStep(t)
      PROVE  SerialInv'
  BY <1>2, <1>4
  DEF QueueTaskStep, QueueTaskCheck, QueueTaskEnter, QueueTaskLink, QueueTaskSignal
<1>5. ASSUME NEW t \in Tasks, HandleTimeout(t)
      PROVE  SerialInv'
  BY <1>1, <1>5, SerialTimeout
<1>6. CASE CheckForWork
  BY <1>1, <1>6, SerialCheckForWork
<1>7. ASSUME NEW c \in atTarget,
             ProcessSCSIResponse(c) \/ ReceiveFails(c) \/ ProcessEmptyDataIn(c)
      PROVE  SerialInv'
  BY <1>1, <1>7, SerialResponse, SerialReceiveFails, SerialEmptyDataIn
<1>8. CASE ProcessNOPIn
  BY <1>1, <1>8, SerialNOPIn
<1>9. CASE TaskMgmtRequest \/ ProcessTaskMgmtRsp
  BY <1>9 DEF TaskMgmtRequest, ProcessTaskMgmtRsp, SerialCallers, SerialInv, CallersAway, TypeOK
<1>10. CASE HandleConnectionTimeout
  BY <1>1, <1>10, SerialConnectionTimeout
<1>11. CASE HandlerStep
  BY <1>1, <1>11, SerialPop, SerialSignal, SerialPopClosed, SerialSignalClosed, SerialFail,
     SerialDrain, SerialReject, SerialResumeResponse, SerialResumeDataIn
  DEF HandlerStep
<1>12. CASE UNCHANGED vars
  <2>1. CallersAway' /\ QueueLinked' /\ QueueLive' /\ TaskStaysQueued'
    BY <1>12 DEF vars, SerialInv, CallersAway, QueueLinked, QueueLive, Live, TaskStaysQueued, Draining,
                 InHand, Outstanding
  <2>2. PopsOwnHead' /\ HoldsOneTask' /\ OneInService'
    BY <1>12 DEF vars, SerialInv, PopsOwnHead, Live, HoldsOneTask, OneInService,
                 InFlightIsHead, InHand, Outstanding
  <2>3. WakeupDue' /\ Deactivated' /\ EnabledHandlers' /\ AnswersOwn'
    BY <1>12 DEF vars, SerialInv, WakeupDue, InService, Deactivated, Draining, EnabledHandlers,
                 AnswersOwn, Outstanding
  <2>4. ResumesAfterDrain'
    BY <1>12 DEF vars, SerialInv, ResumesAfterDrain, Draining, Outstanding
  <2> QED
    BY <1>1, <2>1, <2>2, <2>3, <2>4 DEF SerialInv
<1> QED
  BY <1>3, <1>4, <1>5, <1>6, <1>7, <1>8, <1>9, <1>10, <1>11, <1>12 DEF Next

\* With serialised callers the queue, the task in service and the wakeup flag
\* stay in step, for any number of tasks (iSCSITaskQueue and its callers).
THEOREM SerialCorrect ==
  ASSUME SerialCallers
  PROVE  Spec => []SerialInv
<1>1. Init => SerialInv
  BY SerialInit
<1>2. SerialInv /\ [Next]_vars => SerialInv'
  BY SerialStep, SerialCallers
<1> QED
  BY <1>1, <1>2, PTL DEF Spec

\* Only the task at the head of the queue is at the target, and its command is
\* sent once (BeginTaskOnWorkloopThread).
THEOREM OneTaskAtATime ==
  ASSUME SerialCallers
  PROVE  Spec => [](InFlightIsHead /\ SentOnce)
<1>1. SerialInv => InFlightIsHead /\ SentOnce
  BY DEF SerialInv, OneInService, SentOnce
<1> QED
  BY <1>1, SerialCorrect, PTL

\* The queue never waits for a wakeup that nobody sends (queueTask,
\* completeCurrentTask, checkForWork).
THEOREM WakeupsArrive ==
  ASSUME SerialCallers
  PROVE  Spec => []NoLostWakeup
<1>1. SerialInv => NoLostWakeup
  BY DEF SerialInv, WakeupDue, NoLostWakeup, Quiet
<1> QED
  BY <1>1, SerialCorrect, PTL

\* A task the SCSI stack waits for is in the queue or in the workloop's hand
\* (ProcessParallelTask, completeCurrentTask).
THEOREM TasksStayQueued ==
  ASSUME SerialCallers
  PROVE  Spec => []TaskStaysQueued
<1>1. SerialInv => TaskStaysQueued
  BY DEF SerialInv
<1> QED
  BY <1>1, SerialCorrect, PTL

\* As long as the connection is open completeCurrentTask removes its caller's own
\* task.
THEOREM PopsAreOwn ==
  ASSUME SerialCallers
  PROVE  Spec => PopsOwnTask
<1>1. SerialInv /\ [Next]_vars =>
        [enabled /\ workloop.pc = "pop" /\ workloop'.pc = "signal"
           => taskQueue[1].tag = workloop.tag]_vars
  BY DEF SerialInv, PopsOwnHead
<1> QED
  BY <1>1, SerialCorrect, PTL DEF Spec, PopsOwnTask

\* The command a response answers belongs to the task the response completes
\* (ProcessSCSIResponse).
THEOREM StatusesAreOwn ==
  ASSUME SerialCallers
  PROVE  Spec => StatusIsOwn
<1>1. SerialInv /\ [Next]_vars =>
        [\A c \in atTarget : c \notin atTarget' /\ Outstanding(c.tag) /\ ~Outstanding(c.tag)'
                               => c.use = use[c.tag]]_vars
  BY DEF SerialInv, AnswersOwn
<1> QED
  BY <1>1, SerialCorrect, PTL DEF Spec, StatusIsOwn

\* When the drain loop of DeactivateConnection ends the SCSI stack waits for no
\* task of the connection, wherever its element was.
THEOREM DrainRejectsAll ==
  ASSUME SerialCallers
  PROVE  Spec => DeactivateRejectsAll
<1>1. SerialInv /\ [Next]_vars => [Draining /\ ~Draining' => \A t \in Tasks : ~Outstanding(t)']_vars
  <2> SUFFICES ASSUME SerialInv, Next, Draining, ~Draining', NEW t \in Tasks
               PROVE  ~Outstanding(t)'
    OBVIOUS
  <2>1. DrainTask
    <3>1. workloop.pc \in {"drain", "reject"} /\ workloop' # workloop
      BY DEF Draining
    <3>2. \A u \in Tasks : ~(Submit(u) \/ QueueTaskStep(u) \/ HandleTimeout(u))
      BY <3>1 DEF Submit, SubmitOnThread, SubmitOffThread, QueueTaskStep, QueueTaskCheck,
         QueueTaskEnter, QueueTaskLink, QueueTaskSignal, HandleTimeout
    <3>3. \A c \in atTarget :
             ~(ProcessSCSIResponse(c) \/ ReceiveFails(c) \/ ProcessEmptyDataIn(c))
      BY <3>1 DEF ProcessSCSIResponse, ReceiveFails, ProcessEmptyDataIn
    <3>4. ~CheckForWork /\ ~ProcessNOPIn /\ ~TaskMgmtRequest /\ ~ProcessTaskMgmtRsp
          /\ ~HandleConnectionTimeout
      BY <3>1
      DEF CheckForWork, ProcessNOPIn, TaskMgmtRequest, ProcessTaskMgmtRsp, HandleConnectionTimeout
    <3>5. ~PopTask /\ ~SignalNext /\ ~FailTimedOutTask /\ ~ResumeResponse /\ ~ResumeDataIn
      BY <3>1 DEF PopTask, SignalNext, FailTimedOutTask, ResumeResponse, ResumeDataIn
    <3>6. ~RejectTask
      BY DEF RejectTask, Draining
    <3> QED
      BY <3>2, <3>3, <3>4, <3>5, <3>6 DEF Next, HandlerStep
  <2>2. taskQueue # <<>> => taskQueue[1].tag \in Tags
    BY SerialFacts
  <2>3. taskQueue = <<>> /\ ~InHand(t)
    BY <2>1, <2>2, SerialCallers DEF DrainTask, SerialCallers, Draining, InHand
  <2>4. ~Outstanding(t)
    BY <2>3, SerialFacts DEF SerialInv, TaskStaysQueued, CallersAway
  <2> QED
    BY <2>1, <2>4 DEF DrainTask, stackVars, Outstanding
<1> QED
  BY <1>1, SerialCorrect, PTL DEF Spec, DeactivateRejectsAll

-----------------------------------------------------------------------------
(* The abstract queue: what the line is, and what each action does to it.  *)

\* The line is what the workloop has in hand, then the tasks in the queue.
LEMMA LineFacts ==
  ASSUME SerialInv
  PROVE  /\ Places \in SUBSET (1 .. Len(taskQueue))
         /\ \A i \in 1 .. Len(taskQueue) :
              i \in Places <=> taskQueue[i].tag \in Tasks /\ Live(taskQueue[i])
         /\ \A i \in Places : taskQueue[i].tag \in Tasks /\ Outstanding(taskQueue[i].tag)
         /\ TagsAt(taskQueue, Places) \in Seq(Tasks)
         /\ \A k \in 1 .. Len(TagsAt(taskQueue, Places)) :
              Outstanding(TagsAt(taskQueue, Places)[k])
         /\ line = Removed \o TagsAt(taskQueue, Places)
<1>1. Len(taskQueue) \in Nat /\ DOMAIN taskQueue = 1 .. Len(taskQueue)
  BY SerialFacts
<1>2. /\ Places \in SUBSET (1 .. Len(taskQueue))
      /\ \A i \in 1 .. Len(taskQueue) :
           i \in Places <=> taskQueue[i].tag \in Tasks /\ Live(taskQueue[i])
      /\ \A i \in Places : taskQueue[i].tag \in Tasks /\ Outstanding(taskQueue[i].tag)
  BY <1>1 DEF Places, Waiting, Live, Outstanding
<1>3. /\ TagsAt(taskQueue, Places) \in Seq(Tasks)
      /\ Len(TagsAt(taskQueue, Places)) = Cardinality(Places)
      /\ \A k \in 1 .. Cardinality(Places) :
           \E i \in Places : TagsAt(taskQueue, Places)[k] = taskQueue[i].tag
  <2> DEFINE n == Len(taskQueue)
  <2>1. n \in Nat /\ Places \in SUBSET (1 .. n) /\ \A i \in Places : taskQueue[i].tag \in Tasks
    BY <1>1, <1>2
  <2> HIDE DEF n
  <2>2. TagsAt(taskQueue, Places) \in Seq(Tasks)
    BY <2>1, TagsAtType
  <2>3. Len(TagsAt(taskQueue, Places)) = Cardinality(Places)
    BY <2>1, TagsAtType
  <2>4. \A k \in 1 .. Cardinality(Places) :
           \E i \in Places : TagsAt(taskQueue, Places)[k] = taskQueue[i].tag
    <3> TAKE k \in 1 .. Cardinality(Places)
    <3>1. PICK i \in Places : Rank(Places, i) = k
      BY <2>1, Ranks
    <3>2. TagsAt(taskQueue, Places)[Rank(Places, i)] = taskQueue[i].tag
      BY <2>1, TagsAtEntry
    <3> QED
      BY <3>1, <3>2
  <2> QED
    BY <2>2, <2>3, <2>4
<1>4. \A k \in 1 .. Len(TagsAt(taskQueue, Places)) :
        Outstanding(TagsAt(taskQueue, Places)[k])
  BY <1>2, <1>3
<1> QED
  BY <1>2, <1>3, <1>4 DEF line

\* With nothing in hand the line is the queue's.
LEMMA LineInQueue ==
  ASSUME SerialInv, Removed = <<>>
  PROVE  line = TagsAt(taskQueue, Places)
BY LineFacts

\* A head that waits is the first of the line.
LEMMA HeadIsFirst ==
  ASSUME SerialInv, taskQueue # <<>>, 1 \in Places
  PROVE  /\ Places \ {1} \in SUBSET (2 .. Len(taskQueue))
         /\ TagsAt(taskQueue, Places \ {1}) \in Seq(Tasks)
         /\ TagsAt(taskQueue, Places) =
              <<taskQueue[1].tag>> \o TagsAt(taskQueue, Places \ {1})
<1> DEFINE R == Places \ {1}
<1>1. Len(taskQueue) \in Nat
  BY SerialFacts
<1>2. R \in SUBSET (2 .. Len(taskQueue))
  BY <1>1, LineFacts
<1>3. \A i \in {1} \cup R : taskQueue[i].tag \in Tasks
  BY LineFacts
<1>4. Places = {1} \cup R
  OBVIOUS
<1>5. R \in SUBSET (1 .. Len(taskQueue))
  BY <1>1, <1>2
<1> HIDE DEF R
<1>6. TagsAt(taskQueue, R) \in Seq(Tasks)
  BY <1>1, <1>3, <1>5, TagsAtType
<1>7. TagsAt(taskQueue, {1} \cup R) = <<taskQueue[1].tag>> \o TagsAt(taskQueue, R)
  BY <1>1, <1>2, TagsAtFirst
<1> QED
  BY <1>2, <1>4, <1>6, <1>7 DEF R

\* Only in the handlers' second half does the workloop hold a removed task.
LEMMA NothingRemoved ==
  ASSUME workloop.pc \in {"idle", "pop", "drain"}
  PROVE  Removed = <<>>
BY DEF Removed, InHand

\* The line is the same while the tasks, the queue and the hand are.
LEMMA LineUnchanged ==
  ASSUME UNCHANGED <<taskQueue, scsi, use, Removed>>
  PROVE  line' = line
<1>1. Places' = Places
  BY DEF Places, Waiting
<1>2. TagsAt(taskQueue, Places)' = TagsAt(taskQueue, Places)
  BY <1>1 DEF TagsAt, Rank, Only
<1> QED
  BY <1>2 DEF line

\* What taking the head off the queue leaves of the line.
LEMMA LineAfterRemoval ==
  ASSUME SerialInv, taskQueue # <<>>, RemoveFirst, UNCHANGED <<scsi, use>>
  PROVE  line' = Removed' \o TagsAt(taskQueue, Places \ {1})
<1> DEFINE R == Places \ {1}
           n == Len(taskQueue)
           Q == Places'
<1>1. n \in Nat \ {0} /\ DOMAIN taskQueue = 1 .. n
  BY SerialFacts
<1>2. /\ DOMAIN taskQueue' = 1 .. n - 1
      /\ \A i \in 1 .. n - 1 : taskQueue'[i] = taskQueue[i + 1]
  <2>1. /\ taskQueue' \in Seq(Node)
        /\ Len(taskQueue') = Len(taskQueue) - 1
        /\ \A i \in 1 .. Len(taskQueue) - 1 : taskQueue'[i] = taskQueue[i + 1]
    BY Dequeue DEF SerialInv
  <2> QED
    BY <2>1, QueueDomain
<1>3. /\ Places \in SUBSET (1 .. n)
      /\ \A i \in Places : taskQueue[i].tag \in Tasks
      /\ TagsAt(taskQueue, Places) \in Seq(Tasks)
  BY LineFacts
<1>4. R \in SUBSET (2 .. n)
  BY <1>1, <1>3
<1>5. \A i \in 1 .. n - 1 : i \in Q <=> i + 1 \in R
  <2> TAKE i \in 1 .. n - 1
  <2>1. i + 1 \in 1 .. n /\ i + 1 # 1
    BY <1>1
  <2> QED
    BY <1>1, <1>2, <2>1 DEF Places, Waiting
<1>6. Q \in SUBSET (1 .. n - 1)
  BY <1>2 DEF Places
<1>7. \A i \in 1 .. n : i \in Q <=> i + 1 \in R
  <2> SUFFICES ASSUME NEW i \in 1 .. n, i = n
               PROVE  i \in Q <=> i + 1 \in R
    <3> HIDE DEF n, Q, R
    <3>1. \A i \in 1 .. n : i \in 1 .. n - 1 \/ i = n
      BY <1>1
    <3> QED
      BY <1>5, <3>1
  <2>1. n \notin 1 .. n - 1 /\ n + 1 \notin 2 .. n
    BY <1>1
  <2> HIDE DEF n, Q, R
  <2> QED
    BY <1>4, <1>6, <2>1
<1>8. \A i \in Q : taskQueue'[i].tag = taskQueue[i + 1].tag
  BY <1>2, <1>6
<1>9. Q \in SUBSET (1 .. n) /\ n \in Nat
  BY <1>1, <1>6
<1> DEFINE r == taskQueue'
<1> HIDE DEF R, n, Q
<1>10. TagsAt(taskQueue', Q) = TagsAt(taskQueue, R)
  <2>1. \A i \in Q : r[i].tag = taskQueue[i + 1].tag
    BY <1>8
  <2> HIDE DEF r
  <2>2. TagsAt(r, Q) = TagsAt(taskQueue, R)
    <3>1. n \in Nat
      BY <1>9
    <3>2. R \in SUBSET (2 .. n)
      BY <1>4
    <3>3. Q \in SUBSET (1 .. n)
      BY <1>9
    <3> QED
      BY <1>7, <2>1, <3>1, <3>2, <3>3, TagsAtShift
  <2> QED
    BY <2>2 DEF r
<1>11. line' = Removed' \o TagsAt(taskQueue, R)
  BY <1>10 DEF line, Q, TagsAt, Rank, Only
<1> QED
  BY <1>11 DEF R

\* Taking the head off the queue into the hand leaves the line alone.
LEMMA LineHandover ==
  ASSUME SerialInv, taskQueue # <<>>, RemoveFirst, UNCHANGED <<scsi, use>>,
         Removed = <<>>,
         Removed' = IF 1 \in Places THEN <<taskQueue[1].tag>> ELSE <<>>
  PROVE  line' = line
<1> DEFINE R == Places \ {1}
<1>1. line' = Removed' \o TagsAt(taskQueue, R)
  BY LineAfterRemoval
<1>2. TagsAt(taskQueue, Places) \in Seq(Tasks)
  BY LineFacts
<1> HIDE DEF R
<1>3. CASE 1 \in Places
  BY <1>1, <1>3, HeadIsFirst, LineInQueue DEF R
<1>4. CASE 1 \notin Places
  <2>1. R = Places
    BY <1>4 DEF R
  <2> QED
    BY <1>1, <1>2, <1>4, <2>1, LineInQueue
<1> QED
  BY <1>3, <1>4

\* Taking a head that waits off the queue, and not into the hand, drops the first
\* of the line.
LEMMA LineDropped ==
  ASSUME SerialInv, taskQueue # <<>>, RemoveFirst, UNCHANGED <<scsi, use>>,
         Removed = <<>>, Removed' = <<>>, 1 \in Places
  PROVE  line # <<>> /\ line' = Tail(line)
<1> DEFINE s == TagsAt(taskQueue, Places \ {1})
           t == taskQueue[1].tag
<1>1. s \in Seq(Tasks) /\ line = <<t>> \o s /\ t \in Tasks
  BY HeadIsFirst, LineInQueue, LineFacts
<1>2. line' = <<>> \o s
  BY LineAfterRemoval
<1> HIDE DEF s, t
<1> QED
  BY <1>1, <1>2

\* A measurement that is queued is not in the line.
LEMMA LineMeasured ==
  ASSUME SerialInv, NEW t \in Tasks, MeasureTransfer(t), UNCHANGED scsi,
         Removed = <<>>, Removed' = <<>>
  PROVE  line' = line
<1> DEFINE n == Len(taskQueue)
           Q == Places'
           s == TagsAt(taskQueue, Places)
           r == taskQueue'
<1>1. n \in Nat /\ DOMAIN taskQueue = 1 .. n /\ Latency \notin Tasks
  BY SerialFacts
<1>2. /\ Places \in SUBSET (1 .. n)
      /\ s \in Seq(Tasks)
      /\ line = s
  BY LineFacts, LineInQueue
<1>3. /\ r \in Seq(Node)
      /\ n <= Len(r)
      /\ \A i \in 1 .. n : r[i] = taskQueue[i]
      /\ \A i \in 1 .. Len(r) : i \in 1 .. n \/ r[i].tag = Latency
      /\ \A u \in Tasks : use'[u] = use[u]
  <2>1. TypeOK /\ QueueLinked
    BY DEF SerialInv
  <2> QED
    BY <2>1, MeasureTransferEffect
<1>4. DOMAIN r = 1 .. Len(r) /\ Len(r) \in Nat
  BY <1>3
<1>5. Q = Places
  <2>1. \A i \in 1 .. Len(r) : i \in Q => i \in 1 .. n
    BY <1>1, <1>3, <1>4 DEF Places, Waiting
  <2>2. \A i \in 1 .. n : i \in 1 .. Len(r)
    BY <1>1, <1>3, <1>4
  <2>3. \A i \in 1 .. n : i \in Q <=> i \in Places
    <3> SUFFICES ASSUME NEW i \in 1 .. n
                 PROVE  i \in Q <=> i \in Places
      OBVIOUS
    <3>1. r[i] = taskQueue[i] /\ i \in DOMAIN r /\ i \in DOMAIN taskQueue
      BY <1>1, <1>3, <1>4, <2>2
    <3> QED
      BY <1>3, <3>1 DEF Places, Waiting
  <2>4. Q \subseteq 1 .. Len(r)
    BY <1>4 DEF Places
  <2> QED
    BY <1>2, <2>1, <2>3, <2>4
<1>6. TagsAt(r, Places) = s
  <2>1. \A i \in Places : r[i].tag = taskQueue[i].tag
    BY <1>2, <1>3
  <2> HIDE DEF r
  <2> QED
    BY <2>1, TagsAtSame
<1>7. line' = Removed' \o TagsAt(r, Q)
  BY DEF line, TagsAt, Rank, Only
<1> HIDE DEF Q, r, s
<1> QED
  BY <1>2, <1>5, <1>6, <1>7

\* The line is a sequence of tasks the SCSI stack has outstanding.
LEMMA LineType ==
  ASSUME SerialInv
  PROVE  line \in Seq(Tasks) /\ \A k \in DOMAIN line : Outstanding(line[k])
<1> DEFINE s == TagsAt(taskQueue, Places)
<1>1. /\ s \in Seq(Tasks)
      /\ \A k \in 1 .. Len(s) : Outstanding(s[k])
      /\ line = Removed \o s
  BY LineFacts
<1> HIDE DEF s
<1>2. CASE Removed = <<>>
  <2>1. line = s
    BY <1>1, <1>2
  <2> QED
    BY <1>1, <2>1
<1>3. CASE Removed # <<>>
  <2> DEFINE t == workloop.tag
  <2>1. Removed = <<t>> /\ t \in Tasks /\ Outstanding(t)
    BY <1>3 DEF Removed, Outstanding
  <2> HIDE DEF t
  <2>2. line \in Seq(Tasks) /\ Len(line) = Len(s) + 1
    BY <1>1, <2>1
  <2>3. \A k \in 1 .. Len(s) + 1 : line[k] = IF k = 1 THEN t ELSE s[k - 1]
    BY <1>1, <2>1
  <2>4. \A k \in 1 .. Len(s) + 1 : k # 1 => k - 1 \in 1 .. Len(s)
    BY <1>1
  <2>5. DOMAIN line = 1 .. Len(s) + 1
    BY <2>2
  <2>6. \A k \in DOMAIN line : Outstanding(line[k])
    <3> SUFFICES ASSUME NEW k \in 1 .. Len(s) + 1
                 PROVE  Outstanding(line[k])
      BY <2>5
    <3> QED
      BY <1>1, <2>1, <2>3, <2>4
  <2> QED
    BY <2>2, <2>6
<1> QED
  BY <1>2, <1>3

\* Handing back the task at the head shortens the line by its first.
LEMMA LineHeadDone ==
  ASSUME SerialInv, taskQueue # <<>>, 1 \in Places, CompleteTask(taskQueue[1].tag),
         Removed = <<>>, Removed' = <<>>
  PROVE  line # <<>> /\ line[1] = taskQueue[1].tag /\ line' = Tail(line)
<1> DEFINE R == Places \ {1}
           n == Len(taskQueue)
           t == taskQueue[1].tag
           Q == Places'
           s == TagsAt(taskQueue, R)
           r == taskQueue'
<1>1. n \in Nat \ {0} /\ DOMAIN taskQueue = 1 .. n
  BY SerialFacts
<1>2. /\ t \in Tasks
      /\ Live(taskQueue[1])
      /\ Places \in SUBSET (1 .. n)
      /\ \A i \in Places : taskQueue[i].tag \in Tasks
  BY <1>1, LineFacts
<1>3. \A i \in 2 .. n : taskQueue[i].tag # t
  <2>1. TypeOK /\ QueueLinked /\ QueueLive
    BY DEF SerialInv
  <2> QED
    BY <1>2, <2>1, LiveHeadIsAlone
<1>4. /\ r \in Seq(Node)
      /\ n <= Len(r)
      /\ \A i \in 1 .. n : r[i] = taskQueue[i]
      /\ \A i \in 1 .. Len(r) : i \in 1 .. n \/ r[i].tag = Latency
      /\ \A u \in Tasks : use'[u] = use[u]
      /\ \A u \in Tasks : scsi'[u] = IF u = t THEN "free" ELSE scsi[u]
  <2> HIDE DEF t
  <2>1. TypeOK /\ QueueLinked /\ CompleteTask(t)
    BY DEF SerialInv, t
  <2> QED
    BY <1>2, <2>1, CompleteTaskEffect
<1>5. DOMAIN r = 1 .. Len(r) /\ Len(r) \in Nat /\ Latency \notin Tasks
  BY <1>4, SerialFacts
<1>6. Q = R
  <2>1. \A i \in 1 .. Len(r) : i \in Q => i \in 1 .. n
    BY <1>4, <1>5 DEF Places, Waiting
  <2>2. 1 \notin Q
    BY <1>1, <1>2, <1>4 DEF Places, Waiting
  <2>3. \A i \in 1 .. n : i # 1 => i \in 2 .. n
    BY <1>1
  <2>4. \A i \in 1 .. n : i \in 1 .. Len(r)
    BY <1>1, <1>4, <1>5
  <2>5. \A i \in 1 .. n : i # 1 => (i \in Q <=> i \in Places)
    <3> SUFFICES ASSUME NEW i \in 1 .. n, i # 1
                 PROVE  i \in Q <=> i \in Places
      OBVIOUS
    <3>1. r[i] = taskQueue[i] /\ taskQueue[i].tag # t /\ i \in DOMAIN r /\ i \in DOMAIN taskQueue
      BY <1>1, <1>3, <1>4, <1>5, <2>3, <2>4
    <3> QED
      BY <1>4, <3>1 DEF Places, Waiting
  <2>6. Q \subseteq 1 .. Len(r)
    BY <1>5 DEF Places
  <2> QED
    BY <1>2, <2>1, <2>2, <2>5, <2>6
<1>7. /\ R \in SUBSET (2 .. n) /\ R \in SUBSET (1 .. n)
      /\ s \in Seq(Tasks)
      /\ TagsAt(taskQueue, Places) = <<t>> \o s
  BY <1>1, <1>2, HeadIsFirst
<1>8. TagsAt(r, R) = s
  <2>1. \A i \in R : r[i].tag = taskQueue[i].tag
    BY <1>4, <1>7
  <2> HIDE DEF R, r
  <2> QED
    BY <2>1, TagsAtSame
<1>9. line' = s
  <2>1. line' = Removed' \o TagsAt(r, Q)
    BY DEF line, TagsAt, Rank, Only
  <2> HIDE DEF Q, r, s
  <2> QED
    BY <1>6, <1>7, <1>8, <2>1
<1>10. line = <<t>> \o s
  BY <1>7, LineInQueue
<1> HIDE DEF s
<1>11. line # <<>> /\ line[1] = t /\ Tail(line) = s
  BY <1>2, <1>7, <1>10
<1> QED
  BY <1>9, <1>11

\* Handing back the task in the workloop's hand shortens the line by its first.
LEMMA LineHandDone ==
  ASSUME SerialInv, NEW t \in Tasks, CompleteTask(t), InHand(t), Removed = <<t>>, Removed' = <<>>
  PROVE  line # <<>> /\ line[1] = t /\ line' = Tail(line)
<1> DEFINE n == Len(taskQueue)
           Q == Places'
           s == TagsAt(taskQueue, Places)
           r == taskQueue'
<1>1. n \in Nat /\ DOMAIN taskQueue = 1 .. n /\ Latency \notin Tasks
  BY SerialFacts
<1>2. /\ Places \in SUBSET (1 .. n)
      /\ \A i \in Places : taskQueue[i].tag \in Tasks
      /\ s \in Seq(Tasks)
      /\ line = <<t>> \o s
  BY LineFacts
<1>3. \A i \in 1 .. n : taskQueue[i].tag # t
  BY <1>1 DEF SerialInv, HoldsOneTask
<1>4. /\ r \in Seq(Node)
      /\ n <= Len(r)
      /\ \A i \in 1 .. n : r[i] = taskQueue[i]
      /\ \A i \in 1 .. Len(r) : i \in 1 .. n \/ r[i].tag = Latency
      /\ \A u \in Tasks : use'[u] = use[u]
      /\ \A u \in Tasks : scsi'[u] = IF u = t THEN "free" ELSE scsi[u]
  <2>1. TypeOK /\ QueueLinked
    BY DEF SerialInv
  <2> QED
    BY <2>1, CompleteTaskEffect
<1>5. DOMAIN r = 1 .. Len(r) /\ Len(r) \in Nat
  BY <1>4
<1>6. Q = Places
  <2>1. \A i \in 1 .. Len(r) : i \in Q => i \in 1 .. n
    BY <1>1, <1>4, <1>5 DEF Places, Waiting
  <2>2. \A i \in 1 .. n : i \in 1 .. Len(r)
    BY <1>1, <1>4, <1>5
  <2>3. \A i \in 1 .. n : i \in Q <=> i \in Places
    <3> SUFFICES ASSUME NEW i \in 1 .. n
                 PROVE  i \in Q <=> i \in Places
      OBVIOUS
    <3>1. r[i] = taskQueue[i] /\ taskQueue[i].tag # t /\ i \in DOMAIN r /\ i \in DOMAIN taskQueue
      BY <1>1, <1>3, <1>4, <1>5, <2>2
    <3> QED
      BY <1>4, <3>1 DEF Places, Waiting
  <2>4. Q \subseteq 1 .. Len(r)
    BY <1>5 DEF Places
  <2> QED
    BY <1>2, <2>1, <2>3, <2>4
<1>7. TagsAt(r, Places) = s
  <2>1. \A i \in Places : r[i].tag = taskQueue[i].tag
    BY <1>2, <1>4
  <2> HIDE DEF r
  <2> QED
    BY <2>1, TagsAtSame
<1>8. line' = s
  <2>1. line' = Removed' \o TagsAt(r, Q)
    BY DEF line, TagsAt, Rank, Only
  <2> HIDE DEF Q, r, s
  <2> QED
    BY <1>2, <1>6, <1>7, <2>1
<1> HIDE DEF s
<1>9. line # <<>> /\ line[1] = t /\ Tail(line) = s
  BY <1>2
<1> QED
  BY <1>8, <1>9

\* A task that is accepted goes to the end of the line.
LEMMA LineAccepts ==
  ASSUME SerialInv, NEW t \in Tasks, SubmitOnThread(t)
  PROVE  line' = Append(line, t)
<1> DEFINE m == [tag |-> t, use |-> use[t] + 1]
           n == Len(taskQueue)
           Q == Places'
           s == TagsAt(taskQueue, Places)
           r == taskQueue'
<1>1. /\ workloop' = workloop /\ armed' = armed
      /\ workloop.pc \in {"idle", "drain", "pop"}
      /\ scsi[t] # "active"
      /\ QueueTaskNow(m)
  BY DEF SubmitOnThread, StackOnThread, Issue, Outstanding
<1>2. Removed = <<>> /\ Removed' = <<>>
  BY <1>1 DEF Removed, InHand
<1>3. /\ \A u \in Tasks : scsi'[u] = IF u = t THEN "active" ELSE scsi[u]
      /\ \A u \in Tags : use'[u] = IF u = t THEN use[t] + 1 ELSE use[u]
      /\ use' \in [Tags -> Nat]
      /\ use[t] \in Nat
  BY DEF SubmitOnThread, Issue, SerialInv, TypeOK, Tags
<1>4. /\ r \in Seq(Node)
      /\ Len(r) = n + 1
      /\ \A i \in 1 .. n : r[i] = taskQueue[i]
      /\ r[n + 1] = m
  <2>1. /\ TypeOK /\ QueueLinked
        /\ m \in Node
        /\ m.use = use[m.tag] + 1
        /\ use'[m.tag] = m.use
        /\ \A u \in Tags : u # m.tag => use'[u] = use[u]
    BY <1>3 DEF SerialInv, Node, Tags
  <2> HIDE DEF m
  <2> QED
    BY <1>1, <1>3, <2>1, Enqueue
<1>5. /\ n \in Nat /\ DOMAIN taskQueue = 1 .. n
      /\ DOMAIN r = 1 .. n + 1
      /\ \A i \in 1 .. n : taskQueue[i].tag \in Tags /\ taskQueue[i].use \in Nat
                             /\ taskQueue[i].use <= use[taskQueue[i].tag]
  BY <1>4, SerialFacts
<1>6. /\ Places \in SUBSET (1 .. n)
      /\ \A i \in Places : taskQueue[i].tag \in Tasks
      /\ s \in Seq(Tasks)
      /\ line = s
  BY <1>2, LineFacts
<1>7. Q = Places \cup {n + 1}
  <2>1. \A i \in 1 .. n : i \in Q <=> i \in Places
    <3> SUFFICES ASSUME NEW i \in 1 .. n
                 PROVE  i \in Q <=> i \in Places
      OBVIOUS
    <3>1. r[i] = taskQueue[i] /\ i \in DOMAIN r /\ i \in DOMAIN taskQueue
      BY <1>4, <1>5
    <3>2. CASE taskQueue[i].tag = t
      <4>1. taskQueue[i].use # use[t] + 1
        BY <1>3, <1>5, <3>2
      <4> QED
        BY <1>1, <1>3, <3>1, <3>2, <4>1 DEF Places, Waiting, Tags
    <3>3. CASE taskQueue[i].tag # t
      BY <1>3, <3>1, <3>3 DEF Places, Waiting, Tags
    <3> QED
      BY <3>2, <3>3
  <2>2. n + 1 \in Q
    <3>1. n + 1 \in DOMAIN r
      BY <1>5
    <3> QED
      BY <1>3, <1>4, <3>1 DEF Places, Waiting, Tags
  <2>3. Q \subseteq 1 .. n + 1
    BY <1>5 DEF Places
  <2>4. \A i \in 1 .. n + 1 : i \in 1 .. n \/ i = n + 1
    BY <1>5
  <2> QED
    BY <1>6, <2>1, <2>2, <2>3, <2>4
<1>8. TagsAt(r, Places \cup {n + 1}) = Append(s, t)
  <2>1. (\A i \in Places : r[i].tag = taskQueue[i].tag) /\ r[n + 1].tag = t
    BY <1>4, <1>6
  <2>2. n \in Nat /\ Places \in SUBSET (1 .. n)
    BY <1>5, <1>6
  <2> HIDE DEF n, r
  <2>3. TagsAt(r, Places) = s
    BY <2>1, TagsAtSame
  <2>4. TagsAt(r, Places \cup {n + 1}) = Append(TagsAt(r, Places), r[n + 1].tag)
    BY <2>2, TagsAtAppend
  <2> QED
    BY <2>1, <2>3, <2>4
<1>9. line' = Append(s, t)
  <2>1. line' = Removed' \o TagsAt(r, Q)
    BY DEF line, TagsAt, Rank, Only
  <2>2. Append(s, t) \in Seq(Tasks)
    BY <1>6
  <2> DEFINE w == Append(s, t)
  <2>3. TagsAt(r, Q) = w /\ w \in Seq(Tasks)
    BY <1>7, <1>8, <2>2
  <2> HIDE DEF Q, r, s, w
  <2>4. line' = <<>> \o w
    BY <1>2, <2>1, <2>3
  <2>5. <<>> \o w = w
    BY <2>3
  <2> QED
    BY <2>4, <2>5 DEF w
<1> QED
  BY <1>6, <1>9

\* While the connection is open, a task with a running timeout has been sent.
LEMMA StartedStep ==
  ASSUME SerialCallers, SerialInv, StartedIsSent, [Next]_vars
  PROVE  StartedIsSent'
<1> SUFFICES ASSUME enabled', NEW t \in armed'
             PROVE  sent'[t] > 0
  BY DEF StartedIsSent
<1>1. /\ \A u \in Tasks : u \notin OffThread /\ caller[u].pc = "done"
      /\ \A u \in armed : u \in Tasks /\ Outstanding(u)
      /\ sent \in [Tasks -> Nat]
      /\ armed \subseteq Tasks
  BY DEF SerialCallers, SerialInv, CallersAway, OneInService, TypeOK
<1>2. CASE armed' = armed /\ sent' = sent /\ enabled' = enabled
  BY <1>2 DEF StartedIsSent
<1>3. ASSUME NEW u \in Tasks, CompleteTask(u), enabled' = enabled
      PROVE  sent'[t] > 0
  <2>1. t \in armed /\ t # u /\ sent'[t] = sent[t]
    BY <1>1, <1>3 DEF CompleteTask
  <2> QED
    BY <1>3, <2>1 DEF StartedIsSent
<1>4. ASSUME NEW u \in Tasks, Submit(u)
      PROVE  sent'[t] > 0
  <2>1. SubmitOnThread(u)
    BY <1>1, <1>4 DEF Submit, SubmitOffThread
  <2>2. t \in armed /\ enabled /\ t # u /\ sent'[t] = sent[t]
    BY <1>1, <2>1 DEF SubmitOnThread, Issue
  <2> QED
    BY <2>2 DEF StartedIsSent
<1>5. ASSUME NEW u \in Tasks, QueueTaskStep(u)
      PROVE  FALSE
  BY <1>1, <1>5
  DEF QueueTaskStep, QueueTaskCheck, QueueTaskEnter, QueueTaskLink, QueueTaskSignal
<1>6. ASSUME NEW u \in Tasks, HandleTimeout(u)
      PROVE  sent'[t] > 0
  BY <1>2, <1>6 DEF HandleTimeout, stackVars
<1>7. CASE CheckForWork
  <2> DEFINE m == taskQueue[1]
  <2>1. CASE taskQueue = <<>>
    BY <1>2, <1>7, <2>1 DEF CheckForWork
  <2>2. CASE taskQueue # <<>> /\ (BeginLatency(m) \/ TaskNotFound(m))
    BY <1>2, <2>2 DEF BeginLatency, TaskNotFound
  <2>3. CASE taskQueue # <<>> /\ SendCommand(m)
    <3>1. m.tag \in Tasks
      BY <2>3, SerialFacts DEF SendCommand, Tags
    <3>2. sent'[m.tag] = sent[m.tag] + 1 /\ sent[m.tag] \in Nat
      BY <1>1, <2>3, <3>1 DEF SendCommand
    <3>3. t # m.tag => t \in armed /\ sent'[t] = sent[t] /\ enabled
      BY <1>1, <2>3, <3>1 DEF SendCommand
    <3> QED
      BY <3>2, <3>3 DEF StartedIsSent
  <2>4. CASE taskQueue # <<>> /\ SendFails(m)
    BY <2>4 DEF SendFails, StartDrain
  <2> QED
    BY <1>7, <2>1, <2>2, <2>3, <2>4 DEF CheckForWork, BeginTask
<1>8. ASSUME NEW c \in atTarget, ProcessSCSIResponse(c) \/ ProcessEmptyDataIn(c)
      PROVE  sent'[t] > 0
  <2>1. CASE ProcessSCSIResponse(c) /\ Outstanding(c.tag)
    <3>1. c.tag \in Tasks
      BY DEF SerialInv, TypeOK, Command
    <3> QED
      BY <1>3, <2>1, <3>1 DEF ProcessSCSIResponse
  <2>2. CASE ProcessSCSIResponse(c) /\ ~Outstanding(c.tag)
    BY <1>2, <2>2 DEF ProcessSCSIResponse, stackVars
  <2>3. CASE ProcessEmptyDataIn(c)
    BY <1>2, <2>3 DEF ProcessEmptyDataIn, stackVars
  <2> QED
    BY <1>8, <2>1, <2>2, <2>3
<1>9. CASE ProcessNOPIn \/ TaskMgmtRequest \/ ProcessTaskMgmtRsp
  BY <1>2, <1>9 DEF ProcessNOPIn, TaskMgmtRequest, ProcessTaskMgmtRsp, stackVars
<1>10. CASE HandleConnectionTimeout \/ \E c \in atTarget : ReceiveFails(c)
  BY <1>10 DEF HandleConnectionTimeout, ReceiveFails, StartDrain
<1>11. CASE PopTask \/ SignalNext \/ DrainTask
  BY <1>2, <1>11 DEF PopTask, SignalNext, DrainTask, stackVars
<1>12. CASE FailTimedOutTask
  BY <1>3, <1>12 DEF FailTimedOutTask, SerialInv, TypeOK
<1>13. CASE RejectTask
  <2>1. ~enabled
    BY <1>13 DEF RejectTask, SerialInv, EnabledHandlers
  <2> QED
    BY <1>13, <2>1 DEF RejectTask
<1>14. CASE UNCHANGED vars
  BY <1>2, <1>14 DEF vars
<1>15. CASE ResumeResponse \/ ResumeDataIn
  <2>1. ~enabled
    BY <1>15 DEF ResumeResponse, ResumeDataIn, SerialInv, EnabledHandlers
  <2> QED
    BY <1>15, <2>1 DEF ResumeResponse, ResumeDataIn, StartDrain
<1> QED
  BY <1>4, <1>5, <1>6, <1>7, <1>8, <1>9, <1>10, <1>11, <1>12, <1>13, <1>14, <1>15
  DEF Next, HandlerStep

\* A step that leaves the line, the counts of sent commands and the connection
\* alone is a stutter of the abstract queue.
LEMMA DeliveryStutter ==
  ASSUME UNCHANGED <<line, sent, enabled>>
  PROVE  UNCHANGED Delivery!vars
BY DEF Delivery!vars, serving

\* Deactivation that leaves the line and the counts alone.
LEMMA DeliveryClose ==
  ASSUME UNCHANGED <<line, sent>>, enabled' = FALSE, enabled \in BOOLEAN
  PROVE  [Delivery!Next]_Delivery!vars
<1>1. serving' = serving
  BY DEF serving
<1>2. CASE enabled
  BY <1>1, <1>2 DEF Delivery!Next, Delivery!Close
<1>3. CASE ~enabled
  BY <1>1, <1>3 DEF Delivery!vars
<1> QED
  BY <1>2, <1>3

\* The first of the line is handed back, and nothing is in service afterwards.
LEMMA DeliveryHandBack ==
  ASSUME SerialInv, line # <<>>, line' = Tail(line), enabled' = enabled,
         sent[line[1]] > 0 \/ ~enabled,
         \A u \in Tasks : sent'[u] = 0
  PROVE  [Delivery!Next]_Delivery!vars
<1>1. line \in Seq(Tasks)
  BY LineType
<1>2. line' # <<>> => line'[1] \in Tasks
  BY <1>1
<1>3. serving' = FALSE
  BY <1>2 DEF serving
<1>4. serving \/ ~enabled
  BY DEF serving
<1> QED
  BY <1>3, <1>4 DEF Delivery!Next, Delivery!HandBack

\* A submission is accepted at the end of the line (ProcessParallelTask).
LEMMA DeliverySubmit ==
  ASSUME SerialInv, NEW t \in Tasks, SubmitOnThread(t)
  PROVE  [Delivery!Next]_Delivery!vars
<1>1. line' = Append(line, t) /\ enabled' = enabled
  BY LineAccepts DEF SubmitOnThread
<1>2. line \in Seq(Tasks) /\ DOMAIN line = 1 .. Len(line) /\ Len(line) \in Nat
  BY LineType
<1>3. /\ ~Outstanding(t)
      /\ \A u \in Tasks : sent'[u] = IF u = t THEN 0 ELSE sent[u]
  BY DEF SubmitOnThread, Issue, SerialInv, TypeOK
<1>4. \A i \in DOMAIN line : line[i] # t
  BY <1>3, LineType
<1>5. serving' = serving
  <2>1. CASE line = <<>>
    <3>1. line' # <<>> /\ line'[1] = t
      BY <1>1, <2>1
    <3> QED
      BY <1>3, <2>1, <3>1 DEF serving
  <2>2. CASE line # <<>>
    <3>1. line' # <<>> /\ line'[1] = line[1] /\ line[1] \in Tasks /\ 1 \in DOMAIN line
      BY <1>1, <1>2, <2>2
    <3>2. line[1] # t
      BY <1>4, <3>1
    <3> QED
      BY <1>3, <2>2, <3>1, <3>2 DEF serving
  <2> QED
    BY <2>1, <2>2
<1>6. Delivery!Accept(t)
  BY <1>1, <1>4, <1>5 DEF Delivery!Accept
<1> QED
  BY <1>6 DEF Delivery!Next

\* checkForWork serves the first of the line, or closes the connection.
LEMMA DeliveryCheckForWork ==
  ASSUME SerialInv, CheckForWork
  PROVE  [Delivery!Next]_Delivery!vars
<1> DEFINE m == taskQueue[1]
<1>1. /\ workloop.pc = "idle" /\ enabled /\ newTask
      /\ UNCHANGED <<taskQueue, scsi, use>>
      /\ workloop'.pc \in {"idle", "drain"}
  <2>1. /\ workloop.pc = "idle" /\ enabled /\ newTask
        /\ UNCHANGED <<taskQueue, scsi, use>>
        /\ UNCHANGED workloop \/ BeginTask(m)
    BY DEF CheckForWork, queueVars
  <2>2. BeginTask(m) => UNCHANGED workloop \/ StartDrain(Idle)
    BY DEF BeginTask, BeginLatency, TaskNotFound, SendCommand, SendFails
  <2> HIDE DEF m
  <2> QED
    BY <2>1, <2>2 DEF StartDrain
<1>2. Removed = <<>> /\ Removed' = <<>>
  BY <1>1 DEF Removed, InHand
<1>3. line' = line
  BY <1>1, <1>2, LineUnchanged
<1>4. CASE taskQueue = <<>> \/ BeginLatency(m) \/ TaskNotFound(m)
  <2>1. UNCHANGED <<sent, enabled>>
    BY <1>4 DEF CheckForWork, BeginTask, BeginLatency, TaskNotFound, SendCommand
  <2> QED
    BY <1>3, <2>1, DeliveryStutter
<1>5. CASE taskQueue # <<>> /\ SendCommand(m)
  <2> DEFINE t == m.tag
  <2>1. t \in Tasks /\ enabled' = enabled /\ sent' = [sent EXCEPT ![t] = @ + 1]
    BY <1>5, SerialFacts DEF SendCommand, Tags
  <2>2. Live(m) /\ 1 \in Places
    <3>1. 1 \in 1 .. Len(taskQueue) /\ DOMAIN taskQueue = 1 .. Len(taskQueue)
      BY <1>5, SerialFacts
    <3>2. Live(m)
      BY <1>1, <3>1 DEF SerialInv, QueueLive
    <3> QED
      BY <2>1, <3>1, <3>2, LineFacts
  <2>3. line # <<>> /\ line[1] = t
    <3>1. TagsAt(taskQueue, Places \ {1}) \in Seq(Tasks)
      BY <1>5, <2>2, HeadIsFirst
    <3>2. line = <<t>> \o TagsAt(taskQueue, Places \ {1})
      BY <1>2, <1>5, <2>2, HeadIsFirst, LineInQueue
    <3> QED
      BY <3>1, <3>2
  <2>4. sent[t] = 0
    <3>1. ~InService(m)
      BY <1>1, <1>5 DEF SerialInv, WakeupDue
    <3>2. t # Latency /\ Outstanding(t)
      BY <1>5 DEF SendCommand
    <3>3. t \notin armed
      BY <3>1, <3>2 DEF InService
    <3> QED
      BY <2>1, <3>3 DEF SerialInv, OneInService
  <2>5. sent'[t] = 1
    BY <2>1, <2>4 DEF SerialInv, TypeOK
  <2>6. serving = FALSE /\ serving' = TRUE
    BY <1>3, <2>3, <2>4, <2>5 DEF serving
  <2> QED
    BY <1>1, <1>3, <2>1, <2>3, <2>6 DEF Delivery!Next, Delivery!Serve
<1>6. CASE taskQueue # <<>> /\ SendFails(m)
  <2>1. enabled' = FALSE /\ sent' = sent /\ enabled \in BOOLEAN
    BY <1>6 DEF SendFails, StartDrain, SerialInv, TypeOK
  <2> QED
    BY <1>3, <2>1, DeliveryClose
<1> QED
  BY <1>4, <1>5, <1>6 DEF CheckForWork, BeginTask

\* A response hands back the first of the line, which is in service.
LEMMA DeliveryResponse ==
  ASSUME SerialInv, SerialInv', StartedIsSent, NEW c \in atTarget, ProcessSCSIResponse(c)
  PROVE  [Delivery!Next]_Delivery!vars
<1> DEFINE t == c.tag
<1>1. workloop.pc = "idle" /\ enabled /\ enabled' = enabled
  BY DEF ProcessSCSIResponse
<1>2. CASE ~Outstanding(t)
  <2>1. UNCHANGED <<taskQueue, scsi, use, sent, workloop, armed>>
    BY <1>2 DEF ProcessSCSIResponse, queueVars, stackVars
  <2>2. Removed' = Removed
    BY <2>1 DEF Removed, InHand
  <2>3. line' = line
    BY <2>1, <2>2, LineUnchanged
  <2> QED
    BY <1>1, <2>1, <2>3, DeliveryStutter
<1>3. CASE Outstanding(t)
  <2>1. CompleteTask(t) /\ workloop'.pc = "pop"
    BY <1>3 DEF ProcessSCSIResponse
  <2>2. t \in Tasks /\ t \in armed
    BY <1>3 DEF SerialInv, AnswersOwn, TypeOK, Command
  <2>3. \A u \in armed : taskQueue # <<>> /\ taskQueue[1].tag = u
    BY <1>1, SerialFacts DEF SerialInv, OneInService, InFlightIsHead, InHand
  <2>4. taskQueue # <<>> /\ taskQueue[1].tag = t /\ armed = {t}
    BY <2>2, <2>3
  <2>5. 1 \in Places
    <3>1. 1 \in 1 .. Len(taskQueue) /\ DOMAIN taskQueue = 1 .. Len(taskQueue)
      BY <2>4, SerialFacts
    <3>2. Live(taskQueue[1])
      BY <1>1, <3>1 DEF SerialInv, QueueLive
    <3> QED
      BY <2>2, <2>4, <3>1, <3>2, LineFacts
  <2>6. Removed = <<>> /\ Removed' = <<>>
    BY <1>1, <2>1 DEF Removed, InHand
  <2>7. line # <<>> /\ line[1] = t /\ line' = Tail(line)
    <3> HIDE DEF t
    <3> QED
      BY <2>1, <2>4, <2>5, <2>6, LineHeadDone
  <2>8. \A u \in Tasks : sent'[u] = 0
    <3>1. armed' = {}
      BY <2>1, <2>4 DEF CompleteTask
    <3> QED
      BY <3>1 DEF SerialInv, OneInService
  <2>9. sent[t] > 0
    BY <1>1, <2>2 DEF StartedIsSent
  <2> QED
    BY <1>1, <2>7, <2>8, <2>9, DeliveryHandBack
<1> QED
  BY <1>2, <1>3

\* Completing the task in hand hands back the first of the line.
LEMMA DeliveryHandDone ==
  ASSUME SerialInv, SerialInv', NEW t \in Tasks, CompleteTask(t),
         workloop.pc \in {"fail", "reject"}, workloop.tag = t, Outstanding(t),
         workloop.pc = "fail" => t \in armed,
         workloop'.pc \in {"idle", "drain"},
         enabled' = enabled,
         sent[t] > 0 \/ ~enabled
  PROVE  [Delivery!Next]_Delivery!vars
<1>1. InHand(t)
  BY DEF InHand
<1>2. Removed = <<t>> /\ Removed' = <<>>
  BY <1>1 DEF Removed, InHand, Outstanding
<1>3. line # <<>> /\ line[1] = t /\ line' = Tail(line)
  BY <1>1, <1>2, LineHandDone
<1>4. armed' = {}
  BY DEF CompleteTask, SerialInv, OneInService
<1>5. \A u \in Tasks : sent'[u] = 0
  BY <1>4 DEF SerialInv, OneInService
<1> QED
  BY <1>3, <1>5, DeliveryHandBack

\* completeCurrentTask moves the head into the hand: nothing changes in the line.
LEMMA DeliveryPop ==
  ASSUME SerialInv, PopTask, enabled
  PROVE  [Delivery!Next]_Delivery!vars
<1> DEFINE h == taskQueue[1].tag
<1>1. /\ workloop.pc = "pop"
      /\ taskQueue # <<>> /\ h = workloop.tag
      /\ workloop.tag \in Tasks => (workloop.tag \in armed <=> Live(taskQueue[1]))
  BY DEF PopTask, SerialInv, PopsOwnHead
<1>2. /\ RemoveFirst
      /\ workloop'.pc = "signal" /\ workloop'.tag = h
      /\ UNCHANGED <<scsi, use, sent, armed, enabled>>
  BY <1>1 DEF PopTask, stackVars, SerialInv, TypeOK, WorkloopState
<1>3. 1 \in Places <=> h \in Tasks /\ Live(taskQueue[1])
  <2>1. 1 \in 1 .. Len(taskQueue)
    BY <1>1, SerialFacts
  <2> QED
    BY <2>1, LineFacts
<1>4. Removed = <<>>
  BY <1>1, NothingRemoved
<1>5. Removed' = IF 1 \in Places THEN <<h>> ELSE <<>>
  <2>1. h \in Tasks /\ h \in armed => scsi[h] = "active"
    BY DEF SerialInv, OneInService, Outstanding
  <2>2. h \in Tasks => (h \in armed <=> Live(taskQueue[1]))
    BY <1>1
  <2> HIDE DEF h
  <2> QED
    BY <1>2, <1>3, <2>1, <2>2 DEF Removed, InHand
<1>6. line' = line
  BY <1>1, <1>2, <1>4, <1>5, LineHandover
<1> QED
  BY <1>2, <1>6, DeliveryStutter

\* On a closed connection the head that is removed is nobody's: if a task that was
\* submitted after the drain loop waits there, it has left the line for good.
LEMMA DeliveryPopClosed ==
  ASSUME SerialInv, PopTask, ~enabled
  PROVE  [Delivery!Next]_Delivery!vars
<1>1. workloop.pc = "pop" /\ UNCHANGED <<scsi, use, sent, armed, enabled>>
  BY DEF PopTask, stackVars
<1>2. armed = {} /\ armed' = {}
  BY <1>1 DEF SerialInv, Deactivated, Draining
<1>3. Removed = <<>>
  BY <1>1, NothingRemoved
<1>4. CASE taskQueue = <<>>
  <2>1. UNCHANGED taskQueue /\ workloop'.pc = "idle"
    BY <1>2, <1>4 DEF PopTask, AfterPop, Idle, queueVars
  <2>2. line' = line
    BY <1>1, <1>3, <2>1, LineUnchanged DEF Removed, InHand
  <2> QED
    BY <1>1, <2>2, DeliveryStutter
<1>5. CASE taskQueue # <<>>
  <2>1. RemoveFirst /\ workloop'.pc = "signal"
    BY <1>5 DEF PopTask, SerialInv, TypeOK, WorkloopState
  <2>2. Removed' = <<>>
    BY <1>2, <2>1 DEF Removed, InHand
  <2>3. CASE 1 \in Places
    <3>1. line # <<>> /\ line' = Tail(line)
      BY <1>1, <1>3, <1>5, <2>1, <2>2, <2>3, LineDropped
    <3>2. \A u \in Tasks : sent'[u] = 0
      BY <1>1, <1>2 DEF SerialInv, OneInService
    <3> QED
      BY <1>1, <3>1, <3>2, DeliveryHandBack
  <2>4. CASE 1 \notin Places
    <3>1. line' = line
      BY <1>1, <1>3, <1>5, <2>1, <2>2, <2>4, LineHandover
    <3> QED
      BY <1>1, <3>1, DeliveryStutter
  <2> QED
    BY <2>3, <2>4
<1> QED
  BY <1>4, <1>5

\* The drain loop moves the head into the hand, too.
LEMMA DeliveryDrain ==
  ASSUME SerialCallers, SerialInv, DrainTask
  PROVE  [Delivery!Next]_Delivery!vars
<1> DEFINE h == taskQueue[1].tag
<1>1. workloop.pc = "drain" /\ UNCHANGED <<scsi, use, sent, armed, enabled>>
  BY DEF DrainTask, stackVars
<1>2. Removed = <<>>
  BY <1>1, NothingRemoved
<1>3. CASE taskQueue = <<>>
  <2>1. UNCHANGED taskQueue /\ workloop'.pc \in {"idle", "lookUp", "dataIn", "stale"}
    BY <1>3 DEF DrainTask, DrainEnds, queueVars, Idle, SerialInv, TypeOK, ResumeState
  <2>2. Removed' = <<>>
    BY <2>1 DEF Removed, InHand
  <2>3. line' = line
    BY <1>1, <1>2, <2>1, <2>2, LineUnchanged
  <2> QED
    BY <1>1, <2>3, DeliveryStutter
<1>4. CASE taskQueue # <<>>
  <2>1. 1 \in 1 .. Len(taskQueue) /\ DOMAIN taskQueue = 1 .. Len(taskQueue) /\ h \in Tags
    BY <1>4, SerialFacts
  <2>2. RemoveFirst /\ workloop'.pc = "reject" /\ workloop'.tag = h
    BY <1>4, <2>1 DEF DrainTask, SerialCallers
  <2>3. Live(taskQueue[1])
    BY <1>1, <2>1 DEF SerialInv, QueueLive
  <2>4. 1 \in Places <=> h \in Tasks
    BY <2>1, <2>3, LineFacts
  <2>5. h \in Tasks => scsi[h] = "active"
    BY <2>3 DEF Live
  <2>6. Removed' = IF 1 \in Places THEN <<h>> ELSE <<>>
    <3> HIDE DEF h
    <3> QED
      BY <1>1, <2>2, <2>4, <2>5 DEF Removed, InHand
  <2>7. line' = line
    BY <1>1, <1>2, <1>4, <2>2, <2>6, LineHandover
  <2> QED
    BY <1>1, <2>7, DeliveryStutter
<1> QED
  BY <1>3, <1>4

\* What is in hand stays in hand while the workloop is told of the next task.
LEMMA DeliverySignal ==
  ASSUME SerialInv, SignalNext
  PROVE  [Delivery!Next]_Delivery!vars
<1>1. /\ workloop.pc = "signal"
      /\ UNCHANGED <<taskQueue, scsi, use, sent, armed, enabled>>
      /\ workloop' = AfterPop
  BY DEF SignalNext, queueVars, stackVars
<1>2. Removed' = Removed
  <2>1. CASE workloop.tag \in armed
    <3>1. workloop'.pc = "fail" /\ workloop'.tag = workloop.tag
      BY <1>1, <2>1 DEF AfterPop, SerialInv, TypeOK, WorkloopState
    <3> QED
      BY <1>1, <2>1, <3>1 DEF Removed, InHand
  <2>2. CASE workloop.tag \notin armed
    <3>1. workloop'.pc = "idle"
      BY <1>1, <2>2 DEF AfterPop, Idle
    <3> QED
      BY <1>1, <2>2, <3>1 DEF Removed, InHand
  <2> QED
    BY <2>1, <2>2
<1>3. line' = line
  BY <1>1, <1>2, LineUnchanged
<1> QED
  BY <1>1, <1>3, DeliveryStutter

\* A step that touches neither the queue nor the tasks, outside the handlers'
\* second half.
LEMMA DeliveryAside ==
  ASSUME workloop.pc \in {"idle", "pop", "drain"}, workloop'.pc \in {"idle", "pop", "drain"},
         UNCHANGED <<taskQueue, scsi, use>>
  PROVE  line' = line
<1>1. Removed = <<>> /\ Removed' = <<>>
  BY DEF Removed, InHand
<1> QED
  BY <1>1, LineUnchanged

\* ProcessSCSIResponse finds no task after the drain.
LEMMA DeliveryResumeResponse ==
  ASSUME SerialInv, ResumeResponse
  PROVE  [Delivery!Next]_Delivery!vars
<1>1. workloop.pc = "lookUp" /\ ~Outstanding(workloop.tag) /\ ~enabled
  BY DEF ResumeResponse, SerialInv, TypeOK, ResumesAfterDrain, EnabledHandlers
<1>2. /\ UNCHANGED <<taskQueue, scsi, use, sent>>
      /\ workloop'.pc \in {"idle", "drain"}
      /\ enabled' = FALSE \/ enabled' = enabled
  BY <1>1 DEF ResumeResponse, StartDrain, Idle, queueVars, stackVars
<1>3. Removed = <<>> /\ Removed' = <<>>
  BY <1>1, <1>2 DEF Removed, InHand
<1>4. line' = line
  BY <1>2, <1>3, LineUnchanged
<1>5. CASE enabled' = FALSE
  <2>1. enabled \in BOOLEAN
    BY DEF SerialInv, TypeOK
  <2> QED
    BY <1>2, <1>4, <1>5, <2>1, DeliveryClose
<1>6. CASE enabled' = enabled
  BY <1>2, <1>4, <1>6, DeliveryStutter
<1> QED
  BY <1>2, <1>5, <1>6

\* ProcessDataIn completes a task that has been handed back before.
LEMMA DeliveryResumeDataIn ==
  ASSUME SerialInv, ResumeDataIn
  PROVE  [Delivery!Next]_Delivery!vars
<1> DEFINE t == workloop.tag
<1>1. workloop.pc = "stale" /\ t \in Tasks /\ \A u \in Tasks : ~Outstanding(u)
  BY DEF ResumeDataIn, SerialInv, TypeOK, ResumesAfterDrain
<1>2. /\ MeasureTransfer(t)
      /\ workloop'.pc = "pop"
      /\ UNCHANGED <<enabled, scsi, sent>>
  BY <1>1 DEF ResumeDataIn, CompleteAgain, SerialInv, TypeOK, WorkloopState
<1>3. Removed = <<>> /\ Removed' = <<>>
  BY <1>1, <1>2 DEF Removed, InHand
<1>4. line' = line
  <2> HIDE DEF t
  <2> QED
    BY <1>1, <1>2, <1>3, LineMeasured
<1> QED
  BY <1>2, <1>4, DeliveryStutter

\* Every step of the queue is a step of the abstract queue, or a stutter.
LEMMA DeliveryStep ==
  ASSUME SerialCallers, SerialInv, SerialInv', StartedIsSent, [Next]_vars
  PROVE  [Delivery!Next]_Delivery!vars
<1>1. /\ \A t \in Tasks : t \notin OffThread /\ caller[t].pc = "done"
      /\ enabled \in BOOLEAN
  BY DEF SerialCallers, SerialInv, CallersAway, TypeOK
<1>2. ASSUME NEW t \in Tasks, Submit(t)
      PROVE  [Delivery!Next]_Delivery!vars
  BY <1>1, <1>2, DeliverySubmit DEF Submit, SubmitOffThread
<1>3. ASSUME NEW t \in Tasks, QueueTaskStep(t)
      PROVE  FALSE
  BY <1>1, <1>3
  DEF QueueTaskStep, QueueTaskCheck, QueueTaskEnter, QueueTaskLink, QueueTaskSignal
<1>4. ASSUME NEW t \in Tasks, HandleTimeout(t)
      PROVE  [Delivery!Next]_Delivery!vars
  <2>1. /\ workloop.pc = "idle" /\ workloop'.pc = "pop"
        /\ UNCHANGED <<taskQueue, scsi, use, sent, enabled>>
    BY <1>4 DEF HandleTimeout, queueVars, stackVars
  <2> QED
    BY <2>1, DeliveryAside, DeliveryStutter
<1>5. CASE CheckForWork
  BY <1>5, DeliveryCheckForWork
<1>6. ASSUME NEW c \in atTarget, ProcessSCSIResponse(c)
      PROVE  [Delivery!Next]_Delivery!vars
  BY <1>6, DeliveryResponse
<1>7. ASSUME NEW c \in atTarget, ProcessEmptyDataIn(c)
      PROVE  [Delivery!Next]_Delivery!vars
  <2>1. /\ workloop.pc = "idle" /\ workloop'.pc = "idle"
        /\ UNCHANGED <<taskQueue, scsi, use, sent, enabled>>
    BY <1>7 DEF ProcessEmptyDataIn, queueVars, stackVars
  <2> QED
    BY <2>1, DeliveryAside, DeliveryStutter
<1>8. CASE ProcessNOPIn \/ ProcessTaskMgmtRsp
  <2>1. /\ workloop.pc = "idle" /\ workloop'.pc = "pop"
        /\ UNCHANGED <<taskQueue, scsi, use, sent, enabled>>
    BY <1>8 DEF ProcessNOPIn, ProcessTaskMgmtRsp, queueVars, stackVars
  <2> QED
    BY <2>1, DeliveryAside, DeliveryStutter
<1>9. CASE TaskMgmtRequest \/ UNCHANGED vars
  <2>1. UNCHANGED <<taskQueue, scsi, use, sent, enabled, workloop, armed>>
    BY <1>9 DEF TaskMgmtRequest, queueVars, stackVars, vars
  <2>2. Removed' = Removed
    BY <2>1 DEF Removed, InHand
  <2>3. line' = line
    BY <2>1, <2>2, LineUnchanged
  <2> QED
    BY <2>1, <2>3, DeliveryStutter
<1>10. CASE HandleConnectionTimeout \/ \E c \in atTarget : ReceiveFails(c)
  <2>1. /\ workloop.pc = "idle" /\ workloop'.pc = "drain" /\ enabled' = FALSE
        /\ UNCHANGED <<taskQueue, scsi, use, sent>>
    BY <1>10 DEF HandleConnectionTimeout, ReceiveFails, StartDrain, queueVars, stackVars
  <2> QED
    BY <1>1, <2>1, DeliveryAside, DeliveryClose
<1>11. CASE FailTimedOutTask
  <2> DEFINE t == workloop.tag
  <2>1. /\ workloop.pc = "fail" /\ CompleteTask(t) /\ workloop'.pc = "idle"
        /\ enabled' = enabled
    BY <1>11 DEF FailTimedOutTask, Idle
  <2>2. t \in Tasks /\ t \in armed /\ Outstanding(t) /\ enabled
    BY <2>1 DEF SerialInv, TypeOK, HoldsOneTask, OneInService, Deactivated
  <2>3. sent[t] > 0
    BY <2>2 DEF StartedIsSent
  <2> QED
    BY <2>1, <2>2, <2>3, DeliveryHandDone
<1>12. CASE RejectTask
  <2> DEFINE t == workloop.tag
  <2>1. workloop.pc = "reject" /\ workloop'.pc = "drain" /\ enabled' = enabled /\ ~enabled
    BY <1>12 DEF RejectTask, SerialInv, EnabledHandlers
  <2>2. CASE t = Latency
    <3>1. UNCHANGED <<taskQueue, scsi, use, sent>>
      BY <1>12, <2>2 DEF RejectTask, queueVars, stackVars
    <3>2. Removed = <<>> /\ Removed' = <<>>
      BY <2>1, <2>2, ConstantsAssumption DEF Removed, InHand
    <3>3. line' = line
      BY <3>1, <3>2, LineUnchanged
    <3> QED
      BY <2>1, <3>1, <3>3, DeliveryStutter
  <2>3. CASE t # Latency
    <3>1. t \in Tasks
      BY <2>1, <2>3 DEF SerialInv, TypeOK, Tags
    <3>2. Outstanding(t)
      BY <2>1, <3>1 DEF SerialInv, HoldsOneTask
    <3>3. CompleteTask(t)
      BY <1>12, <2>3, <3>2 DEF RejectTask
    <3> QED
      BY <2>1, <3>1, <3>2, <3>3, DeliveryHandDone
  <2> QED
    BY <2>2, <2>3
<1>13. CASE PopTask \/ SignalNext \/ DrainTask
  BY <1>13, DeliveryPop, DeliveryPopClosed, DeliverySignal, DeliveryDrain
<1>14. CASE ResumeResponse
  BY <1>14, DeliveryResumeResponse
<1>15. CASE ResumeDataIn
  BY <1>15, DeliveryResumeDataIn
<1> QED
  BY <1>2, <1>3, <1>4, <1>5, <1>6, <1>7, <1>8, <1>9, <1>10, <1>11, <1>12, <1>13, <1>14, <1>15
  DEF Next, HandlerStep

\* A connection that was just activated has an empty line.
LEMMA DeliveryInit ==
  ASSUME Init
  PROVE  Delivery!Init
<1>1. Places = {} /\ Removed = <<>>
  <2>1. DOMAIN taskQueue = {} /\ workloop.pc = "idle"
    BY DEF Init, Idle
  <2> QED
    BY <2>1, NothingRemoved DEF Places
<1>2. TagsAt(taskQueue, Places) = <<>>
  <2>1. Cardinality({}) = 0
    BY FS_EmptySet
  <2> QED
    BY <1>1, <2>1 DEF TagsAt
<1>3. line = <<>>
  BY <1>1, <1>2 DEF line
<1> QED
  BY <1>3 DEF Delivery!Init, serving, Init

\* With serialised callers the queue serves its tasks one at a time and in order,
\* and hands one back unserved only after the connection was deactivated: it
\* implements TaskDelivery (iSCSITaskQueue with BeginTaskOnWorkloopThread, the
\* response handlers and DeactivateConnection).
THEOREM QueueDelivers ==
  ASSUME SerialCallers
  PROVE  Spec => DeliversInOrder
<1>1. Init => SerialInv /\ StartedIsSent
  BY SerialInit DEF Init, StartedIsSent
<1>2. SerialInv /\ StartedIsSent /\ [Next]_vars => (SerialInv /\ StartedIsSent)'
  BY SerialStep, StartedStep, SerialCallers
<1>3. Spec => [](SerialInv /\ StartedIsSent)
  BY <1>1, <1>2, PTL DEF Spec
<1>4. Init => Delivery!Init
  BY DeliveryInit
<1>5. SerialInv /\ SerialInv' /\ StartedIsSent /\ [Next]_vars => [Delivery!Next]_Delivery!vars
  BY DeliveryStep, SerialCallers
<1> QED
  BY <1>3, <1>4, <1>5, PTL DEF Spec, DeliversInOrder, Delivery!Spec
=============================================================================
