------------------------------ MODULE TaskQueue ------------------------------
(***************************************************************************)
(* The task queue of one active iSCSI connection, with the threads around  *)
(* it: iSCSITaskQueue and the parts of iSCSIVirtualHBA that feed it and    *)
(* drain it.                                                               *)
(*                                                                         *)
(* A connection serves its SCSI tasks one at a time: the task at the head  *)
(* of the queue is the one the target is executing.  queueTask wakes the   *)
(* workloop only when the queue was empty; completeCurrentTask removes the *)
(* head and wakes the workloop when tasks are left.  queueTask calls       *)
(* GetCommandGate() but never closes the gate, so when the SCSI stack      *)
(* submits from another thread its steps interleave with the workloop's.   *)
(*                                                                         *)
(* The model starts when the daemon has activated the connection and ends  *)
(* when it is deactivated, with what a handler still does after its own    *)
(* failed receive has deactivated it: the daemon never activates a         *)
(* connection again, and it is there to be told, so that the connection    *)
(* is not freed under the handler.                                         *)
(***************************************************************************)
EXTENDS Naturals, Sequences

CONSTANTS
  Tasks,      \* initiator task tags of SCSI tasks
  OffThread,  \* the tags the SCSI stack submits from a thread other than the workloop's
  DataTasks,  \* the tags whose tasks transfer data (they feed the bandwidth history)
  Latency,    \* the tag of the connection's latency measurement
  TaskMgmt,   \* stands for a task management function, which is never queued
  ZeroTag,    \* the tag whose value is 0, if a task has it (LUN 0, untagged task)
  QHead,      \* the queue's own header element
  NoTask,
  Faults,     \* what the environment may do, a subset of FaultKinds
  Window,     \* kBytesPerSecAvgWindowSize
  MaxUses,    \* bound: how often the SCSI stack uses one tag
  MaxTaskMgmt \* bound: task management requests

FaultKinds ==
  {"slowTarget", "earlyReuse", "emptyDataIn", "taskMgmt", "lostConnection"}

Tags == Tasks \cup {Latency}

ASSUME ConstantsAssumption ==
  /\ OffThread \subseteq Tasks
  /\ DataTasks \subseteq Tasks
  /\ Latency \notin Tasks
  /\ TaskMgmt \notin Tags
  /\ NoTask \notin Tags \cup {TaskMgmt}
  /\ Faults \subseteq FaultKinds
  /\ Window \in Nat \ {0}
  /\ MaxUses \in Nat
  /\ MaxTaskMgmt \in Nat

\* An element of the queue: IOMalloc'ed by queueTask, freed by completeCurrentTask.
\* use tells the elements of successive tasks with the same tag apart.
Node == [tag : Tags, use : Nat]

\* A command on its way: the tag the target echoes in its answer, the task it was
\* sent for, and which copy of that task's command it is.
Command == [tag : Tasks, use : Nat, copy : Nat]

ASSUME HeadAssumption == QHead \notin Node

VARIABLES
  taskQueue,  \* the elements reachable from the header, in order
  tail,       \* the header's prev pointer
  newTask,    \* iSCSITaskQueue::newTask
  enabled,    \* the connection's two event sources are enabled
  caller,     \* per tag: where its thread is inside queueTask, and its locals
  workloop,   \* where the workloop thread is, and the task it is working for
  resume,     \* where it goes on when DeactivateConnection returns
  scsi,       \* per tag: whether the SCSI stack has a task outstanding under it
  use,        \* per tag: how many tasks have used it
  sent,       \* per tag: how often its outstanding task's command went out
  armed,      \* the tags whose task has a running timeout
  atTarget,   \* commands the target holds
  pings,      \* NOP-outs the target has not answered
  tmfs,       \* task management requests: made, and answered
  historyIdx  \* bytesPerSecHistoryIdx

queueVars == <<taskQueue, tail>>
targetVars == <<atTarget, pings, tmfs>>
stackVars == <<scsi, use, sent, armed>>
vars == <<taskQueue, tail, newTask, enabled, caller, workloop, resume,
          scsi, use, sent, armed, atTarget, pings, tmfs, historyIdx>>

Idle == [pc |-> "idle", tag |-> NoTask]
Returned == [pc |-> "done", first |-> FALSE, prev |-> QHead]

Init ==
  /\ taskQueue = <<>>
  /\ tail = QHead
  /\ newTask = FALSE
  /\ enabled = TRUE
  /\ caller = [t \in Tasks |-> Returned]
  /\ workloop = Idle
  /\ resume = Idle
  /\ scsi = [t \in Tasks |-> "free"]
  /\ use = [t \in Tags |-> 0]
  /\ sent = [t \in Tasks |-> 0]
  /\ armed = {}
  /\ atTarget = {}
  /\ pings = 0
  /\ tmfs = [made |-> 0, answered |-> 0]
  /\ historyIdx = 0

-----------------------------------------------------------------------------
(* The queue as memory: queue_enter and queue_remove_first.                *)

\* Mutant: queue_enter_first.
LinkedFirst(q, prev, n) == <<n>> \o q

\* What the header reaches after queue_enter wrote through the prev it read:
\* prev is the header, an element still in the queue, or one already freed.
Linked(q, prev, n) ==
  IF prev = QHead
  THEN <<n>>
  ELSE IF \E i \in DOMAIN q : q[i] = prev
       THEN LET i == CHOOSE i \in DOMAIN q : q[i] = prev
            IN  Append(SubSeq(q, 1, i), n)
       ELSE q

\* Mutant: the workloop is signalled for every task, not only the first.
QueueTaskAlwaysSignals(n) ==
  /\ taskQueue' = Linked(taskQueue, tail, n)
  /\ tail' = n
  /\ newTask' = TRUE

\* queueTask called on the workloop thread: nothing interleaves.
QueueTaskNow(n) ==
  /\ taskQueue' = Linked(taskQueue, tail, n)
  /\ tail' = n
  /\ newTask' = (newTask \/ taskQueue = <<>>)

RemoveFirst ==
  /\ taskQueue' = Tail(taskQueue)
  /\ tail' = IF Len(taskQueue) = 1 THEN QHead ELSE tail

-----------------------------------------------------------------------------
(* Submission: ProcessParallelTask and queueTask.                          *)

Outstanding(t) == scsi[t] = "active"

\* The SCSI stack starts a new task under tag t, perhaps while the answer to an
\* earlier one is still on its way (it cannot know of a second copy).
Issue(t) ==
  /\ ~Outstanding(t)
  /\ "earlyReuse" \in Faults \/ \A c \in atTarget : c.tag = t => c.copy > 1
  /\ use[t] < MaxUses
  /\ scsi' = [scsi EXCEPT ![t] = "active"]
  /\ use' = [use EXCEPT ![t] = @ + 1]
  /\ sent' = [sent EXCEPT ![t] = 0]

\* The SCSI stack runs on the workloop thread between events and in the callback
\* of a completed task (or task management function), before the handler goes on
\* to remove the head of the queue.
StackOnThread ==
  \/ workloop.pc \in {"idle", "drain"}
  \/ workloop.pc = "pop" /\ workloop.tag \notin armed \cup {Latency}

SubmitOnThread(t) ==
  /\ t \notin OffThread
  /\ StackOnThread
  /\ Issue(t)
  /\ QueueTaskNow([tag |-> t, use |-> use[t] + 1])
  /\ UNCHANGED <<enabled, resume, caller, workloop, armed, historyIdx, targetVars>>

SubmitOffThread(t) ==
  /\ t \in OffThread
  /\ caller[t].pc = "done"
  /\ Issue(t)
  /\ caller' = [caller EXCEPT ![t].pc = "check"]
  /\ UNCHANGED <<queueVars, newTask, enabled, resume, workloop, armed, historyIdx, targetVars>>

\* if(queue_empty(&taskQueue)) firstTaskInQueue = true;
QueueTaskCheck(t) ==
  /\ caller[t].pc = "check"
  /\ caller' = [caller EXCEPT ![t].pc = "enter", ![t].first = (taskQueue = <<>>)]
  /\ UNCHANGED <<queueVars, newTask, enabled, resume, workloop, stackVars, historyIdx, targetVars>>

\* queue_enter reads the header's prev pointer ...
QueueTaskEnter(t) ==
  /\ caller[t].pc = "enter"
  /\ caller' = [caller EXCEPT ![t].pc = "link", ![t].prev = tail]
  /\ UNCHANGED <<queueVars, newTask, enabled, resume, workloop, stackVars, historyIdx, targetVars>>

\* ... and links the new element behind it.
QueueTaskLink(t) ==
  LET n == [tag |-> t, use |-> use[t]] IN
  /\ caller[t].pc = "link"
  /\ taskQueue' = Linked(taskQueue, caller[t].prev, n)
  /\ tail' = n
  /\ caller' = [caller EXCEPT ![t] =
                  IF caller[t].first THEN [@ EXCEPT !.pc = "signal"] ELSE Returned]
  /\ UNCHANGED <<newTask, enabled, resume, workloop, stackVars, historyIdx, targetVars>>

QueueTaskSignal(t) ==
  /\ caller[t].pc = "signal"
  /\ newTask' = TRUE
  /\ caller' = [caller EXCEPT ![t] = Returned]
  /\ UNCHANGED <<queueVars, enabled, resume, workloop, stackVars, historyIdx, targetVars>>

-----------------------------------------------------------------------------
(* The workloop: starting the task at the head of the queue.               *)

\* HandleConnectionTimeout, reached from a failed send or receive and from
\* HandleTimeout when the peer is gone: DeactivateConnection disables both
\* event sources and then empties the queue (DrainTask).  The handler that was
\* sending or receiving then goes on at next.
StartDrain(next) ==
  /\ enabled' = FALSE
  /\ workloop' = [pc |-> "drain", tag |-> NoTask]
  /\ resume' = next

\* The body of BeginTaskOnWorkloopThread for the element n.
BeginLatency(n) ==
  /\ n.tag = Latency
  /\ pings' = pings + 1
  /\ UNCHANGED <<sent, armed, atTarget, enabled, resume, workloop>>

TaskNotFound(n) ==
  /\ n.tag # Latency
  /\ ~Outstanding(n.tag)
  /\ UNCHANGED <<sent, armed, atTarget, pings, enabled, resume, workloop>>

\* Mutant: no SetTimeoutForTask.
SendWithoutTimeout(n) ==
  /\ n.tag # Latency
  /\ Outstanding(n.tag)
  /\ sent' = [sent EXCEPT ![n.tag] = @ + 1]
  /\ atTarget' = atTarget \cup {[tag |-> n.tag, use |-> use[n.tag], copy |-> sent[n.tag] + 1]}
  /\ UNCHANGED <<armed, pings, enabled, resume, workloop>>

SendCommand(n) ==
  /\ n.tag # Latency
  /\ Outstanding(n.tag)
  /\ armed' = armed \cup {n.tag}
  /\ sent' = [sent EXCEPT ![n.tag] = @ + 1]
  /\ atTarget' = atTarget \cup {[tag |-> n.tag, use |-> use[n.tag], copy |-> sent[n.tag] + 1]}
  /\ UNCHANGED <<pings, enabled, resume, workloop>>

SendFails(n) ==
  /\ "lostConnection" \in Faults
  /\ n.tag \in {Latency} \cup {t \in Tasks : Outstanding(t)}
  /\ armed' = IF n.tag = Latency THEN armed ELSE armed \cup {n.tag}
  /\ StartDrain(Idle)
  /\ UNCHANGED <<sent, atTarget, pings>>

BeginTask(n) ==
  \/ BeginLatency(n)
  \/ TaskNotFound(n)
  \/ SendCommand(n)
  \/ SendFails(n)

CheckForWork ==
  /\ workloop.pc = "idle"
  /\ enabled
  /\ newTask
  /\ newTask' = FALSE
  /\ IF taskQueue = <<>>
     THEN UNCHANGED <<sent, armed, atTarget, pings, enabled, resume, workloop>>
     ELSE BeginTask(taskQueue[1])
  /\ UNCHANGED <<queueVars, caller, scsi, use, tmfs, historyIdx>>

-----------------------------------------------------------------------------
(* The workloop: what the target sends.                                    *)

\* Every Window-th task that moved data queues a latency measurement.
MeasureTransfer(t) ==
  /\ historyIdx' = IF t \in DataTasks THEN (historyIdx + 1) % Window ELSE historyIdx
  /\ IF t \in DataTasks /\ historyIdx' = 0
     THEN /\ use' = [use EXCEPT ![Latency] = @ + 1]
          /\ QueueTaskNow([tag |-> Latency, use |-> use[Latency] + 1])
     ELSE UNCHANGED <<use, queueVars, newTask>>

\* CompleteParallelTask: hands t back to the SCSI stack.
CompleteTask(t) ==
  /\ scsi' = [scsi EXCEPT ![t] = "free"]
  /\ sent' = [sent EXCEPT ![t] = 0]
  /\ armed' = armed \ {t}
  /\ MeasureTransfer(t)

\* CompleteParallelTask for a task t that has been handed back already: by now
\* the SCSI stack may have made its object into that of another task.
CompleteAgain(t) ==
  \/ MeasureTransfer(t) /\ UNCHANGED <<scsi, sent, armed>>
  \/ \E u \in Tasks : Outstanding(u) /\ CompleteTask(u)

\* Mutant: no early return for a task that is not found.
ProcessResponseUnchecked(c) ==
  /\ workloop.pc = "idle"
  /\ enabled
  /\ c \in atTarget
  /\ atTarget' = atTarget \ {c}
  /\ IF Outstanding(c.tag)
     THEN CompleteTask(c.tag)
     ELSE UNCHANGED <<queueVars, newTask, stackVars, historyIdx>>
  /\ workloop' = [pc |-> "pop", tag |-> c.tag]
  /\ UNCHANGED <<enabled, resume, caller, pings, tmfs>>

\* ProcessSCSIResponse, and ProcessDataIn with a status: the task is looked up
\* by the tag of the response, completed, and then the head is removed.
ProcessSCSIResponse(c) ==
  /\ workloop.pc = "idle"
  /\ enabled
  /\ c \in atTarget
  /\ atTarget' = atTarget \ {c}
  /\ IF Outstanding(c.tag)
     THEN /\ CompleteTask(c.tag)
          /\ workloop' = [pc |-> "pop", tag |-> c.tag]
     ELSE UNCHANGED <<queueVars, newTask, workloop, stackVars, historyIdx>>
  /\ UNCHANGED <<enabled, resume, caller, pings, tmfs>>

\* Where the handler of c's answer goes on after a failed receive: a response is
\* looked up only now, data-in with a status has its task already, and there is
\* nothing left to do for data-in without one.
AfterReceive(c) ==
  {[pc |-> "lookUp", tag |-> c.tag]} \cup
    IF c.tag \notin DataTasks THEN {}
    ELSE {IF Outstanding(c.tag) THEN [pc |-> "dataIn", tag |-> c.tag] ELSE Idle}

\* RecvPDUData fails for the data segment of an answer: HandleConnectionTimeout
\* drains the queue in the middle of the handler.
ReceiveFails(c) ==
  /\ "lostConnection" \in Faults
  /\ workloop.pc = "idle"
  /\ enabled
  /\ c \in atTarget
  /\ atTarget' = atTarget \ {c}
  /\ \E next \in AfterReceive(c) : StartDrain(next)
  /\ UNCHANGED <<queueVars, newTask, caller, stackVars, pings, tmfs, historyIdx>>

\* Back in ProcessSCSIResponse after the drain: without a task the stream is
\* flushed, which may find the connection lost again.
ResumeResponse ==
  /\ workloop.pc = "lookUp"
  /\ IF Outstanding(workloop.tag)
     THEN /\ CompleteTask(workloop.tag)
          /\ workloop' = [workloop EXCEPT !.pc = "pop"]
          /\ UNCHANGED <<enabled, resume>>
     ELSE /\ \/ StartDrain(Idle)
             \/ workloop' = Idle /\ UNCHANGED <<enabled, resume>>
          /\ UNCHANGED <<queueVars, newTask, stackVars, historyIdx>>
  /\ UNCHANGED <<caller, targetVars>>

\* Back in ProcessDataIn: the task found before the receive is completed, whether
\* or not the drain loop has handed it back, and what is at the head is removed.
ResumeDataIn ==
  /\ \/ workloop.pc = "dataIn" /\ CompleteTask(workloop.tag)
     \/ workloop.pc = "stale" /\ CompleteAgain(workloop.tag)
  /\ workloop' = [workloop EXCEPT !.pc = "pop"]
  /\ UNCHANGED <<enabled, resume, caller, targetVars>>

\* ProcessDataIn gives up on a PDU without a data segment, status or not.
ProcessEmptyDataIn(c) ==
  /\ "emptyDataIn" \in Faults
  /\ workloop.pc = "idle"
  /\ enabled
  /\ c \in atTarget
  /\ atTarget' = atTarget \ {c}
  /\ UNCHANGED <<queueVars, newTask, enabled, resume, caller, workloop, stackVars,
                 pings, tmfs, historyIdx>>

\* The answer to a latency measurement: the head is removed.
ProcessNOPIn ==
  /\ workloop.pc = "idle"
  /\ enabled
  /\ pings > 0
  /\ pings' = pings - 1
  /\ workloop' = [pc |-> "pop", tag |-> Latency]
  /\ UNCHANGED <<queueVars, newTask, enabled, resume, caller, stackVars, atTarget, tmfs, historyIdx>>

\* AbortTaskRequest and its siblings send their PDU at once; nothing is queued.
TaskMgmtRequest ==
  /\ "taskMgmt" \in Faults
  /\ tmfs.made < MaxTaskMgmt
  /\ tmfs' = [tmfs EXCEPT !.made = @ + 1]
  /\ UNCHANGED <<queueVars, newTask, enabled, resume, caller, workloop, stackVars,
                 atTarget, pings, historyIdx>>

\* The response completes the function, and the head is removed.
ProcessTaskMgmtRsp ==
  /\ workloop.pc = "idle"
  /\ enabled
  /\ tmfs.answered < tmfs.made
  /\ tmfs' = [tmfs EXCEPT !.answered = @ + 1]
  /\ workloop' = [pc |-> "pop", tag |-> TaskMgmt]
  /\ UNCHANGED <<queueVars, newTask, enabled, resume, caller, stackVars, atTarget, pings, historyIdx>>

-----------------------------------------------------------------------------
(* The workloop: timeouts, completeCurrentTask and deactivation.           *)

\* The SCSI stack's timer for task t fires: with a live peer the head of the
\* queue is removed and then t is failed.
HandleTimeout(t) ==
  /\ "slowTarget" \in Faults
  /\ workloop.pc = "idle"
  /\ t \in armed
  /\ workloop' = [pc |-> "pop", tag |-> t]
  /\ UNCHANGED <<queueVars, newTask, enabled, resume, caller, stackVars, targetVars, historyIdx>>

\* A peer that is gone, found by the timer of a task or by a receive after which
\* the handler has nothing left to do.
HandleConnectionTimeout ==
  /\ "lostConnection" \in Faults
  /\ workloop.pc = "idle"
  /\ enabled \/ armed # {}
  /\ StartDrain(Idle)
  /\ UNCHANGED <<queueVars, newTask, caller, stackVars, targetVars, historyIdx>>

\* Mutant: HandleTimeout returns without failing its task.
AfterPopIdle == Idle

\* Back in HandleTimeout its task is still outstanding and has to be failed;
\* the other handlers are done once the head is removed.
AfterPop == IF workloop.tag \in armed THEN [workloop EXCEPT !.pc = "fail"] ELSE Idle

\* completeCurrentTask up to the removal; nothing to do on an empty queue.
PopTask ==
  /\ workloop.pc = "pop"
  /\ IF taskQueue = <<>>
     THEN /\ workloop' = AfterPop
          /\ UNCHANGED queueVars
     ELSE /\ workloop' = [workloop EXCEPT !.pc = "signal"]
          /\ RemoveFirst
  /\ UNCHANGED <<newTask, enabled, resume, caller, stackVars, targetVars, historyIdx>>

\* Mutant: completeCurrentTask does not look for further tasks.
SignalNextForgotten ==
  /\ workloop.pc = "signal"
  /\ workloop' = AfterPop
  /\ UNCHANGED <<queueVars, newTask, enabled, resume, caller, stackVars, targetVars, historyIdx>>

\* completeCurrentTask after the removal: wake the workloop for the next task.
SignalNext ==
  /\ workloop.pc = "signal"
  /\ newTask' = (newTask \/ taskQueue # <<>>)
  /\ workloop' = AfterPop
  /\ UNCHANGED <<queueVars, enabled, resume, caller, stackVars, targetVars, historyIdx>>

FailTimedOutTask ==
  /\ workloop.pc = "fail"
  /\ CompleteTask(workloop.tag)
  /\ workloop' = Idle
  /\ UNCHANGED <<enabled, resume, caller, targetVars>>

\* The loop is over, and DeactivateConnection returns.
DrainEnds ==
  /\ workloop' = resume
  /\ resume' = Idle

\* Mutant: clearTasksFromQueue in place of the loop.
DrainWithClear ==
  /\ workloop.pc = "drain"
  /\ taskQueue' = <<>>
  /\ tail' = QHead
  /\ DrainEnds
  /\ UNCHANGED <<newTask, enabled, caller, stackVars, targetVars, historyIdx>>

\* DeactivateConnection's loop ends when completeCurrentTask returns 0: for an
\* empty queue, and for a task whose tag is 0.
DrainTask ==
  /\ workloop.pc = "drain"
  /\ \/ /\ taskQueue = <<>>
        /\ DrainEnds
        /\ UNCHANGED <<queueVars, newTask>>
     \/ /\ taskQueue # <<>>
        /\ RemoveFirst
        /\ newTask' = (newTask \/ Len(taskQueue) > 1)
        /\ IF taskQueue[1].tag = ZeroTag
           THEN DrainEnds
           ELSE /\ workloop' = [pc |-> "reject", tag |-> taskQueue[1].tag]
                /\ UNCHANGED resume
  /\ UNCHANGED <<enabled, caller, stackVars, targetVars, historyIdx>>

\* The body of the loop: reject the removed task, if the SCSI stack still has it.
\* The handler that goes on after the loop is not told that it was its own.
RejectTask ==
  /\ workloop.pc = "reject"
  /\ IF workloop.tag # Latency /\ Outstanding(workloop.tag)
     THEN /\ CompleteTask(workloop.tag)
          /\ resume' = IF resume = [pc |-> "dataIn", tag |-> workloop.tag]
                       THEN [resume EXCEPT !.pc = "stale"] ELSE resume
     ELSE UNCHANGED <<resume, queueVars, newTask, stackVars, historyIdx>>
  /\ workloop' = [pc |-> "drain", tag |-> NoTask]
  /\ UNCHANGED <<enabled, caller, targetVars>>

-----------------------------------------------------------------------------

Submit(t) == SubmitOnThread(t) \/ SubmitOffThread(t)

QueueTaskStep(t) ==
  \/ QueueTaskCheck(t)
  \/ QueueTaskEnter(t)
  \/ QueueTaskLink(t)
  \/ QueueTaskSignal(t)

\* What the workloop goes on with by itself once it is inside a handler.
HandlerStep ==
  \/ PopTask \/ SignalNext \/ FailTimedOutTask
  \/ DrainTask \/ RejectTask
  \/ ResumeResponse \/ ResumeDataIn

Next ==
  \/ \E t \in Tasks : Submit(t) \/ QueueTaskStep(t) \/ HandleTimeout(t)
  \/ CheckForWork
  \/ \E c \in atTarget : ProcessSCSIResponse(c) \/ ReceiveFails(c) \/ ProcessEmptyDataIn(c)
  \/ ProcessNOPIn
  \/ TaskMgmtRequest
  \/ ProcessTaskMgmtRsp
  \/ HandleConnectionTimeout
  \/ HandlerStep

Spec == Init /\ [][Next]_vars

\* The workloop thread keeps running, a thread inside queueTask returns, the
\* SCSI stack's 20 second timer fires for a task that is not answered, and the
\* target answers a ping.  Nobody has to submit, and no SCSI command has to be
\* answered.
Fairness ==
  /\ WF_vars(HandlerStep)
  /\ WF_vars(CheckForWork)
  /\ WF_vars(ProcessNOPIn)
  /\ \A t \in Tasks : WF_vars(QueueTaskStep(t)) /\ WF_vars(HandleTimeout(t))

FairSpec == Spec /\ Fairness

-----------------------------------------------------------------------------

CallerState ==
  [pc : {"check", "enter", "link", "signal", "done"},
   first : BOOLEAN, prev : Node \cup {QHead}]

WorkloopState ==
  [pc : {"idle", "pop", "signal", "fail", "drain", "reject", "lookUp", "dataIn", "stale"},
   tag : Tags \cup {TaskMgmt, NoTask}]

ResumeState == {Idle} \cup [pc : {"lookUp", "dataIn", "stale"}, tag : Tasks]

TypeOK ==
  /\ taskQueue \in Seq(Node)
  /\ tail \in Node \cup {QHead}
  /\ newTask \in BOOLEAN
  /\ enabled \in BOOLEAN
  /\ caller \in [Tasks -> CallerState]
  /\ workloop \in WorkloopState
  /\ workloop.pc = "fail" => workloop.tag \in Tasks
  /\ workloop.pc = "reject" => workloop.tag \in Tags
  /\ workloop.pc \in {"lookUp", "dataIn", "stale"} => workloop.tag \in Tasks
  /\ resume \in ResumeState
  /\ scsi \in [Tasks -> {"free", "active"}]
  /\ use \in [Tags -> Nat]
  /\ sent \in [Tasks -> Nat]
  /\ armed \subseteq Tasks
  /\ atTarget \subseteq Command
  /\ pings \in Nat
  /\ tmfs \in [made : Nat, answered : Nat]
  /\ historyIdx \in 0 .. Window - 1

\* The target is executing the task of element n (or bouncing its ping).
InService(n) ==
  IF n.tag = Latency THEN pings > 0 ELSE Outstanding(n.tag) /\ n.tag \in armed

\* The workloop has taken t's element off the queue and has yet to complete t.
InHand(t) ==
  /\ workloop.tag = t
  /\ workloop.pc = "reject" \/ (workloop.pc \in {"signal", "fail"} /\ t \in armed)

\* Everything is at rest: no thread is inside queueTask, none inside a handler.
Quiet == workloop.pc = "idle" /\ \A t \in Tasks : caller[t].pc = "done"

\* Only the task at the head of the queue is at the target: a connection serves
\* its tasks one at a time (queueTask: "otherwise the task preceding this is
\* being processed; we'll get to this once that's done").
InFlightIsHead ==
  \A t \in Tasks :
    t \in armed => InHand(t) \/ (taskQueue # <<>> /\ taskQueue[1].tag = t)

\* A task's command is put on the wire at most once: two commands under one task
\* tag are one command executed twice (BeginTaskOnWorkloopThread).
SentOnce == \A t \in Tasks : sent[t] <= 1

\* While the connection is open, completeCurrentTask removes the element of the
\* task its caller has finished: "Task is complete, remove it from the queue".
\* (ProcessDataIn does it once more after a failed receive has closed the
\* connection and emptied the queue; what it removes then is another's.)
PopsOwnTask ==
  [][enabled /\ workloop.pc = "pop" /\ workloop'.pc = "signal"
       => taskQueue[1].tag = workloop.tag]_vars

\* A response completes the task whose command it answers: "Grab parallel task
\* associated with this PDU" (ProcessSCSIResponse).
StatusIsOwn ==
  [][\A c \in atTarget :
       c \notin atTarget' /\ Outstanding(c.tag) /\ ~Outstanding(c.tag)'
         => c.use = use[c.tag]]_vars

\* With work queued and everything at rest, either the workloop has been told or
\* the head is being served; otherwise no event is left that could start it
\* (queueTask and completeCurrentTask between them must not miss a wakeup).
NoLostWakeup ==
  Quiet /\ enabled /\ taskQueue # <<>> => newTask \/ InService(taskQueue[1])

\* DeactivateConnection's loop is running.
Draining == workloop.pc \in {"drain", "reject"}

\* A task the SCSI stack is waiting for stays in the queue until it is done, or
\* until the connection is closed and the drain loop has had its turn:
\* "Queue task in the event source (we'll remove it from the queue when were
\* done processing the task)" (ProcessParallelTask).
TaskStaysQueued ==
  enabled \/ Draining =>
    \A t \in Tasks :
      Outstanding(t) /\ caller[t].pc \in {"signal", "done"} =>
        InHand(t) \/ \E i \in DOMAIN taskQueue : taskQueue[i] = [tag |-> t, use |-> use[t]]

\* When DeactivateConnection's loop ends, the SCSI stack is left with no task, not
\* of those that were queued when it began, nor of those that it submitted from
\* the callbacks of the loop, nor of any that had lost their place in the queue:
\* "Tell driver stack that tasks have been rejected".
DeactivateRejectsAll == [][Draining /\ ~Draining' => \A t \in Tasks : ~Outstanding(t)']_vars

\* Every accepted task is eventually handed back, unless the connection was
\* deactivated (queueTask, completeCurrentTask, checkForWork and HandleTimeout
\* together).
EveryTaskReturns ==
  \A t \in Tasks : Outstanding(t) ~> (~Outstanding(t) \/ ~enabled)

\* Whatever happens to the queue, a task whose command was started is handed
\* back, unless the connection was deactivated: its timeout does not depend on
\* the queue (HandleTimeout).
StartedTaskReturns == \A t \in Tasks : t \in armed ~> (t \notin armed \/ ~enabled)
=============================================================================
