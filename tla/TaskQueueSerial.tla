---------------------------- MODULE TaskQueueSerial ----------------------------
(***************************************************************************)
(* Why TaskQueue is right when its callers are serialised: the invariant   *)
(* that links the queue, the task in service and the wakeup flag.          *)
(***************************************************************************)
EXTENDS TaskQueueDelivery

\* The callers the queue was written for: everything on the workloop thread, no
\* task management functions, no tag is used again while an answer to it is still
\* on its way, and no task has the tag 0.
SerialCallers ==
  /\ OffThread = {}
  /\ Faults \cap {"taskMgmt", "earlyReuse"} = {}
  /\ ZeroTag \notin Tags

\* The element stands for the task the SCSI stack has outstanding.
Live(n) == n.tag \in Tasks => scsi[n.tag] = "active" /\ n.use = use[n.tag]

CallersAway ==
  /\ \A t \in Tasks : caller[t].pc = "done"
  /\ tmfs.answered = tmfs.made

\* The header's prev pointer is the last element; no element occurs twice.
QueueLinked ==
  /\ taskQueue = <<>> => tail = QHead
  /\ taskQueue # <<>> => tail = taskQueue[Len(taskQueue)]
  /\ \A i \in DOMAIN taskQueue : taskQueue[i].use <= use[taskQueue[i].tag]
  /\ \A i, j \in DOMAIN taskQueue : i # j => taskQueue[i] # taskQueue[j]

\* Every element is live, the head excepted while its handler is about to
\* remove it.
QueueLive ==
  \A i \in DOMAIN taskQueue : Live(taskQueue[i]) \/ (i = 1 /\ workloop.pc = "pop")

\* What a handler is about to remove while the connection is open is the head,
\* still live if it has yet to be failed, and it has been started.
PopsOwnHead ==
  enabled /\ workloop.pc = "pop" =>
    /\ taskQueue # <<>>
    /\ taskQueue[1].tag = workloop.tag
    /\ workloop.tag \in Tasks => (workloop.tag \in armed <=> Live(taskQueue[1]))
    /\ ~newTask

\* What the workloop has in hand is a task of this connection, outstanding until
\* it is completed, and it is no longer queued.
HoldsOneTask ==
  /\ enabled /\ workloop.pc \in {"signal", "fail"} => workloop.tag \in Tags
  /\ workloop.pc = "fail" => workloop.tag \in armed
  /\ workloop.pc = "reject" /\ workloop.tag \in Tasks => Outstanding(workloop.tag)
  /\ \A i \in DOMAIN taskQueue : ~InHand(taskQueue[i].tag) \/ taskQueue[i].tag = Latency

\* At most one task is in service, the one at the head or in the handler's hand.
OneInService ==
  /\ \A t \in armed : Outstanding(t)
  /\ InFlightIsHead
  /\ workloop.pc \in {"signal", "fail", "reject"} => armed \subseteq {workloop.tag}
  /\ \A t \in Tasks : sent[t] <= 1 /\ (t \notin armed => sent[t] = 0)
  /\ enabled /\ pings > 0 => /\ workloop.pc = "idle"
                             /\ pings = 1
                             /\ taskQueue # <<>>
                             /\ taskQueue[1].tag = Latency

\* The wakeup flag is set exactly for a head that has not been started.
WakeupDue ==
  /\ enabled /\ workloop.pc \in {"idle", "fail"} /\ taskQueue # <<>>
       => (newTask <=> ~InService(taskQueue[1]))

\* After deactivation the drain loop runs, and it leaves nothing in service; then
\* only the handler goes on in which the connection was found lost.
Deactivated ==
  ~enabled => /\ workloop.pc # "fail"
              /\ ~Draining => armed = {}

EnabledHandlers ==
  enabled => workloop.pc \notin {"drain", "reject", "lookUp", "dataIn", "stale"}

\* A handler goes on after the drain loop and finds that no task is left: one that
\* it had found before has been handed back.
ResumesAfterDrain ==
  /\ resume # Idle => Draining
  /\ resume.pc = "dataIn" => Outstanding(resume.tag)
  /\ workloop.pc # "dataIn"
  /\ workloop.pc \in {"lookUp", "stale"} => \A t \in Tasks : ~Outstanding(t)

\* An answer still to come belongs to the last task under its tag: the one in
\* service, or one that has timed out.
AnswersOwn ==
  \A c \in atTarget : c.use = use[c.tag] /\ c.copy = 1 /\ (Outstanding(c.tag) => c.tag \in armed)

\* While the connection is open, a task with a running timeout has been sent.  This
\* one is not part of SerialInv; the refinement of TaskDelivery needs it as well.
StartedIsSent == enabled => \A t \in armed : sent[t] > 0

SerialInv ==
  /\ TypeOK
  /\ CallersAway
  /\ QueueLinked
  /\ QueueLive
  /\ TaskStaysQueued
  /\ PopsOwnHead
  /\ HoldsOneTask
  /\ OneInService
  /\ WakeupDue
  /\ Deactivated
  /\ EnabledHandlers
  /\ ResumesAfterDrain
  /\ AnswersOwn
=============================================================================
