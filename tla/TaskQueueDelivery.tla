--------------------------- MODULE TaskQueueDelivery ---------------------------
(***************************************************************************)
(* TaskQueue implements TaskDelivery when every submission comes from the  *)
(* workloop thread and, while the connection is open, every popped element *)
(* is its caller's own.                                                    *)
(***************************************************************************)
EXTENDS TaskQueue, FiniteSets

\* The element of a task that has not been handed back yet.  A completed task's
\* element is still at the head until its handler removes it, and its tag may
\* be in use again by then.
Waiting(n) == n.tag \in Tasks /\ scsi[n.tag] = "active" /\ n.use = use[n.tag]

\* The task the workloop has removed but not yet handed back.
Removed ==
  IF workloop.tag \in Tasks /\ InHand(workloop.tag) /\ scsi[workloop.tag] = "active"
  THEN <<workloop.tag>>
  ELSE <<>>

\* The tags of the elements at these places of q, in the order they come in.
Only(set) == CHOOSE x \in set : TRUE
Rank(places, i) == Cardinality({j \in places : j <= i})
TagsAt(q, places) ==
  [k \in 1 .. Cardinality(places) |-> Only({q[i].tag : i \in {i \in places : Rank(places, i) = k}})]

Places == {i \in DOMAIN taskQueue : Waiting(taskQueue[i])}

line == Removed \o TagsAt(taskQueue, Places)

serving == line # <<>> /\ sent[line[1]] > 0

Delivery == INSTANCE TaskDelivery WITH open <- enabled

\* The queue delivers tasks in order, one at a time, and a task leaves it unserved
\* only after the connection was deactivated: handed back by the drain loop, or
\* removed by a handler that goes on after it (iSCSITaskQueue with
\* BeginTaskOnWorkloopThread and the response handlers of iSCSIVirtualHBA).
DeliversInOrder == Delivery!Spec
=============================================================================
