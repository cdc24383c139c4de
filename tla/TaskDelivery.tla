----------------------------- MODULE TaskDelivery -----------------------------
(***************************************************************************)
(* What one iSCSI connection promises the SCSI stack: tasks are served one *)
(* at a time, in the order in which they were accepted, and a task that is *)
(* not served leaves the line only after the connection has been closed.   *)
(***************************************************************************)
EXTENDS Naturals, Sequences

CONSTANT Tasks

VARIABLES
  line,     \* the accepted tasks that have not left it, oldest first
  serving,  \* the target is executing the first of them
  open      \* the connection is active

vars == <<line, serving, open>>

Init == line = <<>> /\ serving = FALSE /\ open = TRUE

Accept(t) ==
  /\ \A i \in DOMAIN line : line[i] # t
  /\ line' = Append(line, t)
  /\ UNCHANGED <<serving, open>>

Serve ==
  /\ open
  /\ line # <<>>
  /\ ~serving
  /\ serving' = TRUE
  /\ UNCHANGED <<line, open>>

\* The first task is done, or has timed out; or the connection is closed and
\* hands back the tasks that are left, or loses one.
HandBack ==
  /\ line # <<>>
  /\ serving \/ ~open
  /\ line' = Tail(line)
  /\ serving' = FALSE
  /\ UNCHANGED open

Close ==
  /\ open
  /\ open' = FALSE
  /\ UNCHANGED <<line, serving>>

Next == (\E t \in Tasks : Accept(t)) \/ Serve \/ HandBack \/ Close

Spec == Init /\ [][Next]_vars
=============================================================================
