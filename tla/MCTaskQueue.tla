----------------------------- MODULE MCTaskQueue -----------------------------
(* Small instances of TaskQueue for TLC. *)
EXTENDS TaskQueueSerial
CONSTANTS t1, t2, t3
=============================================================================
