------------------------------ MODULE MCLogin ------------------------------
(* Jobs of each kind and with each way to authenticate, and targets that want   *)
(* less, more, or what is out of range.                                         *)
EXTENDS Login

Cfg == [MaxConnections |-> 0, ErrorRecoveryLevel |-> 1, DataDigest |-> TRUE, HeaderDigest |-> FALSE]

Job(kind, initiator, tgt, portals) ==
    [kind |-> kind, initiator |-> initiator, target |-> tgt, cfg |-> Cfg, portals |-> portals]

MCJobs ==
    {Job("login", "None", "None", 1), Job("login", "CHAP", "None", 2), Job("login", "CHAP", "CHAP", 1),
     Job("discover", "CHAP", "None", 1), Job("interrogate", "None", "None", 1)}

\* What it takes for two threads to meet.
MCShort == {Job("interrogate", "None", "None", 1)}

Less ==
    [Defaults EXCEPT !["MaxBurstLength"] = 4096, !["FirstBurstLength"] = 1024, !["InitialR2T"] = FALSE,
                     !["DefaultTime2Wait"] = 0, !["DefaultTime2Retain"] = 0]
More ==
    [Defaults EXCEPT !["MaxConnections"] = 8, !["MaxOutstandingR2T"] = 4, !["ErrorRecoveryLevel"] = 2,
                     !["DataDigest"] = TRUE, !["HeaderDigest"] = TRUE, !["ImmediateData"] = FALSE,
                     !["MaxRecvDataSegmentLength"] = 65536]
OutOfRange == [Defaults EXCEPT !["FirstBurstLength"] = 100, !["ImmediateData"] = TRUE]

MCPreferences == {Less, More, OutOfRange}
=============================================================================
