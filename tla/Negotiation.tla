----------------------------- MODULE Negotiation -----------------------------
(***************************************************************************)
(* The operational keys of a login (iSCSISession.c): what the initiator    *)
(* offers, what it makes of the target's answers, and what it stores with  *)
(* the kernel.  A dictionary of key-value pairs is a function; a value is  *)
(* a number, or a Boolean for Yes and No, or for CRC32C and None.          *)
(***************************************************************************)
EXTENDS Naturals

(***************************************************************************)
(* Keys.                                                                   *)
(***************************************************************************)
OrKeys == {"InitialR2T"}
AndKeys == {"ImmediateData", "DataPDUInOrder", "DataSequenceInOrder"}
DigestKeys == {"DataDigest", "HeaderDigest"}
SizeKeys == {"MaxBurstLength", "FirstBurstLength"}
CommonKeys == {"DefaultTime2Retain", "DefaultTime2Wait", "ErrorRecoveryLevel"}
NormalKeys == {"MaxConnections", "MaxOutstandingR2T"} \cup SizeKeys \cup OrKeys \cup AndKeys
ConnectionKeys == DigestKeys \cup {"MaxRecvDataSegmentLength"}
Keys == CommonKeys \cup NormalKeys \cup ConnectionKeys

\* The keys whose value is Yes or No, or a digest.
Switches == OrKeys \cup AndKeys \cup DigestKeys

\* The values of iSCSIRFC3720Defaults.h, which the kernel starts from.
DefaultNumber(k) ==
    CASE k \in {"MaxConnections", "MaxOutstandingR2T"} -> 1
      [] k = "MaxBurstLength" -> 262144
      [] k = "FirstBurstLength" -> 65536
      [] k = "MaxRecvDataSegmentLength" -> 8192
      [] k = "DefaultTime2Retain" -> 20
      [] k = "DefaultTime2Wait" -> 2
      [] OTHER -> 0

Defaults == [k \in Keys |-> IF k \in Switches THEN k \notin DigestKeys ELSE DefaultNumber(k)]

\* The limits that are tested.  The upper limit of a length is written 2e24 - 1,
\* which is more than a UInt32 holds, and there is none for MaxBurstLength.
InRange(k, v) ==
    CASE k \in {"MaxConnections", "MaxOutstandingR2T"} -> v \in 1 .. 65535
      [] k \in {"FirstBurstLength", "MaxRecvDataSegmentLength"} -> v >= 512
      [] k \in {"DefaultTime2Retain", "DefaultTime2Wait"} -> v <= 3600
      [] k = "ErrorRecoveryLevel" -> v <= 2
      [] OTHER -> TRUE

(***************************************************************************)
(* The offer: the defaults, but for what the preferences of a target set.  *)
(* For a discovery session the keys of a normal one are left out.          *)
(***************************************************************************)
Offer(cfg, discovery) ==
    [k \in IF discovery THEN Keys \ NormalKeys ELSE Keys |->
        CASE k \in DigestKeys -> cfg[k]
          [] k = "MaxConnections" /\ cfg[k] # 0 -> cfg[k]
          [] k = "ErrorRecoveryLevel" /\ cfg[k] \in 0 .. 2 -> cfg[k]
          [] OTHER -> Defaults[k]]

(***************************************************************************)
(* The answer of a target that keeps to the protocol (RFC 3720, section    *)
(* 12) and prefers the values of prefs, as far as it is not refused.       *)
(***************************************************************************)
Answer(offer, prefs) ==
    [k \in DOMAIN offer |->
        CASE k \in OrKeys \cup {"DataPDUInOrder", "DataSequenceInOrder"} -> offer[k] \/ prefs[k]
          [] k \in DigestKeys \cup {"ImmediateData"} -> offer[k] /\ prefs[k]
          [] k = "DefaultTime2Wait" -> IF prefs[k] > offer[k] THEN prefs[k] ELSE offer[k]
          [] k = "MaxRecvDataSegmentLength" -> prefs[k]
          [] OTHER -> IF prefs[k] < offer[k] THEN prefs[k] ELSE offer[k]]

(***************************************************************************)
(* What the initiator makes of an answer.                                  *)
(***************************************************************************)
LVGetMin(cmd, rsp) == IF cmd < rsp THEN cmd ELSE rsp
LVGetAnd(cmd, rsp) == cmd /\ rsp
LVGetOr(cmd, rsp) == cmd \/ rsp
LVGetEqual(cmd, rsp) == cmd = rsp

\* Mutant: the greater value is taken.
CombineMax(k, cmd, rsp) ==
    CASE k \in OrKeys -> LVGetOr(cmd, rsp)
      [] k \in AndKeys -> LVGetAnd(cmd, rsp)
      [] k \in DigestKeys -> LVGetEqual(cmd, rsp) /\ rsp
      [] k = "MaxRecvDataSegmentLength" -> rsp
      [] OTHER -> IF cmd > rsp THEN cmd ELSE rsp

\* The value that is stored for key k.
Combine(k, cmd, rsp) ==
    CASE k \in OrKeys -> LVGetOr(cmd, rsp)
      [] k \in AndKeys -> LVGetAnd(cmd, rsp)
      [] k \in DigestKeys -> LVGetEqual(cmd, rsp) /\ rsp
      [] k = "MaxRecvDataSegmentLength" -> rsp
      [] OTHER -> LVGetMin(cmd, rsp)

\* The length of a first burst means nothing when there is none.
FirstBurstCounts(offer, rsp) ==
    \/ ~("InitialR2T" \in DOMAIN rsp /\ Combine("InitialR2T", offer["InitialR2T"], rsp["InitialR2T"]))
    \/ "ImmediateData" \in DOMAIN rsp /\ Combine("ImmediateData", offer["ImmediateData"], rsp["ImmediateData"])

\* The keys of an answer that are looked at.
Counted(offer, rsp) ==
    {k \in DOMAIN rsp : k = "FirstBurstLength" => FirstBurstCounts(offer, rsp)}

\* ENOTSUP: a key that is not there, or is out of range.
NotSupported(offer, rsp) ==
    \/ ~(CommonKeys \subseteq DOMAIN rsp)
    \/ \E k \in Counted(offer, rsp) : ~InRange(k, rsp[k])

\* What the kernel has of the session and connection when an answer is stored.
Store(settings, offer, rsp) ==
    [k \in Keys |->
        IF k \in Counted(offer, rsp) THEN Combine(k, offer[k], rsp[k])
        ELSE IF k \in DigestKeys THEN FALSE
        ELSE settings[k]]
=============================================================================
