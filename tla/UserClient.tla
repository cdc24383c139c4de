------------------------------ MODULE UserClient ------------------------------
(***************************************************************************)
(* The user client (Source/Kernel/iSCSIHBAUserClient.cpp): the calls by    *)
(* which the daemon creates, sets up, looks up and releases sessions and   *)
(* connections in the kernel, as the daemon's functions around them        *)
(* (Source/User/iscsid/iSCSIHBAInterface.c) make them, and the messages    *)
(* that come back.                                                         *)
(*                                                                         *)
(* A method runs under accessLock from beginning to end and is one step    *)
(* here; what the workloop can do within one is in module HBA.  Operators  *)
(* that change nothing stand for what a call returns, None for an error.   *)
(***************************************************************************)
EXTENDS Naturals, Sequences, FiniteSets, FiniteSetsExt

CONSTANTS
    MaxSessions,        \* kiSCSIMaxSessions
    MaxConnections,     \* kiSCSIMaxConnectionsPerSession
    IQNs, Portals,
    MaxCreated,         \* bound: sessions ever created
    MaxLost,            \* bound: connections ever lost
    None

ASSUME UserClientConstants ==
    /\ MaxSessions \in Nat \ {0}
    /\ MaxConnections \in Nat \ {0}
    /\ MaxCreated \in Nat
    /\ MaxLost \in Nat

\* Where there is nothing, it is not taken for something.
ASSUME NoneIsNothing ==
    /\ None \notin IQNs
    /\ None \notin 0 .. MaxSessions - 1
    /\ None \notin 0 .. MaxConnections - 1

VARIABLES
    sessionList,        \* the session in each slot
    targetList,         \* session identifier under which a name was entered last
    client,             \* whether a user client is attached
    accessLock,         \* whether a method has returned without releasing it
    notificationPort,   \* whether the client has registered its port
    messages,           \* timeout messages the daemon has not received
    created,            \* ghost: sessions created so far
    notMounted,         \* ghost: the sessions whose targets could not be mounted
    lost                \* ghost: connections lost so far

tableVars == <<sessionList, targetList, created, notMounted>>
kernelVars == <<tableVars, lost>>
clientVars == <<client, accessLock, notificationPort>>

Slots == 0 .. MaxSessions - 1
Cids == 0 .. MaxConnections - 1
SessionKeys == {"MaxBurstLength", "FirstBurstLength"}
ConnectionKeys == {"MaxRecvDataSegmentLength"}
Keys == SessionKeys \cup ConnectionKeys

\* A parameter's value is known by what it is a value of and by the session whose
\* login set it (ghost), 0 for the value the kernel gives it.
Value == [key : Keys, gen : 0 .. MaxCreated]
Initial(keys) == [key \in keys |-> [key |-> key, gen |-> 0]]

Connection == [portal : Portals, active : BOOLEAN,
               parameters : [ConnectionKeys -> Value]]
\* "gen" numbers the sessions (ghost): the identifier, its slot, is used again.
Session == [gen : 1 .. MaxCreated, parameters : [SessionKeys -> Value],
            connections : [Cids -> Connection \cup {None}]]
Message == [sid : Slots, cid : Cids, gen : 1 .. MaxCreated]

ASSUME NoneIsNoRecord == None \notin Session /\ None \notin Connection

Exists(sid) == sid \in Slots /\ sessionList[sid] # None
Connections(sid) ==
    {cid \in Cids : Exists(sid) /\ sessionList[sid].connections[cid] # None}
Active(sid) == {cid \in Connections(sid) :
                    sessionList[sid].connections[cid].active}
Gen(sid) == IF Exists(sid) THEN sessionList[sid].gen ELSE 0
FreeSlots == {sid \in Slots : ~Exists(sid)}

(***************************************************************************)
(* The client.                                                             *)
(***************************************************************************)
\* iSCSIHBAInterfaceCreate: the service is opened, then the port registered.
OpenInitiator ==
    /\ ~client
    /\ client' = TRUE /\ accessLock' = FALSE
    /\ UNCHANGED <<notificationPort, messages>> /\ UNCHANGED kernelVars

RegisterNotificationPort ==
    /\ client /\ ~notificationPort
    /\ notificationPort' = TRUE
    /\ UNCHANGED <<client, accessLock, messages>> /\ UNCHANGED kernelVars

\* The sessions stay as they are; messages that are not received are lost.
ClientDied ==
    /\ client' = FALSE /\ accessLock' = FALSE /\ notificationPort' = FALSE
    /\ messages' = <<>>
    /\ UNCHANGED kernelVars

\* Without a port the message is not sent, and nobody is told.
SendTimeoutMessage(sid, cid) ==
    messages' = IF notificationPort
                  THEN Append(messages, [sid |-> sid, cid |-> cid, gen |-> Gen(sid)])
                  ELSE messages

(***************************************************************************)
(* Creating and releasing.                                                 *)
(***************************************************************************)
NewConnection(portal) == [portal |-> portal, active |-> FALSE,
                          parameters |-> Initial(ConnectionKeys)]

NewSid == Min(FreeSlots)

CreateSession(iqn, portal) ==
    /\ FreeSlots # {} /\ created < MaxCreated
    /\ sessionList' = [sessionList EXCEPT ![NewSid] =
          [gen |-> created + 1, parameters |-> Initial(SessionKeys),
           connections |-> [cid \in Cids |->
                IF cid = 0 THEN NewConnection(portal) ELSE None]]]
    /\ targetList' = [targetList EXCEPT ![iqn] = NewSid]
    /\ created' = created + 1
    /\ UNCHANGED notMounted

\* Without a slot nothing happens; without a connection the session is undone,
\* with the name's entry whoever it stood for.
CreateSessionFails(iqn) ==
    /\ targetList' = IF FreeSlots = {} THEN targetList
                     ELSE [targetList EXCEPT ![iqn] = None]
    /\ UNCHANGED <<sessionList, created, notMounted>>

FreeConnections(sid) == Cids \ Connections(sid)
NewCid(sid) == Min(FreeConnections(sid))

CreateConnection(sid, portal) ==
    /\ Exists(sid) /\ FreeConnections(sid) # {}
    /\ sessionList' = [sessionList EXCEPT
                        ![sid].connections[NewCid(sid)] = NewConnection(portal)]
    /\ UNCHANGED <<targetList, created, notMounted>>

\* The first name that stands for the identifier goes with the session.
ReleaseSession(sid) ==
    LET names == {iqn \in IQNs : targetList[iqn] = sid}
    IN  /\ IF Exists(sid)
             THEN /\ sessionList' = [sessionList EXCEPT ![sid] = None]
                  /\ IF names = {} THEN UNCHANGED targetList
                     ELSE \E iqn \in names :
                            targetList' = [targetList EXCEPT ![iqn] = None]
             ELSE UNCHANGED <<sessionList, targetList>>
        /\ UNCHANGED <<created, notMounted>>

\* Mutant: the session outlives its only connection.
ReleaseConnectionOnly(sid, cid) ==
    /\ sessionList' = IF cid \in Connections(sid)
          THEN [sessionList EXCEPT ![sid].connections[cid] = None]
          ELSE sessionList
    /\ UNCHANGED <<targetList, created, notMounted>>

\* With the only connection goes the session, whichever connection was named.
ReleaseConnection(sid, cid) ==
    IF Cardinality(Connections(sid)) = 1
      THEN ReleaseSession(sid)
      ELSE /\ sessionList' = IF cid \in Connections(sid)
                THEN [sessionList EXCEPT ![sid].connections[cid] = None]
                ELSE sessionList
           /\ UNCHANGED <<targetList, created, notMounted>>

(***************************************************************************)
(* Activating and deactivating.  What the kernel makes of it is written    *)
(* where the caller does not look: it always reads success, also when the  *)
(* target of the first active connection cannot be mounted, and the        *)
(* connection is disabled again.                                           *)
(***************************************************************************)
SetActive(sid, cids, active) ==
    /\ sessionList' = IF ~Exists(sid) THEN sessionList
          ELSE [sessionList EXCEPT ![sid].connections =
                [cid \in Cids |-> IF cid \in cids \cap Connections(sid)
                                    THEN [@[cid] EXCEPT !.active = active]
                                    ELSE @[cid]]]
    /\ UNCHANGED <<targetList, created, notMounted>>

MountFails(sid, cid) ==
    /\ cid \in Connections(sid) /\ Active(sid) = {}
    /\ notMounted' = notMounted \cup {Gen(sid)}
    /\ UNCHANGED <<sessionList, targetList, created>>

ActivateConnection(sid, cid) == SetActive(sid, {cid}, TRUE) \/ MountFails(sid, cid)
DeactivateAllConnections(sid) == SetActive(sid, Cids, FALSE)

(***************************************************************************)
(* Parameters.  Those of a session that is not there are not set, and an   *)
(* error is returned.                                                      *)
(***************************************************************************)
SetSessionParameter(sid, value) ==
    /\ sessionList' = IF ~Exists(sid) THEN sessionList
          ELSE [sessionList EXCEPT ![sid].parameters[value.key] = value]
    /\ UNCHANGED <<targetList, created, notMounted>>

SetConnectionParameter(sid, cid, value) ==
    /\ sessionList' = IF cid \notin Connections(sid) THEN sessionList
          ELSE [sessionList EXCEPT
                    ![sid].connections[cid].parameters[value.key] = value]
    /\ UNCHANGED <<targetList, created, notMounted>>

\* Mutant: the parameter before the one that was asked for.
GetOtherParameter(sid, key) ==
    IF Exists(sid) THEN sessionList[sid].parameters["FirstBurstLength"] ELSE None

GetSessionParameter(sid, key) ==
    IF Exists(sid) THEN sessionList[sid].parameters[key] ELSE None

GetConnectionParameter(sid, cid, key) ==
    IF cid \in Connections(sid) /\ key \in ConnectionKeys
      THEN sessionList[sid].connections[cid].parameters[key] ELSE None

\* A key that the connection does not have: the method returns with the lock.
KeepsLock(sid, cid, key) == cid \in Connections(sid) /\ key \notin ConnectionKeys

(***************************************************************************)
(* Looking up.                                                             *)
(***************************************************************************)
GetConnection(sid) ==
    IF Connections(sid) = {} THEN None ELSE Min(Connections(sid))

GetSessionIdForTargetIQN(iqn) == targetList[iqn]

GetConnectionIdForPortalAddress(sid, portal) ==
    LET found == {cid \in Connections(sid) :
                    sessionList[sid].connections[cid].portal = portal}
    IN  IF found = {} THEN None ELSE Min(found)

\* Identifiers are returned in ascending order.
\* Mutant: the first slot is passed over.
GetSessionIdsFromOne == {sid \in Slots \ {0} : Exists(sid)}
GetSessionIds == {sid \in Slots : Exists(sid)}
GetConnectionIds(sid) == Connections(sid)

\* The names that may come first in the iteration.
GetTargetIQNForSessionId(sid) ==
    LET names == {iqn \in IQNs : targetList[iqn] = sid}
    IN  IF Exists(sid) /\ names # {} THEN names ELSE {None}

\* The three calls for a portal's address, port and host interface.
GetPortalForConnectionId(sid, cid) ==
    IF cid \in Connections(sid) THEN sessionList[sid].connections[cid].portal
                                ELSE None

(***************************************************************************)
(* The workloop, which does not take accessLock.                           *)
(***************************************************************************)
\* iSCSIVirtualHBA::HandleConnectionTimeout: without a client the session or
\* connection is released at once.
HandleConnectionTimeout(sid, cid) ==
    /\ lost < MaxLost /\ lost' = lost + 1
    /\ IF client
         THEN /\ SetActive(sid, IF Cardinality(Connections(sid)) > 1
                                  THEN {cid} ELSE Cids, FALSE)
              /\ SendTimeoutMessage(sid, cid)
         ELSE ReleaseConnection(sid, cid) /\ UNCHANGED messages

\* A handler finds an active connection lost.
ConnectionLost ==
    /\ \E sid \in Slots : \E cid \in Active(sid) : HandleConnectionTimeout(sid, cid)
    /\ UNCHANGED clientVars

\* The target drops an active session.
SessionDropped ==
    /\ \E sid \in Slots : Active(sid) # {} /\ ReleaseSession(sid)
    /\ lost < MaxLost /\ lost' = lost + 1
    /\ UNCHANGED messages /\ UNCHANGED clientVars

UserClientInit ==
    /\ sessionList = [sid \in Slots |-> None]
    /\ targetList = [iqn \in IQNs |-> None]
    /\ client = TRUE /\ accessLock = FALSE /\ notificationPort = TRUE
    /\ messages = <<>>
    /\ created = 0 /\ notMounted = {} /\ lost = 0
===============================================================================
