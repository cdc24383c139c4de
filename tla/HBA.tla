-------------------------------- MODULE HBA --------------------------------
(***************************************************************************)
(* The sessions, connections and SCSI targets the host bus adapter keeps   *)
(* (Source/Kernel/iSCSIVirtualHBA.cpp), and the part of the user client    *)
(* (iSCSIHBAUserClient.cpp) through which the daemon creates, activates,   *)
(* deactivates and releases them.                                          *)
(*                                                                         *)
(* Two kinds of threads run this code.  The workloop runs one handler at a *)
(* time and holds the command gate while it does; it finds out that a      *)
(* connection is lost.  The daemon's threads come in through the user      *)
(* client, which lets one of them in at a time (accessLock) but does not   *)
(* close the gate.  What a thread has still to do is the sequence of calls *)
(* on its stack: a call that calls others puts them in its place.  A call  *)
(* takes a step of its own wherever another thread can see or change what  *)
(* it has read or written.                                                 *)
(***************************************************************************)
EXTENDS Integers, Sequences, FiniteSets, FiniteSetsExt

CONSTANTS
    MaxSessions,        \* kMaxSessions
    MaxConnections,     \* kMaxConnectionsPerSession
    IQNs,               \* names of targets
    Clients,            \* the daemon's threads
    Workloop,           \* the thread of the workloop
    CountModulus,       \* numActiveConnections is a UInt32: 2^32
    AsyncEvents,        \* asynchronous messages the targets send
    MaxCreated,         \* bound: sessions ever created
    NoSession, None

ASSUME HBAConstants ==
    /\ MaxSessions \in Nat \ {0}
    /\ MaxConnections \in Nat \ {0}
    /\ CountModulus \in Nat \ {0}
    /\ MaxCreated \in Nat
    /\ Workloop \notin Clients
    /\ None \notin Clients \cup (0 .. MaxSessions - 1)
    /\ AsyncEvents \subseteq {"dropAllConnections", "dropConnection", "logout"}

VARIABLES
    sessionList,    \* the session in each slot
    targets,        \* session identifiers with a mounted SCSI target
    targetList,     \* session identifier under which a name was entered last
    notifications,  \* messages sent to the daemon, not yet handled
    accessLock,     \* the thread inside the user client
    calls,          \* what each thread has still to do
    created         \* ghost: sessions created so far

hbaVars == <<sessionList, targets, targetList, notifications, accessLock,
             calls, created>>

SessionIds == 0 .. MaxSessions - 1
ConnectionIds == 0 .. MaxConnections - 1
Threads == Clients \cup {Workloop}

\* A session has a number of its own in "gen" (ghost): the identifier, its slot,
\* is used again.  A connection is "idle" until it is activated.
Session == [gen : 1 .. MaxCreated, iqn : IQNs, active : 0 .. CountModulus - 1,
            connections : [ConnectionIds -> {"none", "idle", "enabled"}]]

ASSUME NoSessionIsNone == NoSession \notin Session

\* "gen" is the session a notification is about (ghost), 0 if there is none.
Notification == [type : {"timeout", "other"}, sid : SessionIds,
                 cid : ConnectionIds, gen : 0 .. MaxCreated]

Exists(sid) == sessionList[sid] # NoSession
Connections(sid) ==
    {cid \in ConnectionIds : sessionList[sid].connections[cid] # "none"}
Enabled(sid) ==
    {cid \in ConnectionIds : sessionList[sid].connections[cid] = "enabled"}
Connected(sid, cid) == Exists(sid) /\ cid \in Connections(sid)

\* Whether the session a thread holds a pointer to has not been freed.
Alive(sid, gen) == Exists(sid) /\ sessionList[sid].gen = gen

(***************************************************************************)
(* Calls.                                                                  *)
(***************************************************************************)
\* Calls that look up the session, and the connection, they are given.
Call(op, sid, cid) == [op |-> op, sid |-> sid, cid |-> cid, gen |-> 0]

\* What is left of a call that has looked up its session keeps the pointer.
Rest(op, call) ==
    [op |-> op, sid |-> call.sid, cid |-> call.cid,
     gen |-> IF call.gen = 0 THEN sessionList[call.sid].gen ELSE call.gen]

LockAccess == [op |-> "IOLockLock", sid |-> None, gen |-> 0]
UnlockAccess == [op |-> "IOLockUnlock", sid |-> None, gen |-> 0]

\* A method of the user client: one call under accessLock.
Method(call) == <<LockAccess, call, UnlockAccess>>

Running(t, op) == calls[t] # <<>> /\ Head(calls[t]).op = op

\* The head of t's stack is replaced by the calls it makes.
CallNext(t, next) == calls' = [calls EXCEPT ![t] = next \o Tail(@)]
Return(t) == CallNext(t, <<>>)

SetConnection(sid, cid, state) ==
    sessionList' = [sessionList EXCEPT ![sid].connections[cid] = state]

(***************************************************************************)
(* The user client's lock.                                                 *)
(***************************************************************************)
EnterUserClient(t) ==
    /\ Running(t, "IOLockLock")
    /\ accessLock = None
    /\ accessLock' = t
    /\ Return(t)
    /\ UNCHANGED <<sessionList, targets, targetList, notifications, created>>

LeaveUserClient(t) ==
    /\ Running(t, "IOLockUnlock")
    /\ accessLock' = None
    /\ Return(t)
    /\ UNCHANGED <<sessionList, targets, targetList, notifications, created>>

(***************************************************************************)
(* Creating.  Both run under accessLock, and nothing the workloop does     *)
(* meets a session or connection that is not activated: one step each.     *)
(***************************************************************************)
FreeSlots == {sid \in SessionIds : ~Exists(sid)}

CreateSession(iqn) ==
    /\ accessLock = None
    /\ FreeSlots # {}
    /\ created < MaxCreated
    /\ LET sid == Min(FreeSlots)
       IN  /\ sessionList' = [sessionList EXCEPT ![sid] =
                [gen |-> created + 1, iqn |-> iqn, active |-> 0,
                 connections |-> [cid \in ConnectionIds |->
                                    IF cid = 0 THEN "idle" ELSE "none"]]]
           /\ targetList' = [targetList EXCEPT ![iqn] = sid]
    /\ created' = created + 1
    /\ UNCHANGED <<targets, notifications, accessLock>>

\* Without a slot nothing happens; without a connection the session is undone,
\* with the name's entry whoever it stood for.
CreateSessionFails(iqn) ==
    /\ accessLock = None
    /\ targetList' = IF FreeSlots = {} THEN targetList
                     ELSE [targetList EXCEPT ![iqn] = None]
    /\ UNCHANGED <<sessionList, targets, notifications, accessLock, created>>

FreeConnections(sid) == ConnectionIds \ Connections(sid)

CreateConnection(sid) ==
    /\ accessLock = None
    /\ Exists(sid) /\ FreeConnections(sid) # {}
    /\ SetConnection(sid, Min(FreeConnections(sid)), "idle")
    /\ UNCHANGED <<targets, targetList, notifications, accessLock, created>>

(***************************************************************************)
(* Activating.  The connection is enabled first, and the workloop may find *)
(* it lost before the target is mounted or the connection is counted.      *)
(***************************************************************************)
ActivateConnection(t) ==
    /\ Running(t, "ActivateConnection")
    /\ LET c == Head(calls[t])
       IN  /\ Connected(c.sid, c.cid)
           /\ SetConnection(c.sid, c.cid, "enabled")
           /\ CallNext(t, <<Rest("mount", c)>>)
    /\ UNCHANGED <<targets, targetList, notifications, accessLock, created>>

MountFirst(t) ==
    /\ Running(t, "mount")
    /\ LET c == Head(calls[t])
           first == Alive(c.sid, c.gen) /\ sessionList[c.sid].active = 0
       IN  \/ /\ ~first
              /\ CallNext(t, <<Rest("increment", c)>>)
              /\ UNCHANGED <<sessionList, targets>>
           \/ /\ first /\ c.sid \notin targets
              /\ targets' = targets \cup {c.sid}
              /\ CallNext(t, <<Rest("increment", c)>>)
              /\ UNCHANGED sessionList
           \/ /\ first /\ c.sid \in targets
              /\ SetConnection(c.sid, c.cid, "idle")
              /\ Return(t)
              /\ UNCHANGED targets
    /\ UNCHANGED <<targetList, notifications, accessLock, created>>

\* OSIncrementAtomic and OSDecrementAtomic.  A session that was freed is
\* memory of no one.
AddToActive(sid, gen, n) ==
    sessionList' =
        IF Alive(sid, gen)
          THEN [sessionList EXCEPT ![sid].active = (@ + n) % CountModulus]
          ELSE sessionList

CountActive(t) ==
    /\ Running(t, "increment")
    /\ AddToActive(Head(calls[t]).sid, Head(calls[t]).gen, 1)
    /\ Return(t)
    /\ UNCHANGED <<targets, targetList, notifications, accessLock, created>>

(***************************************************************************)
(* Deactivating.  The count goes down whether or not the connection was    *)
(* active, and it is read again to see whether it was the last one.  The   *)
(* tasks that are rejected in between are in module TaskQueue.             *)
(***************************************************************************)
DeactivateConnection(t) ==
    /\ Running(t, "DeactivateConnection")
    /\ LET c == Head(calls[t])
       IN  /\ Connected(c.sid, c.cid)
           /\ SetConnection(c.sid, c.cid, "idle")
           /\ CallNext(t, <<Rest("decrement", c), Rest("unmount", c)>>)
    /\ UNCHANGED <<targets, targetList, notifications, accessLock, created>>

CountInactive(t) ==
    /\ Running(t, "decrement")
    /\ AddToActive(Head(calls[t]).sid, Head(calls[t]).gen, -1)
    /\ Return(t)
    /\ UNCHANGED <<targets, targetList, notifications, accessLock, created>>

UnmountLast(t) ==
    /\ Running(t, "unmount")
    /\ LET c == Head(calls[t])
           last == Alive(c.sid, c.gen) /\ sessionList[c.sid].active = 0
       IN  targets' = IF last THEN targets \ {c.sid} ELSE targets
    /\ Return(t)
    /\ UNCHANGED <<sessionList, targetList, notifications, accessLock, created>>

\* The same call for every slot of a session, in order: a slot that turns out to
\* be empty is passed over (LookUpFails).
ForConnections(op, sid) ==
    [i \in 1 .. MaxConnections |-> Call(op, sid, i - 1)]

DeactivateAllConnections(t) ==
    /\ Running(t, "DeactivateAllConnections")
    /\ LET sid == Head(calls[t]).sid
       IN  /\ Exists(sid)
           /\ CallNext(t, ForConnections("DeactivateConnection", sid))
    /\ UNCHANGED <<sessionList, targets, targetList, notifications,
                   accessLock, created>>

(***************************************************************************)
(* Releasing.  A connection is taken out of its session first.  Before it  *)
(* is freed its event sources leave the workloop, which waits for the      *)
(* command gate: for the end of the handler, unless the caller is one.     *)
(***************************************************************************)
\* Mutant: a connection is freed under the handler that uses it.
GateIgnored(t) == t = t

GateOpenFor(t) == t = Workloop \/ calls[Workloop] = <<>>

\* Mutant: a connection that is not active is deactivated, too.
ReleaseConnectionDeactivates(t) ==
    /\ Running(t, "ReleaseConnection")
    /\ LET c == Head(calls[t])
       IN  /\ Connected(c.sid, c.cid)
           /\ CallNext(t, <<Call("DeactivateConnection", c.sid, c.cid),
                            Rest("unlink", c), Rest("removeEventSources", c)>>)
    /\ UNCHANGED <<sessionList, targets, targetList, notifications,
                   accessLock, created>>

ReleaseConnection(t) ==
    /\ Running(t, "ReleaseConnection")
    /\ LET c == Head(calls[t])
       IN  /\ Connected(c.sid, c.cid)
           /\ CallNext(t,
                (IF c.cid \in Enabled(c.sid)
                   THEN <<Call("DeactivateConnection", c.sid, c.cid)>>
                   ELSE <<>>)
                \o <<Rest("unlink", c), Rest("removeEventSources", c)>>)
    /\ UNCHANGED <<sessionList, targets, targetList, notifications,
                   accessLock, created>>

UnlinkConnection(t) ==
    /\ Running(t, "unlink")
    /\ LET c == Head(calls[t])
       IN  IF Alive(c.sid, c.gen) THEN SetConnection(c.sid, c.cid, "none")
                                  ELSE UNCHANGED sessionList
    /\ Return(t)
    /\ UNCHANGED <<targets, targetList, notifications, accessLock, created>>

RemoveEventSources(t) ==
    /\ Running(t, "removeEventSources")
    /\ GateOpenFor(t)
    /\ Return(t)
    /\ UNCHANGED <<sessionList, targets, targetList, notifications,
                   accessLock, created>>

ReleaseSession(t) ==
    /\ Running(t, "ReleaseSession")
    /\ LET c == Head(calls[t])
       IN  /\ Exists(c.sid)
           /\ CallNext(t,
                ForConnections("ReleaseConnection", c.sid)
                \o <<Rest("free", c)>>)
    /\ UNCHANGED <<sessionList, targets, targetList, notifications,
                   accessLock, created>>

\* Mutant: the name keeps its entry.
FreeSessionKeepsName(t) ==
    /\ Running(t, "free")
    /\ sessionList' = [sessionList EXCEPT ![Head(calls[t]).sid] = NoSession]
    /\ Return(t)
    /\ UNCHANGED <<targets, targetList, notifications, accessLock, created>>

\* The slot is emptied ...
FreeSession(t) ==
    /\ Running(t, "free")
    /\ LET c == Head(calls[t])
       IN  /\ sessionList' = [sessionList EXCEPT ![c.sid] = NoSession]
           /\ CallNext(t, <<Call("removeName", c.sid, c.cid)>>)
    /\ UNCHANGED <<targets, targetList, notifications, accessLock, created>>

\* ... and then the first name that stands for its number is removed.
RemoveName(t) ==
    /\ Running(t, "removeName")
    /\ LET names == {iqn \in IQNs : targetList[iqn] = Head(calls[t]).sid}
       IN  \/ names = {} /\ UNCHANGED targetList
           \/ \E iqn \in names :
                 targetList' = [targetList EXCEPT ![iqn] = None]
    /\ Return(t)
    /\ UNCHANGED <<sessionList, targets, notifications, accessLock, created>>

\* Mutant: the session outlives its last connection.
ReleaseOnlyConnection(t) ==
    /\ Running(t, "ReleaseConnectionMethod")
    /\ LET c == Head(calls[t])
       IN  CallNext(t, <<Call("ReleaseConnection", c.sid, c.cid)>>)
    /\ UNCHANGED <<sessionList, targets, targetList, notifications,
                   accessLock, created>>

\* The user client's method: with its only connection goes the session.
ReleaseConnectionMethod(t) ==
    /\ Running(t, "ReleaseConnectionMethod")
    /\ LET c == Head(calls[t])
           only == Exists(c.sid) /\ Cardinality(Connections(c.sid)) = 1
       IN  CallNext(t, <<Call(IF only THEN "ReleaseSession"
                                      ELSE "ReleaseConnection", c.sid, c.cid)>>)
    /\ UNCHANGED <<sessionList, targets, targetList, notifications,
                   accessLock, created>>

(***************************************************************************)
(* Lost connections.  Either a handler of the workloop fails to send or    *)
(* receive, or a task's timer finds the socket closed, or a thread of the  *)
(* daemon fails in an exchange (module SessionManager).                    *)
(***************************************************************************)
HandleConnectionTimeout(t) ==
    /\ Running(t, "HandleConnectionTimeout")
    /\ LET c == Head(calls[t])
       IN  /\ Exists(c.sid)
           /\ CallNext(t,
                <<Call(IF Cardinality(Connections(c.sid)) > 1
                         THEN "DeactivateConnection"
                         ELSE "DeactivateAllConnections", c.sid, c.cid),
                  Rest("notifyTimeout", c)>>)
    /\ UNCHANGED <<sessionList, targets, targetList, notifications,
                   accessLock, created>>

Notify(n) == notifications' = Append(notifications, n)

SendTimeoutNotification(t) ==
    /\ Running(t, "notifyTimeout")
    /\ LET c == Head(calls[t])
       IN  Notify([type |-> "timeout", sid |-> c.sid, cid |-> c.cid,
                   gen |-> c.gen])
    /\ Return(t)
    /\ UNCHANGED <<sessionList, targets, targetList, accessLock, created>>

\* The message lacks the header that sendNotification() writes, and is sent
\* with the length of one that has it: the daemon reads what lies behind it.
SendAsyncNotification(t) ==
    /\ Running(t, "notifyAsync")
    /\ \E type \in {"timeout", "other"}, sid \in SessionIds,
          cid \in ConnectionIds :
         Notify([type |-> type, sid |-> sid, cid |-> cid, gen |-> 0])
    /\ Return(t)
    /\ UNCHANGED <<sessionList, targets, targetList, accessLock, created>>

\* The look-up at the start of a call fails and it returns.
LookUpFails(t) ==
    /\ calls[t] # <<>>
    /\ LET c == Head(calls[t])
       IN  \/ /\ c.op \in {"ActivateConnection", "DeactivateConnection",
                           "ReleaseConnection"}
              /\ ~Connected(c.sid, c.cid)
           \/ /\ c.op \in {"DeactivateAllConnections", "ReleaseSession",
                           "HandleConnectionTimeout"}
              /\ ~Exists(c.sid)
    /\ Return(t)
    /\ UNCHANGED <<sessionList, targets, targetList, notifications,
                   accessLock, created>>

(***************************************************************************)
(* The workloop starts a handler for an enabled connection.                *)
(***************************************************************************)
StartHandler(handler) ==
    /\ calls[Workloop] = <<>>
    /\ calls' = [calls EXCEPT ![Workloop] = handler]
    /\ UNCHANGED <<sessionList, targets, targetList, notifications,
                   accessLock, created>>

\* A handler that goes on after its first failure meets a second one.
ConnectionLost ==
    \E sid \in SessionIds, cid \in ConnectionIds, failures \in {1, 2} :
        /\ Connected(sid, cid) /\ cid \in Enabled(sid)
        /\ StartHandler([i \in 1 .. failures |->
                            Call("HandleConnectionTimeout", sid, cid)])

AsyncCall(event, sid, cid) ==
    CASE event = "dropAllConnections" -> Call("ReleaseSession", sid, cid)
      [] event = "dropConnection"     -> Call("ReleaseConnection", sid, cid)
      [] event = "logout"             -> Call("DeactivateConnection", sid, cid)

\* What is left of ProcessAsyncMsg() holds on to the session.
ProcessAsyncMsg ==
    \E sid \in SessionIds, cid \in ConnectionIds, event \in AsyncEvents :
        /\ Connected(sid, cid) /\ cid \in Enabled(sid)
        /\ StartHandler(<<AsyncCall(event, sid, cid),
                          Rest("notifyAsync", Call(event, sid, cid))>>)

\* One step of the call a thread is in.
Step(t) ==
    \/ EnterUserClient(t)
    \/ LeaveUserClient(t)
    \/ ActivateConnection(t)
    \/ MountFirst(t)
    \/ CountActive(t)
    \/ DeactivateConnection(t)
    \/ CountInactive(t)
    \/ UnmountLast(t)
    \/ DeactivateAllConnections(t)
    \/ ReleaseConnection(t)
    \/ UnlinkConnection(t)
    \/ RemoveEventSources(t)
    \/ ReleaseSession(t)
    \/ FreeSession(t)
    \/ RemoveName(t)
    \/ ReleaseConnectionMethod(t)
    \/ HandleConnectionTimeout(t)
    \/ SendTimeoutNotification(t)
    \/ SendAsyncNotification(t)
    \/ LookUpFails(t)

WorkloopStep == Step(Workloop)

HBAInit ==
    /\ sessionList = [sid \in SessionIds |-> NoSession]
    /\ targets = {}
    /\ targetList = [iqn \in IQNs |-> None]
    /\ notifications = <<>>
    /\ accessLock = None
    /\ calls = [t \in Threads |-> <<>>]
    /\ created = 0
=============================================================================
