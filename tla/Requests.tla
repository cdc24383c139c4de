------------------------------- MODULE Requests -------------------------------
(***************************************************************************)
(* What the daemon asks of the kernel for the requests of its clients, for *)
(* its notifications and its discovery: iSCSIDaemon.c, iSCSISession.c and  *)
(* iSCSISessionManager.c of Source/User/iscsid, and iSCSIDA.c of the       *)
(* framework, over module UserClient.                                      *)
(*                                                                         *)
(* A thread works through a list of calls.  What it knows of a session is  *)
(* the identifier that a look-up gave it; between two calls other threads  *)
(* get in.  Volumes are unmounted while the run loop does other things.    *)
(* What the messages of module Login say is of no interest here: an        *)
(* exchange succeeds, is refused, or its connection is lost.               *)
(***************************************************************************)
EXTENDS UserClient

CONSTANTS
    Main,               \* the daemon's run loop
    Discovery,          \* the discovery thread
    DiscoveryIQN        \* kiSCSIUnspecifiedTargetIQN

ASSUME RequestsConstants ==
    /\ Main # Discovery
    /\ DiscoveryIQN \in IQNs

VARIABLES
    daemon,         \* "down", "opened" (the user client) or "up"
    thread,         \* what each thread of the daemon is doing
    unmounting,     \* targets whose volumes are being unmounted
    activeTargets,  \* the portals of each target saved before sleep
    atStart,        \* ghost: sessions created by daemons that died
    reused          \* ghost: a slot was filled while its number was in use

daemonVars == <<daemon, unmounting, activeTargets, atStart, reused>>
vars == <<kernelVars, clientVars, messages, thread, daemonVars>>

Threads == {Main, Discovery}
Targets == IQNs \ {DiscoveryIQN}

(***************************************************************************)
(* Calls.                                                                  *)
(***************************************************************************)
Call(name) == [name |-> name, key |-> None]
Set(key) == [name |-> IF key \in SessionKeys THEN "SetSessionParameter"
                                             ELSE "SetConnectionParameter",
             key |-> key]
Get(key) == [name |-> IF key \in SessionKeys THEN "GetSessionParameter"
                                             ELSE "GetConnectionParameter",
             key |-> key]

LookUpTarget == <<Call("GetSessionIdForTargetIQN")>>
LookUpPortal == <<Call("GetConnectionIdForPortalAddress")>>
NegotiateCalls == <<Set("MaxRecvDataSegmentLength"), Set("MaxBurstLength"),
                    Set("FirstBurstLength")>>

\* Mutant: the last parameter is set on a session that is already active.
ActivatedEarly ==
    <<Call("exchange"), Set("MaxRecvDataSegmentLength"), Set("MaxBurstLength"),
      Call("ActivateConnection"), Set("FirstBurstLength")>>

\* iSCSISessionLogin, once the session has been created.
LoginCalls ==
    <<Call("exchange")>> \o NegotiateCalls \o <<Call("ActivateConnection")>>
\* iSCSISessionLogout.
LogoutCalls == <<Call("DeactivateAllConnections"), Call("GetConnection"),
                 Call("ReleaseSession")>>
\* iSCSIQueryPortalForTargets: a session that is never activated.
DiscoveryCalls ==
    <<Call("exchange")>> \o NegotiateCalls \o <<Call("query")>> \o LogoutCalls
\* iSCSISessionAddConnection: with the status code that its caller passes the
\* connection is never negotiated, and released.
AddConnectionCalls ==
    <<Call("CreateConnection"), Call("GetTargetIQNForSessionId"),
      Call("ReleaseConnection")>>
\* iSCSISessionRemoveConnection: GetNumConnections reports that it found nothing,
\* whatever it is asked for, and nothing more is done.
RemoveConnectionCalls == <<>>
\* Mutant: a connection's key is asked for that the kernel does not know.
UnknownKeyRead == <<[name |-> "GetConnectionParameter", key |-> "MaxBurstLength"]>>
\* iSCSISessionCopyCFPropertiesForTarget and ForPortal.
SessionReads == <<Get("MaxBurstLength"), Get("FirstBurstLength")>>
ConnectionReads == <<Get("MaxRecvDataSegmentLength")>>
\* iSCSIHBANotificationTimeoutMessageHandler.
TimeoutCalls == <<Call("GetTargetIQNForSessionId"), Call("GetPortalForConnectionId"),
                  Call("ReleaseConnection"), Call("timeoutCallback")>>
ForEachSession == <<Call("GetTargetIQNForSessionId")>>

\* What is done with a target that has a session, and what with one that has not.
Found == [login |-> LookUpPortal, wake |-> LookUpPortal,
          connectionReport |-> LookUpPortal, isPortalActive |-> LookUpPortal,
          logoutPortal |-> LookUpPortal, isTargetActive |-> <<>>,
          sessionReport |-> SessionReads, logout |-> <<Call("unmount")>>,
          logoutComplete |-> LogoutCalls]
LogsIn(op) == op \in {"login", "wake"}
Missing(op) == IF LogsIn(op) THEN <<Call("CreateSession")>> ELSE <<>>

\* The same for a portal that has a connection in the session.
PortalFound == [login |-> <<>>, wake |-> <<>>, isPortalActive |-> <<>>,
                connectionReport |-> ConnectionReads,
                logoutPortal |-> <<Call("GetConnectionIds")>>]
PortalMissing(op) == IF LogsIn(op) THEN <<Call("CreateConnection")>> ELSE <<>>

(***************************************************************************)
(* Threads.  A thread that has nothing left to call answers and is blank.  *)
(***************************************************************************)
NoReport == [key \in Keys |-> None]
\* "gen" is a ghost: the session that "sid" stood for when it was found.  "asOf"
\* (ghost) and "listed" tell when a list was read and how many identifiers were in
\* it, "ids" which are still to be looked at.
Blank == [op |-> "none", todo |-> <<>>, iqn |-> None, portal |-> None,
          sid |-> None, cid |-> None, gen |-> 0,
          asOf |-> 0, listed |-> 0, ids |-> <<>>, report |-> NoReport]

Busy(t) == thread[t].op # "none"
At(t, name) == /\ thread[t].todo # <<>> /\ Head(thread[t].todo).name = name
               /\ ~accessLock
Rest(t) == Tail(thread[t].todo)

\* The thread goes on with these calls.
Continue(t, todo) == thread' = [thread EXCEPT ![t].todo = todo]
Go(t, todo, th) == thread' = [thread EXCEPT ![t] = [th EXCEPT !.todo = todo]]

OnlyThread == UNCHANGED <<messages>> /\ UNCHANGED kernelVars
              /\ UNCHANGED clientVars /\ UNCHANGED daemonVars
OnlyTable == UNCHANGED <<messages, lost>> /\ UNCHANGED clientVars /\ UNCHANGED daemonVars

\* The daemon uses an object that it did not get, and dies.
Crash ==
    /\ ClientDied
    /\ daemon' = "down"
    /\ thread' = [t \in Threads |-> Blank]
    /\ unmounting' = {} /\ activeTargets' = None
    /\ atStart' = created
    /\ UNCHANGED reused

(***************************************************************************)
(* Looking up.                                                             *)
(***************************************************************************)
LookUpSession(t) ==
    /\ At(t, "GetSessionIdForTargetIQN")
    /\ LET th == thread[t]
           sid == GetSessionIdForTargetIQN(th.iqn)
       IN  Go(t, IF sid = None THEN Missing(th.op) ELSE Found[th.op],
              [th EXCEPT !.sid = sid, !.gen = Gen(sid)])
    /\ OnlyThread

LookUpConnection(t) ==
    /\ At(t, "GetConnectionIdForPortalAddress")
    /\ LET th == thread[t]
           cid == GetConnectionIdForPortalAddress(th.sid, th.portal)
       IN  Go(t, IF cid = None THEN PortalMissing(th.op) ELSE PortalFound[th.op],
              [th EXCEPT !.cid = cid])
    /\ OnlyThread

(***************************************************************************)
(* Login and discovery.                                                    *)
(***************************************************************************)
\* Somebody still means the slot's former session by its number.
NumberInUse(t, sid) ==
    \/ \E i \in 1 .. Len(messages) : messages[i].sid = sid
    \/ \E u \in unmounting : u.op = "sleepComplete" /\ u.sid = sid
    \/ \E other \in Threads \ {t} : thread[other].sid = sid

Create(t) ==
    /\ At(t, "CreateSession")
    /\ LET th == thread[t]
       IN  \/ /\ CreateSession(th.iqn, th.portal)
              /\ Go(t, IF t = Main THEN LoginCalls ELSE DiscoveryCalls,
                    [th EXCEPT !.sid = NewSid, !.cid = 0, !.gen = created + 1])
              /\ reused' = (reused \/ NumberInUse(t, NewSid))
           \/ CreateSessionFails(th.iqn) /\ Continue(t, <<>>) /\ UNCHANGED reused
    /\ UNCHANGED <<messages, lost, daemon, unmounting, activeTargets, atStart>>
    /\ UNCHANGED clientVars

\* Without a connection nothing more is done.
AddConnection(t) ==
    /\ At(t, "CreateConnection")
    /\ LET th == thread[t]
       IN  \/ /\ CreateConnection(th.sid, th.portal)
              /\ Go(t, Tail(AddConnectionCalls),
                    [th EXCEPT !.cid = NewCid(th.sid)])
           \/ Continue(t, <<>>) /\ UNCHANGED tableVars
    /\ OnlyTable

\* Mutant: a session whose login failed is left as it is.
LeftRefused(t) == <<>>

\* What follows when a login is refused: discovery is not told of it, and goes on
\* with the identifier of the session that it releases.
Refused(t) == <<Call("ReleaseSession")>>
              \o (IF t = Main THEN <<>> ELSE <<Call("query")>> \o LogoutCalls)

\* A connection that is lost in an exchange is found so by the thread itself.
Lost(t) == /\ thread[t].cid \in Connections(thread[t].sid)
           /\ HandleConnectionTimeout(thread[t].sid, thread[t].cid)

Exchange(t) ==
    /\ At(t, "exchange")
    /\ \/ /\ thread[t].cid \in Connections(thread[t].sid)
          /\ Continue(t, Rest(t)) /\ UNCHANGED <<kernelVars, messages>>
       \/ Continue(t, Refused(t)) /\ UNCHANGED <<kernelVars, messages>>
       \/ Continue(t, <<Call("ReleaseSession")>>) /\ Lost(t)
    /\ UNCHANGED clientVars /\ UNCHANGED daemonVars

Query(t) ==
    /\ At(t, "query")
    /\ Continue(t, Rest(t))
    /\ Lost(t) \/ UNCHANGED <<kernelVars, messages>>
    /\ UNCHANGED clientVars /\ UNCHANGED daemonVars

SetParameter(t) ==
    /\ At(t, "SetSessionParameter") \/ At(t, "SetConnectionParameter")
    /\ LET th == thread[t]
           value == [key |-> Head(th.todo).key, gen |-> th.gen]
       IN  IF value.key \in SessionKeys
             THEN SetSessionParameter(th.sid, value)
             ELSE SetConnectionParameter(th.sid, th.cid, value)
    /\ Continue(t, Rest(t))
    /\ OnlyTable

Activate(t) ==
    /\ At(t, "ActivateConnection")
    /\ ActivateConnection(thread[t].sid, thread[t].cid)
    /\ Continue(t, Rest(t))
    /\ OnlyTable

(***************************************************************************)
(* Logout and release.                                                     *)
(***************************************************************************)
Deactivate(t) ==
    /\ At(t, "DeactivateAllConnections")
    /\ DeactivateAllConnections(thread[t].sid)
    /\ Continue(t, Rest(t))
    /\ OnlyTable

\* The first connection that there is carries the exchange.
LogoutExchange(t) ==
    /\ At(t, "GetConnection")
    /\ LET cid == GetConnection(thread[t].sid)
       IN  IF cid = None THEN Continue(t, Rest(t))
           ELSE Go(t, <<Call("query")>> \o Rest(t), [thread[t] EXCEPT !.cid = cid])
    /\ OnlyThread

Release(t) ==
    /\ \/ At(t, "ReleaseSession") /\ ReleaseSession(thread[t].sid)
       \/ /\ At(t, "ReleaseConnection")
          /\ ReleaseConnection(thread[t].sid, thread[t].cid)
    /\ Continue(t, Rest(t))
    /\ OnlyTable

\* A SCSI target stands for the name as long as its session is active, and maybe one
\* is left over because of which the session's own could not be mounted.
Mounted(iqn) == \E sid \in Slots :
    targetList[iqn] = sid /\ (Active(sid) # {} \/ Gen(sid) \in notMounted)

\* iSCSIDAUnmountForTarget: of a target that is not there, or has no disk, nothing
\* is heard again.
Unmount(op, th) ==
    \/ UNCHANGED unmounting
    \/ /\ Mounted(th.iqn)
       /\ unmounting' = unmounting \cup
            {[op |-> op, iqn |-> th.iqn, sid |-> th.sid]}

LogoutUnmounts(t) ==
    /\ At(t, "unmount")
    /\ Unmount("logoutComplete", thread[t])
    /\ thread' = [thread EXCEPT ![t] = Blank]
    /\ UNCHANGED <<messages, daemon, activeTargets, atStart, reused>>
    /\ UNCHANGED kernelVars /\ UNCHANGED clientVars

\* iSCSIDLogout of a portal: with the only connection the session is logged out.
\* Without the session there is no array to count.
LogoutOfPortal(t) ==
    /\ At(t, "GetConnectionIds") /\ thread[t].op = "logoutPortal"
    /\ LET count == Cardinality(GetConnectionIds(thread[t].sid))
       IN  IF ~Exists(thread[t].sid) THEN Crash
           ELSE /\ Go(t, IF count = 1 THEN <<Call("unmount")>>
                         ELSE RemoveConnectionCalls,
                      [thread[t] EXCEPT !.op = "logout"])
                /\ OnlyThread

\* The last disk has answered.  The name is looked up again for a logout if every
\* disk was unmounted; before sleep the identifier is that of before, and what the
\* disks answer makes no difference.
DiskUnmountComplete ==
    /\ daemon = "up" /\ ~Busy(Main)
    /\ \E u \in unmounting :
        /\ unmounting' = unmounting \ {u}
        /\ \/ /\ u.op = "logoutComplete"
              /\ \E todo \in {LookUpTarget, <<>>} :
                   thread' = [thread EXCEPT ![Main] =
                        [Blank EXCEPT !.op = u.op, !.todo = todo, !.iqn = u.iqn]]
           \/ /\ u.op = "sleepComplete"
              /\ thread' = [thread EXCEPT ![Main] =
                    [Blank EXCEPT !.op = u.op, !.todo = LogoutCalls, !.iqn = u.iqn,
                                  !.sid = u.sid, !.gen = Gen(u.sid)]]
    /\ UNCHANGED <<messages, daemon, activeTargets, atStart, reused>>
    /\ UNCHANGED kernelVars /\ UNCHANGED clientVars

(***************************************************************************)
(* Reports.  A value that is not read stays out of the report here; in the *)
(* code it is the one read before it, or zero.                             *)
(***************************************************************************)
ReadParameter(t) ==
    /\ At(t, "GetSessionParameter") \/ At(t, "GetConnectionParameter")
    /\ LET th == thread[t]
           c == Head(th.todo)
           ofSession == c.name = "GetSessionParameter"
           value == IF ofSession THEN GetSessionParameter(th.sid, c.key)
                    ELSE GetConnectionParameter(th.sid, th.cid, c.key)
       IN  /\ Go(t, Tail(th.todo), [th EXCEPT !.report[c.key] = value])
           /\ accessLock' = (~ofSession /\ KeepsLock(th.sid, th.cid, c.key))
    /\ UNCHANGED <<client, notificationPort, messages>>
    /\ UNCHANGED kernelVars /\ UNCHANGED daemonVars

(***************************************************************************)
(* Lists of sessions and sleep.  The identifiers are 16 bits wide, and are *)
(* read as an array of pointers: the element after the first is the number *)
(* four further on, or what lies in the memory behind.                     *)
(***************************************************************************)
Nth(n, ids) == CHOOSE id \in ids : Cardinality({other \in ids : other < id}) = n - 1

PointerArrays(ids) ==
    {read \in [1 .. Cardinality(ids) -> Slots \cup {None}] :
        \A i \in 1 .. Cardinality(ids) :
            4 * i - 3 <= Cardinality(ids) => read[i] = Nth(4 * i - 3, ids)}

ListSessions(t) ==
    /\ At(t, "GetSessionIds")
    /\ \E ids \in PointerArrays(GetSessionIds) :
         Go(t, IF ids = <<>> THEN <<>> ELSE ForEachSession,
            [thread[t] EXCEPT !.ids = ids, !.listed = Len(ids), !.asOf = created])
    /\ activeTargets' = IF thread[t].op = "sleep" THEN [iqn \in IQNs |-> {}]
                                                  ELSE activeTargets
    /\ UNCHANGED <<messages, daemon, unmounting, atStart, reused>>
    /\ UNCHANGED kernelVars /\ UNCHANGED clientVars

\* The name goes into a list of targets; there is no null to be put in.
ListTarget(t) ==
    /\ At(t, "GetTargetIQNForSessionId") /\ thread[t].op = "listTargets"
    /\ LET ids == thread[t].ids
       IN  IF None \in GetTargetIQNForSessionId(Head(ids)) THEN Crash
           ELSE /\ Go(t, IF Tail(ids) = <<>> THEN <<>> ELSE ForEachSession,
                      [thread[t] EXCEPT !.ids = Tail(@)])
                /\ OnlyThread

\* Before sleep a session without a target is passed over.
SleepTarget(t) ==
    /\ At(t, "GetTargetIQNForSessionId") /\ thread[t].op = "sleep"
    /\ LET th == thread[t]
           sid == Head(th.ids)
       IN  \E iqn \in GetTargetIQNForSessionId(sid) :
             IF iqn = None
               THEN Go(t, IF Tail(th.ids) = <<>> THEN <<>> ELSE ForEachSession,
                       [th EXCEPT !.ids = Tail(@)])
               ELSE Go(t, <<Call("GetConnectionIds")>>,
                       [th EXCEPT !.ids = Tail(@), !.sid = sid, !.iqn = iqn])
    /\ OnlyThread

\* Its portals are saved, and its volumes unmounted.
SleepSession(t) ==
    /\ At(t, "GetConnectionIds") /\ thread[t].op = "sleep"
    /\ LET th == thread[t]
           cids == GetConnectionIds(th.sid)
       IN  IF cids = {} THEN Crash
           ELSE /\ activeTargets' = [activeTargets EXCEPT ![th.iqn] =
                        {GetPortalForConnectionId(th.sid, Min(cids))}]
                /\ Unmount("sleepComplete", th)
                /\ Continue(t, IF th.ids = <<>> THEN <<>> ELSE ForEachSession)
                /\ UNCHANGED <<messages, daemon, atStart, reused>>
                /\ UNCHANGED kernelVars /\ UNCHANGED clientVars

(***************************************************************************)
(* Notifications.                                                          *)
(***************************************************************************)
HandleNotification ==
    /\ daemon = "up" /\ ~Busy(Main) /\ messages # <<>>
    /\ LET m == Head(messages)
       IN  thread' = [thread EXCEPT ![Main] =
                [Blank EXCEPT !.op = "timeout", !.todo = TimeoutCalls,
                              !.sid = m.sid, !.cid = m.cid, !.gen = m.gen]]
    /\ messages' = Tail(messages)
    /\ UNCHANGED kernelVars /\ UNCHANGED clientVars /\ UNCHANGED daemonVars

\* The target of a session that is there, for the notification or a connection.
CopyTarget(t) ==
    /\ At(t, "GetTargetIQNForSessionId")
    /\ LET th == thread[t]
       IN  \E iqn \in GetTargetIQNForSessionId(th.sid) :
            \/ /\ th.op = "timeout"
               /\ Go(t, Rest(t), [th EXCEPT !.iqn = iqn])
               /\ OnlyThread
            \/ /\ LogsIn(th.op)
               /\ IF iqn = None THEN Crash ELSE Continue(t, Rest(t)) /\ OnlyThread

CopyPortal(t) ==
    /\ At(t, "GetPortalForConnectionId")
    /\ Go(t, Rest(t), [thread[t] EXCEPT
            !.portal = GetPortalForConnectionId(thread[t].sid, thread[t].cid)])
    /\ OnlyThread

\* A persistent target that can be reached is logged in to at once; one that
\* cannot, later (Login).  What was not found is released all the same.
TimeoutCallback(t) ==
    /\ At(t, "timeoutCallback")
    /\ LET th == thread[t]
       IN  IF th.iqn = None \/ th.portal = None THEN Crash
           ELSE /\ \/ Continue(t, <<>>)
                   \/ /\ th.iqn # DiscoveryIQN
                      /\ thread' = [thread EXCEPT ![t] =
                            [Blank EXCEPT !.op = "login", !.todo = LookUpTarget,
                                          !.iqn = th.iqn, !.portal = th.portal]]
                /\ OnlyThread

(***************************************************************************)
(* What the run loop and the discovery thread begin and end.               *)
(***************************************************************************)
Begin(t, op, todo, iqn, portal) ==
    /\ daemon = "up" /\ ~Busy(t)
    /\ thread' = [thread EXCEPT ![t] =
            [Blank EXCEPT !.op = op, !.todo = todo, !.iqn = iqn, !.portal = portal]]

\* A logout of the target is waited for by the client that asked for it.
Waiting(op) == \E u \in unmounting : u.op = op

Request(op, iqn, portal) ==
    /\ op \in {"logout", "logoutPortal"} => ~Waiting("logoutComplete")
    /\ Begin(Main, op, LookUpTarget, iqn, portal)
    /\ OnlyThread

ListActiveTargets ==
    Begin(Main, "listTargets", <<Call("GetSessionIds")>>, None, None) /\ OnlyThread

Sleep ==
    /\ ~Waiting("sleepComplete")
    /\ Begin(Main, "sleep", <<Call("GetSessionIds")>>, None, None)
    /\ OnlyThread

\* iSCSIDRestoreFromSystemSleep: one login after another, then the list is released.
Wake ==
    /\ activeTargets # None
    /\ Begin(Main, "wake", <<>>, None, None)
    /\ OnlyThread

Woken == \A iqn \in IQNs : activeTargets[iqn] = {}

NextLogin(t) ==
    /\ thread[t].op = "wake" /\ thread[t].todo = <<>>
    /\ IF Woken THEN /\ activeTargets' = None
                     /\ thread' = [thread EXCEPT ![t] = Blank]
       ELSE \E iqn \in IQNs : \E portal \in activeTargets[iqn] :
              /\ activeTargets' = [activeTargets EXCEPT ![iqn] = @ \ {portal}]
              /\ Go(t, LookUpTarget, [Blank EXCEPT !.op = "wake", !.iqn = iqn,
                                                   !.portal = portal])
    /\ UNCHANGED <<messages, daemon, unmounting, atStart, reused>>
    /\ UNCHANGED kernelVars /\ UNCHANGED clientVars

Discover ==
    /\ \E portal \in Portals :
         Begin(Discovery, "discovery", <<Call("CreateSession")>>, DiscoveryIQN, portal)
    /\ OnlyThread

Return(t) ==
    /\ Busy(t) /\ thread[t].op # "wake" /\ thread[t].todo = <<>>
    /\ thread' = [thread EXCEPT ![t] = Blank]
    /\ OnlyThread

\* The daemon is started again when it has died.
Restart ==
    \/ /\ daemon = "down"
       /\ OpenInitiator
       /\ daemon' = "opened"
       /\ UNCHANGED <<thread, unmounting, activeTargets, atStart, reused>>
    \/ /\ daemon = "opened"
       /\ RegisterNotificationPort
       /\ daemon' = "up"
       /\ UNCHANGED <<thread, unmounting, activeTargets, atStart, reused>>

(***************************************************************************)
(* The system.                                                             *)
(***************************************************************************)
ThreadStep(t) ==
    \/ LookUpSession(t)
    \/ LookUpConnection(t)
    \/ Create(t)
    \/ AddConnection(t)
    \/ Exchange(t)
    \/ Query(t)
    \/ SetParameter(t)
    \/ Activate(t)
    \/ Deactivate(t)
    \/ LogoutExchange(t)
    \/ Release(t)
    \/ LogoutUnmounts(t)
    \/ LogoutOfPortal(t)
    \/ ReadParameter(t)
    \/ ListSessions(t)
    \/ ListTarget(t)
    \/ SleepTarget(t)
    \/ SleepSession(t)
    \/ CopyTarget(t)
    \/ CopyPortal(t)
    \/ TimeoutCallback(t)
    \/ NextLogin(t)
    \/ Return(t)

OfTarget == {"logout", "sessionReport", "isTargetActive"}
OfPortal == {"login", "logoutPortal", "connectionReport", "isPortalActive"}

Next ==
    \/ \E t \in Threads : ThreadStep(t)
    \/ \E op \in OfTarget, iqn \in Targets : Request(op, iqn, None)
    \/ \E op \in OfPortal, iqn \in Targets, portal \in Portals :
         Request(op, iqn, portal)
    \/ ListActiveTargets
    \/ Sleep
    \/ Wake
    \/ Discover
    \/ HandleNotification
    \/ DiskUnmountComplete
    \/ Restart
    \/ (ConnectionLost \/ SessionDropped) /\ UNCHANGED thread /\ UNCHANGED daemonVars

Init ==
    /\ UserClientInit
    /\ daemon = "up"
    /\ thread = [t \in Threads |-> Blank]
    /\ unmounting = {}
    /\ activeTargets = None
    /\ atStart = 0
    /\ reused = FALSE

Spec == Init /\ [][Next]_vars

(***************************************************************************)
(* Properties.                                                             *)
(***************************************************************************)
Ops == OfTarget \cup OfPortal \cup
       {"none", "discovery", "listTargets", "sleep", "wake", "timeout",
        "logoutComplete", "sleepComplete"}
CallNames == {"GetSessionIdForTargetIQN", "GetConnectionIdForPortalAddress",
              "CreateSession", "CreateConnection", "exchange", "query",
              "ActivateConnection", "DeactivateAllConnections", "GetConnection",
              "ReleaseSession", "ReleaseConnection", "unmount", "GetSessionIds",
              "GetConnectionIds", "GetTargetIQNForSessionId",
              "GetPortalForConnectionId", "timeoutCallback"}
Calls == {Call(name) : name \in CallNames}
         \cup {Set(key) : key \in Keys} \cup {Get(key) : key \in Keys}
Thread == [op : Ops, todo : Seq(Calls),
           iqn : IQNs \cup {None}, portal : Portals \cup {None},
           sid : Slots \cup {None}, cid : Cids \cup {None},
           gen : 0 .. MaxCreated, asOf : 0 .. MaxCreated,
           listed : 0 .. MaxSessions, ids : Seq(Slots \cup {None}),
           report : [Keys -> Value \cup {None}]]

\* Every variable has its type.
TypeOK ==
    /\ sessionList \in [Slots -> Session \cup {None}]
    /\ targetList \in [IQNs -> Slots \cup {None}]
    /\ messages \in Seq(Message)
    /\ client \in BOOLEAN /\ accessLock \in BOOLEAN /\ notificationPort \in BOOLEAN
    /\ created \in 0 .. MaxCreated /\ lost \in 0 .. MaxLost
    /\ notMounted \subseteq 1 .. MaxCreated
    /\ daemon \in {"down", "opened", "up"}
    /\ thread \in [Threads -> Thread]
    /\ unmounting \in SUBSET [op : {"logoutComplete", "sleepComplete"},
                              iqn : IQNs, sid : Slots]
    /\ activeTargets \in [IQNs -> SUBSET Portals] \cup {None}
    /\ atStart \in 0 .. created /\ reused \in BOOLEAN

\* When the report of a session or connection is sent, and the session it was found
\* for is still there, it holds every parameter as it is in the kernel, none of
\* them that of another session or another parameter
\* (iSCSISessionCopyCFPropertiesForTarget and ForPortal).
ReportIsOfTarget ==
    \A t \in Threads :
        LET th == thread[t]
            told == /\ th.todo = <<>> /\ th.sid # None
                    /\ Gen(th.sid) = th.gen /\ th.gen # 0
            s == sessionList[th.sid]
        IN  /\ told /\ th.op = "sessionReport" /\ ~reused =>
                 \A key \in SessionKeys : th.report[key] = s.parameters[key]
            /\ told /\ th.op = "connectionReport" /\ th.cid # None /\ ~reused =>
                 \A key \in ConnectionKeys :
                    th.report[key] = s.connections[th.cid].parameters[key]

\* An active session has every parameter as its own login agreed on it, as long as
\* no slot is filled whose number is still in use (iSCSISessionLogin, on the run
\* loop and in discovery at once).
ActiveIsSetUp ==
    ~reused => \A sid \in Slots : Active(sid) # {} =>
        LET s == sessionList[sid]
        IN  /\ \A key \in SessionKeys : s.parameters[key] = [key |-> key, gen |-> s.gen]
            /\ \A cid \in Active(sid), key \in ConnectionKeys :
                 s.connections[cid].parameters[key] = [key |-> key, gen |-> s.gen]

\* A session that this daemon created and that has no active connection is in the
\* hands of one of its threads, or a message tells of it: none is left behind in
\* the kernel, by a refused login, a lost connection or a logout.  The only one that
\* is left behind is that whose target could not be mounted: the daemon is not told.
InactiveIsInHand ==
    ~reused => \A sid \in Slots :
        Gen(sid) > atStart /\ Active(sid) = {} /\ Gen(sid) \notin notMounted =>
            \/ \E t \in Threads : Busy(t) /\ thread[t].gen = Gen(sid)
            \/ \E i \in 1 .. Len(messages) : messages[i].gen = Gen(sid)

\* When the only session there was has been looked at before sleep, and it is still
\* there, its target is among those that wake logs in to again
\* (iSCSIDPrepareForSystemSleep; of several sessions some may be missed).
SleepSavesTarget ==
    LET th == thread[Main]
    IN  /\ th.op = "sleep" /\ th.todo = <<>> /\ activeTargets # None
        /\ th.listed <= 1
        => \A sid \in Slots, iqn \in IQNs :
             /\ Active(sid) # {} /\ Gen(sid) <= th.asOf /\ targetList[iqn] = sid
             => activeTargets[iqn] # {}

\* No method has returned to the daemon without releasing the user client's lock:
\* every later call would wait for ever (iSCSIHBAUserClient::GetConnectionParameter
\* does so for a key that it does not know).
LockIsReleased == ~accessLock
===============================================================================
