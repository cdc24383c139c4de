--------------------------- MODULE SessionManager ---------------------------
(***************************************************************************)
(* The daemon's session layer on top of the host bus adapter               *)
(* (Source/User/iscsid: iSCSISession.c, iSCSISessionManager.c, and the     *)
(* functions of iSCSIDaemon.c that call them).                             *)
(*                                                                         *)
(* The main thread's run loop takes requests of clients and notifications  *)
(* of the kernel, one at a time; a thread of its own runs SendTargets      *)
(* discovery.  Each of their calls into the kernel is a Method (module     *)
(* HBA), and between two of them others get in: what a thread knows of a   *)
(* session is its identifier.  An exchange of PDUs is its last call: it    *)
(* succeeds, or is refused, or the connection is lost in it.               *)
(*                                                                         *)
(* The model follows the daemon for one life, and ends when it dies.  What *)
(* a daemon leaves behind in the kernel is in module Requests.             *)
(***************************************************************************)
EXTENDS HBA

CONSTANTS
    Main,               \* the daemon's run loop
    Discovery,          \* the discovery thread
    DiscoveryIQN        \* kiSCSIUnspecifiedTargetIQN

ASSUME SessionManagerConstants ==
    /\ Clients = {Main, Discovery}
    /\ Main # Discovery
    /\ DiscoveryIQN \in IQNs

Idle(t) == calls[t] = <<>>
Begin(t, todo) == calls' = [calls EXCEPT ![t] = todo]

LoginCall(iqn) == [op |-> "login", sid |-> None, gen |-> 0, iqn |-> iqn]

\* An object is released that was never got: no call comes after it.
Crash == [op |-> "crash", sid |-> None, gen |-> 0]
Died == Running(Main, "crash")

\* The identifiers that CreateSession and CreateConnection return.
NewSid == Min(FreeSlots)
NewCid(sid) == Min(FreeConnections(sid))

LogoutCalls(sid) ==
    Method(Call("DeactivateAllConnections", sid, 0))
    \o <<Call("logoutExchange", sid, 0)>>
    \o Method(Call("ReleaseSession", sid, 0))

(***************************************************************************)
(* Login.                                                                  *)
(***************************************************************************)
\* iSCSISessionLogin: a session is created, and the exchange begins.  (A look-up
\* in the kernel needs accessLock for as long as it lasts.)
SessionLogin(t) ==
    /\ Running(t, "login")
    /\ accessLock = None
    /\ LET iqn == Head(calls[t]).iqn
       IN  /\ targetList[iqn] = None
           /\ \/ /\ CreateSession(iqn)
                 /\ CallNext(t, <<Call("loginExchange", NewSid, 0)>>)
              \/ CreateSessionFails(iqn) /\ Return(t)

\* iSCSISessionAddConnection: with the status code that its caller passes the
\* new connection is never negotiated, and released.
SessionAddConnection(t) ==
    /\ Running(t, "login")
    /\ accessLock = None
    /\ LET sid == targetList[Head(calls[t]).iqn]
       IN  /\ sid # None
           /\ \/ /\ CreateConnection(sid)
                 /\ CallNext(t, Method(Call("ReleaseConnectionMethod", sid,
                                            NewCid(sid))))
              \/ Return(t) /\ UNCHANGED <<sessionList, targets, targetList,
                                notifications, accessLock, created>>

\* What an exchange on a connection that is lost in it leaves to be done.
LostIn(c) == Method(Call("HandleConnectionTimeout", c.sid, c.cid))

LoginExchange(t) ==
    /\ Running(t, "loginExchange")
    /\ LET c == Head(calls[t])
           release == Method(Call("ReleaseSession", c.sid, 0))
       IN  \/ /\ Connected(c.sid, c.cid)
              /\ CallNext(t, Method(Call("ActivateConnection", c.sid, c.cid)))
           \/ CallNext(t, release)
           \/ /\ Connected(c.sid, c.cid)
              /\ CallNext(t, LostIn(c) \o release)
    /\ UNCHANGED <<sessionList, targets, targetList, notifications,
                   accessLock, created>>

\* Mutant: an exchange that fails is tried again as long as there is a connection.
ExchangeAgain(t) ==
    /\ Running(t, "exchange")
    /\ LET c == Head(calls[t])
       IN  \/ Return(t)
           \/ Connected(c.sid, c.cid) /\ CallNext(t, <<LockAccess, UnlockAccess, c>>)
    /\ UNCHANGED <<sessionList, targets, targetList, notifications,
                   accessLock, created>>

\* An exchange whose result does not matter to what comes next.
Exchange(t) ==
    /\ Running(t, "exchange")
    /\ LET c == Head(calls[t])
       IN  \/ Return(t)
           \/ Connected(c.sid, c.cid) /\ CallNext(t, LostIn(c))
    /\ UNCHANGED <<sessionList, targets, targetList, notifications,
                   accessLock, created>>

\* The same over the first connection that the session has.
LogoutExchange(t) ==
    /\ Running(t, "logoutExchange")
    /\ LET sid == Head(calls[t]).sid
       IN  \/ Return(t)
           \/ /\ Exists(sid) /\ Connections(sid) # {}
              /\ CallNext(t, LostIn(Call("exchange", sid, Min(Connections(sid)))))
    /\ UNCHANGED <<sessionList, targets, targetList, notifications,
                   accessLock, created>>

(***************************************************************************)
(* What the run loop starts.                                               *)
(***************************************************************************)
Login(iqn) ==
    /\ Idle(Main)
    /\ Begin(Main, <<LoginCall(iqn)>>)
    /\ UNCHANGED <<sessionList, targets, targetList, notifications,
                   accessLock, created>>

\* The identifier is looked up when the volumes have been unmounted.
Logout(iqn) ==
    /\ Idle(Main)
    /\ accessLock = None
    /\ targetList[iqn] # None
    /\ Begin(Main, LogoutCalls(targetList[iqn]))
    /\ UNCHANGED <<sessionList, targets, targetList, notifications,
                   accessLock, created>>

\* iSCSIQueryTargetForAuthMethod: a session of the same name, for one exchange.
QueryTarget(iqn) ==
    /\ Idle(Main)
    /\ \/ /\ CreateSession(iqn)
          /\ Begin(Main, <<Call("exchange", NewSid, 0)>>
                         \o Method(Call("ReleaseSession", NewSid, 0)))
       \/ CreateSessionFails(iqn) /\ UNCHANGED calls

\* What a timeout is about is released, and then the objects made for its target
\* and portal are, whether or not there are any.
ReleaseLost(sid, cid) == Method(Call("ReleaseConnectionMethod", sid, cid))

PortalCall(iqn, sid, cid) ==
    [op |-> "copyPortal", sid |-> sid, cid |-> cid, gen |-> 0, iqn |-> iqn]

\* A timeout: the target's name is looked up by the session's identifier.  Anything
\* else has no effect: for a logout request iSCSISessionRemoveConnection() is
\* called, and returns because the kernel never reports the number of connections.
HandleNotification ==
    /\ Idle(Main)
    /\ accessLock = None
    /\ notifications # <<>>
    /\ LET n == Head(notifications)
           names == {iqn \in IQNs : Exists(n.sid) /\ targetList[iqn] = n.sid}
       IN  \/ n.type = "other" /\ UNCHANGED calls
           \/ /\ n.type = "timeout" /\ names = {}
              /\ Begin(Main, ReleaseLost(n.sid, n.cid) \o <<Crash>>)
           \/ /\ n.type = "timeout"
              /\ \E iqn \in names : Begin(Main, <<PortalCall(iqn, n.sid, n.cid)>>)
    /\ notifications' = Tail(notifications)
    /\ UNCHANGED <<sessionList, targets, targetList, accessLock, created>>

\* The portal is looked up, too.  With both the target is logged in to again at
\* once if it is persistent and can be reached.
CopyPortal(t) ==
    /\ Running(t, "copyPortal")
    /\ accessLock = None
    /\ LET c == Head(calls[t])
           after == IF ~Connected(c.sid, c.cid) THEN {<<Crash>>}
                    ELSE {<<>>} \cup {<<LoginCall(iqn)>> : iqn \in {c.iqn} \ {DiscoveryIQN}}
       IN  \E next \in after : CallNext(t, ReleaseLost(c.sid, c.cid) \o next)
    /\ UNCHANGED <<sessionList, targets, targetList, notifications,
                   accessLock, created>>

(***************************************************************************)
(* Discovery: iSCSIQueryPortalForTargets.  A login that is refused reports *)
(* no error, and the query goes on with the identifier of the session that *)
(* has been released.                                                      *)
(***************************************************************************)
Discover ==
    /\ Idle(Discovery)
    /\ \/ /\ CreateSession(DiscoveryIQN)
          /\ Begin(Discovery, <<Call("discoveryLogin", NewSid, 0)>>)
       \/ CreateSessionFails(DiscoveryIQN) /\ UNCHANGED calls

DiscoveryLogin(t) ==
    /\ Running(t, "discoveryLogin")
    /\ LET c == Head(calls[t])
           release == Method(Call("ReleaseSession", c.sid, 0))
           query == <<Call("exchange", c.sid, c.cid)>> \o LogoutCalls(c.sid)
       IN  \/ Connected(c.sid, c.cid) /\ CallNext(t, query)
           \/ Connected(c.sid, c.cid) /\ CallNext(t, release \o query)
           \/ /\ Connected(c.sid, c.cid)
              /\ CallNext(t, LostIn(c) \o release)
           \/ ~Connected(c.sid, c.cid) /\ CallNext(t, release)
    /\ UNCHANGED <<sessionList, targets, targetList, notifications,
                   accessLock, created>>

ClientStep(t) ==
    \/ Step(t)
    \/ SessionLogin(t)
    \/ SessionAddConnection(t)
    \/ LoginExchange(t)
    \/ Exchange(t)
    \/ LogoutExchange(t)
    \/ DiscoveryLogin(t)
    \/ CopyPortal(t)

\* What the daemon and the kernel do as long as the daemon lives.
LiveStep ==
    \/ \E t \in Clients : ClientStep(t)
    \/ WorkloopStep
    \/ ConnectionLost
    \/ ProcessAsyncMsg
    \/ \E iqn \in IQNs \ {DiscoveryIQN} :
         Login(iqn) \/ Logout(iqn) \/ QueryTarget(iqn)
    \/ HandleNotification
    \/ Discover

Next ==
    \/ ~Died /\ LiveStep
    \/ Died /\ UNCHANGED hbaVars

Fairness ==
    /\ WF_hbaVars(~Died /\ WorkloopStep)
    /\ \A t \in Clients : SF_hbaVars(~Died /\ ClientStep(t))
    /\ SF_hbaVars(HandleNotification)

Spec == HBAInit /\ [][Next]_hbaVars /\ Fairness

(***************************************************************************)
(* Properties.                                                             *)
(***************************************************************************)
\* What is left of a call, with the pointer it holds, and calls by identifier.
HoldsSession == {"mount", "increment", "decrement", "unmount", "unlink",
                 "removeEventSources", "free", "notifyAsync"}
PointerCalls == HoldsSession \cup {"notifyTimeout"}
LookUpCalls == {"ActivateConnection", "DeactivateConnection",
                "DeactivateAllConnections", "ReleaseConnection",
                "ReleaseSession", "ReleaseConnectionMethod",
                "HandleConnectionTimeout", "removeName"}
Exchanges == {"loginExchange", "exchange", "logoutExchange", "discoveryLogin"}

SessionCall ==
    [op : LookUpCalls \cup Exchanges, sid : SessionIds, cid : ConnectionIds,
     gen : {0}]
    \cup [op : PointerCalls, sid : SessionIds, cid : ConnectionIds,
          gen : 1 .. MaxCreated]
OtherCall == [op : {"IOLockLock", "IOLockUnlock", "crash"}, sid : {None}, gen : {0}]
LoginRequest == [op : {"login"}, sid : {None}, gen : {0}, iqn : IQNs]
PortalRequest == [op : {"copyPortal"}, sid : SessionIds, cid : ConnectionIds,
                  gen : {0}, iqn : IQNs]
AnyCall == SessionCall \cup OtherCall \cup LoginRequest \cup PortalRequest

\* Every variable has its type.
TypeOK ==
    /\ sessionList \in [SessionIds -> Session \cup {NoSession}]
    /\ targets \subseteq SessionIds
    /\ targetList \in [IQNs -> SessionIds \cup {None}]
    /\ notifications \in Seq(Notification)
    /\ accessLock \in Clients \cup {None}
    /\ calls \in [Threads -> Seq(AnyCall)]
    /\ created \in 0 .. MaxCreated

\* The calls that run inside the user client, and those that leave their thread
\* inside when they are done.
KernelCalls == LookUpCalls \cup PointerCalls
Within == KernelCalls \cup {"IOLockUnlock"}
Entering == KernelCalls \cup {"IOLockLock"}
Nested(stack) ==
    \A i \in 1 .. Len(stack) :
        stack[i].op \in Entering <=> i < Len(stack) /\ stack[i + 1].op \in Within
Inside(t) == calls[t] # <<>> /\ Head(calls[t]).op \in Within

\* accessLock is held by the thread that is inside the user client, if there is
\* one: every call of the daemon into the kernel enters and leaves, also a send or
\* receive that finds its connection lost.  The workloop's handlers never enter.
UserClientExcludes ==
    /\ \A t \in Clients : Nested(calls[t]) /\ (accessLock = t <=> Inside(t))
    /\ \A i \in 1 .. Len(calls[Workloop]) : calls[Workloop][i].op \in KernelCalls

\* Some thread has still something to do with the session in a slot.
Busy(sid) ==
    \E t \in Threads : \E i \in 1 .. Len(calls[t]) : calls[t][i].sid = sid

\* A session that is left alone with an enabled connection has its target
\* mounted, and counts its enabled connections right.
ActiveSessionsAreMounted ==
    \A sid \in SessionIds :
        Exists(sid) /\ ~Busy(sid) /\ Enabled(sid) # {} =>
            /\ sid \in targets
            /\ sessionList[sid].active = Cardinality(Enabled(sid))

\* No thread is left with a pointer to a session that has been freed.
NoUseAfterFree ==
    \A t \in Threads : \A i \in 1 .. Len(calls[t]) :
        LET c == calls[t][i]
        IN  c.op \in HoldsSession => Alive(c.sid, c.gen)

\* A name stands for a session of that name, or for none; or for a slot that has
\* just been emptied, by a thread that has still to remove the name.
NamesStandForSessions ==
    \A iqn \in IQNs :
        LET sid == targetList[iqn]
        IN  sid # None =>
              \/ Exists(sid) /\ sessionList[sid].iqn = iqn
              \/ /\ ~Exists(sid)
                 /\ \E t \in Threads : Running(t, "removeName") /\ Head(calls[t]).sid = sid

\* A session whose loss has been reported is released, or the daemon dies of a
\* report about a session that was gone (iSCSIHBANotificationTimeoutMessageHandler).
SessionGone(gen) == \A sid \in SessionIds : ~Alive(sid, gen)
LossReported(gen) ==
    \E i \in 1 .. Len(notifications) :
        notifications[i].type = "timeout" /\ notifications[i].gen = gen
LostSessionsAreReleased ==
    \A gen \in 1 .. MaxCreated : LossReported(gen) ~> SessionGone(gen) \/ Died

\* Neither accessLock nor the command gate keeps a thread for ever, as long as the
\* daemon lives: each is idle again and again.
EveryCallReturns == \A t \in Threads : []<>(Idle(t) \/ Died)

\* Left alone, a target is mounted only for an enabled connection.
TargetsHaveConnections ==
    \A sid \in targets : ~Busy(sid) => Exists(sid) /\ Enabled(sid) # {}
=============================================================================
