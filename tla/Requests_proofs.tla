---------------------------- MODULE Requests_proofs ----------------------------
(***************************************************************************)
(* Machine-checked facts about UserClient and Requests, for any number of  *)
(* slots, connections, names, portals and sessions: the types of their     *)
(* variables, that no method returns with the lock, that an active session *)
(* is set up, that a report is of the target it was asked for, that no     *)
(* session is left behind, and that sleep saves the target of the only     *)
(* one.  Each of the last four has an invariant of its own, on top of Inv  *)
(* (types) and Base (names, numbers and the calls of the threads):         *)
(* SetUp, Reported, Hand and SleepInv.                                     *)
(***************************************************************************)
EXTENDS Requests, Identifiers, SequenceTheorems, FiniteSetTheorems, TLAPS

-----------------------------------------------------------------------------
(* What a thread needs to know before it makes a call.                     *)

\* Calls that are made with something that an earlier call has found.
Needy == {"GetSessionIdForTargetIQN", "GetConnectionIdForPortalAddress",
          "CreateSession", "CreateConnection", "GetConnectionIds", "unmount",
          "GetTargetIQNForSessionId", "GetPortalForConnectionId", "GetSessionIds",
          "timeoutCallback"}

Ready(th, name) ==
  /\ name = "GetSessionIdForTargetIQN" => th.op \in DOMAIN Found /\ th.iqn \in IQNs
  /\ name = "GetConnectionIdForPortalAddress" =>
       th.op \in DOMAIN PortalFound /\ th.iqn \in IQNs /\ th.sid \in Slots
  /\ name \in {"CreateSession", "CreateConnection"} =>
       th.portal \in Portals /\ th.op # "timeout"
  /\ name \in {"GetConnectionIds", "unmount"} =>
       th.iqn \in IQNs /\ th.sid \in Slots /\ th.op # "timeout"
  /\ name = "GetTargetIQNForSessionId" /\ th.op \in {"sleep", "listTargets"} =>
       th.ids # <<>>
  /\ name = "CreateConnection" => LogsIn(th.op)
  /\ name = "GetSessionIds" => th.op \in {"sleep", "listTargets"}
  /\ name \in {"GetPortalForConnectionId", "timeoutCallback"} => th.op = "timeout"

\* Requests that create a session or connection have a portal all along.
HasPortal(th) ==
  th.op \in {"login", "wake", "discovery"} => th.todo = <<>> \/ th.portal \in Portals

Good(th) ==
  /\ th \in Thread
  /\ \A i \in 1 .. Len(th.todo) : Ready(th, th.todo[i].name)
  /\ HasPortal(th)

ThreadsInv ==
  /\ thread \in [Threads -> Thread]
  /\ \A t \in Threads : Good(thread[t])
  /\ thread[Discovery].op \in {"none", "discovery"}

\* The list of portals is there from the time it is made until it is released.
Saved ==
  \/ thread[Main].op = "wake"
  \/ /\ thread[Main].op = "sleep" /\ thread[Main].todo # <<>>
     /\ Head(thread[Main].todo).name # "GetSessionIds"
  => activeTargets \in [IQNs -> SUBSET Portals]

TableInv ==
  /\ sessionList \in [Slots -> Session \cup {None}]
  /\ targetList \in [IQNs -> Slots \cup {None}]
  /\ created \in 0 .. MaxCreated
  /\ notMounted \subseteq 1 .. MaxCreated

ClientInv ==
  /\ client \in BOOLEAN /\ accessLock = FALSE /\ notificationPort \in BOOLEAN

DaemonInv ==
  /\ daemon \in {"down", "opened", "up"}
  /\ unmounting \in SUBSET [op : {"logoutComplete", "sleepComplete"},
                            iqn : IQNs, sid : Slots]
  /\ activeTargets \in [IQNs -> SUBSET Portals] \cup {None}
  /\ reused \in BOOLEAN

KernelInv ==
  /\ TableInv
  /\ lost \in 0 .. MaxLost
  /\ messages \in Seq(Message)
  /\ atStart \in 0 .. created

Inv == KernelInv /\ ClientInv /\ DaemonInv /\ ThreadsInv /\ Saved

LEMMA InvType == Inv => TypeOK /\ LockIsReleased
BY DEF Inv, KernelInv, ClientInv, DaemonInv, ThreadsInv, TableInv, TypeOK, LockIsReleased

LEMMA ThreadNames == Main \in Threads /\ Discovery \in Threads /\ Main # Discovery
                     /\ Threads = {Main, Discovery}
BY RequestsConstants DEF Threads

-----------------------------------------------------------------------------
(* Lists of calls.                                                         *)

\* Calls that need nothing.
Plain(todo) == /\ todo \in Seq(Calls)
               /\ \A i \in 1 .. Len(todo) : todo[i].name \notin Needy

LEMMA PlainNone == Plain(<<>>)
BY DEF Plain

LEMMA PlainOne ==
  ASSUME NEW c \in Calls, c.name \notin Needy
  PROVE  Plain(<<c>>)
BY DEF Plain

LEMMA PlainConcat ==
  ASSUME NEW a, NEW b, Plain(a), Plain(b)
  PROVE  Plain(a \o b)
<1>1. a \o b \in Seq(Calls) /\ Len(a \o b) = Len(a) + Len(b)
  BY ConcatProperties DEF Plain
<1>2. \A i \in 1 .. Len(a \o b) :
         (a \o b)[i] = IF i <= Len(a) THEN a[i] ELSE b[i - Len(a)]
  BY ConcatProperties DEF Plain
<1>3. ASSUME NEW i \in 1 .. Len(a \o b)
      PROVE  (a \o b)[i].name \notin Needy
  <2>1. Len(a) \in Nat /\ Len(b) \in Nat
    BY DEF Plain
  <2>2. CASE i <= Len(a)
    <3>1. i \in 1 .. Len(a)
      BY <2>1, <2>2
    <3> QED
      BY <1>2, <1>3, <2>2, <3>1 DEF Plain
  <2>3. CASE ~(i <= Len(a))
    <3>1. i - Len(a) \in 1 .. Len(b)
      BY <1>1, <2>1, <2>3
    <3> QED
      BY <1>2, <1>3, <2>3, <3>1 DEF Plain
  <2> QED
    BY <2>2, <2>3
<1> QED
  BY <1>1, <1>3 DEF Plain

LEMMA CallOf ==
  ASSUME NEW name \in CallNames
  PROVE  Call(name) \in Calls /\ Call(name).name = name
BY DEF Calls, Call

LEMMA SetOf ==
  ASSUME NEW key \in Keys
  PROVE  /\ Set(key) \in Calls /\ Set(key).name \notin Needy
         /\ Get(key) \in Calls /\ Get(key).name \notin Needy
<1>1. Set(key) \in Calls /\ Get(key) \in Calls
  BY DEF Calls
<1>2. Set(key).name \in {"SetSessionParameter", "SetConnectionParameter"}
  BY DEF Set
<1>3. Get(key).name \in {"GetSessionParameter", "GetConnectionParameter"}
  BY DEF Get
<1> QED
  BY <1>1, <1>2, <1>3 DEF Needy

\* Only keys that the kernel's methods know are asked for and set.
LEMMA KeyOfCall ==
  ASSUME NEW c \in Calls
  PROVE  /\ c.name \in {"GetSessionParameter", "SetSessionParameter"} => c.key \in SessionKeys
         /\ c.name \in {"GetConnectionParameter", "SetConnectionParameter"} => c.key \in ConnectionKeys
<1>1. CASE c \in {Call(name) : name \in CallNames}
  BY <1>1 DEF Call, CallNames
<1>2. CASE \E key \in Keys : c = Set(key) \/ c = Get(key)
  <2>1. PICK key \in Keys : c = Set(key) \/ c = Get(key)
    BY <1>2
  <2>2. c.key = key
    BY <2>1 DEF Set, Get
  <2>3. CASE key \in SessionKeys
    <3>1. c.name \in {"GetSessionParameter", "SetSessionParameter"}
      BY <2>1, <2>3 DEF Set, Get
    <3> QED
      BY <2>2, <2>3, <3>1
  <2>4. CASE key \notin SessionKeys
    <3>1. c.name \in {"GetConnectionParameter", "SetConnectionParameter"}
      BY <2>1, <2>4 DEF Set, Get
    <3>2. key \in ConnectionKeys
      BY <2>1, <2>4 DEF Keys
    <3> QED
      BY <2>2, <3>1, <3>2
  <2> QED
    BY <2>3, <2>4
<1> QED
  BY <1>1, <1>2 DEF Calls

LEMMA PlainCall ==
  ASSUME NEW name \in CallNames \ Needy
  PROVE  Plain(<<Call(name)>>)
BY CallOf, PlainOne

LEMMA PlainKeys ==
  ASSUME NEW key \in Keys
  PROVE  Plain(<<Set(key)>>) /\ Plain(<<Get(key)>>)
BY SetOf, PlainOne

\* Each list of calls that follows another.
LEMMA PlainLists ==
  /\ Plain(NegotiateCalls) /\ Plain(LoginCalls) /\ Plain(LogoutCalls)
  /\ Plain(DiscoveryCalls) /\ Plain(SessionReads) /\ Plain(ConnectionReads)
<1>1. Plain(NegotiateCalls)
  <2>1. NegotiateCalls = (<<Set("MaxRecvDataSegmentLength")>> \o <<Set("MaxBurstLength")>>)
                         \o <<Set("FirstBurstLength")>>
    BY DEF NegotiateCalls
  <2>2. \A key \in Keys : Plain(<<Set(key)>>)
    BY PlainKeys
  <2> QED
    BY <2>1, <2>2, PlainConcat DEF Keys, SessionKeys, ConnectionKeys
<1>2. Plain(SessionReads)
  <2>1. SessionReads = <<Get("MaxBurstLength")>> \o <<Get("FirstBurstLength")>>
    BY DEF SessionReads
  <2>2. \A key \in Keys : Plain(<<Get(key)>>)
    BY PlainKeys
  <2> QED
    BY <2>1, <2>2, PlainConcat DEF Keys, SessionKeys
<1>3. Plain(ConnectionReads)
  BY PlainKeys DEF ConnectionReads, Keys, ConnectionKeys
<1>4. \A name \in {"exchange", "ActivateConnection", "query", "DeactivateAllConnections",
                   "GetConnection", "ReleaseSession"} : Plain(<<Call(name)>>)
  BY PlainCall DEF CallNames, Needy
<1>5. Plain(LoginCalls)
  BY <1>1, <1>4, PlainConcat DEF LoginCalls
<1>6. Plain(LogoutCalls)
  <2>1. LogoutCalls = (<<Call("DeactivateAllConnections")>> \o <<Call("GetConnection")>>)
                      \o <<Call("ReleaseSession")>>
    BY DEF LogoutCalls
  <2> QED
    BY <1>4, <2>1, PlainConcat
<1>7. Plain(DiscoveryCalls)
  BY <1>1, <1>4, <1>6, PlainConcat DEF DiscoveryCalls
<1> QED
  BY <1>1, <1>2, <1>3, <1>5, <1>6, <1>7

-----------------------------------------------------------------------------
(* Steps of one thread.                                                    *)

\* What makes a list fit a thread's record.
Fits(th, todo) ==
  /\ todo \in Seq(Calls)
  /\ \A i \in 1 .. Len(todo) : Ready(th, todo[i].name)
  /\ th.op \in {"login", "wake", "discovery"} => todo = <<>> \/ th.portal \in Portals

LEMMA PlainFits ==
  ASSUME NEW th, NEW todo, Plain(todo),
         th.op \in {"login", "wake", "discovery"} => todo = <<>> \/ th.portal \in Portals
  PROVE  Fits(th, todo)
BY DEF Plain, Fits, Ready, Needy

LEMMA OneFits ==
  ASSUME NEW th, NEW name \in CallNames, Ready(th, name),
         th.op \in {"login", "wake", "discovery"} => th.portal \in Portals
  PROVE  Fits(th, <<Call(name)>>)
<1>1. <<Call(name)>> \in Seq(Calls) /\ Len(<<Call(name)>>) = 1
      /\ <<Call(name)>>[1].name = name
  BY CallOf
<1> QED
  BY <1>1 DEF Fits

LEMMA FitsConcat ==
  ASSUME NEW th, NEW a, NEW b, Fits(th, a), Fits(th, b)
  PROVE  Fits(th, a \o b)
<1>1. a \o b \in Seq(Calls) /\ Len(a \o b) = Len(a) + Len(b)
      /\ Len(a) \in Nat /\ Len(b) \in Nat
  BY ConcatProperties DEF Fits
<1>2. \A i \in 1 .. Len(a \o b) :
         (a \o b)[i] = IF i <= Len(a) THEN a[i] ELSE b[i - Len(a)]
  BY ConcatProperties DEF Fits
<1>3. ASSUME NEW i \in 1 .. Len(a \o b)
      PROVE  Ready(th, (a \o b)[i].name)
  <2>1. CASE i <= Len(a)
    <3>1. i \in 1 .. Len(a)
      BY <1>1, <2>1
    <3> QED
      BY <1>2, <1>3, <2>1, <3>1 DEF Fits
  <2>2. CASE ~(i <= Len(a))
    <3>1. i - Len(a) \in 1 .. Len(b)
      BY <1>1, <2>2
    <3> QED
      BY <1>2, <1>3, <2>2, <3>1 DEF Fits
  <2> QED
    BY <2>1, <2>2
<1>4. th.portal \notin Portals /\ th.op \in {"login", "wake", "discovery"} => a \o b = <<>>
  BY DEF Fits
<1> QED
  BY <1>1, <1>3, <1>4 DEF Fits

\* The thread's record may be replaced.
LEMMA GoGood ==
  ASSUME ThreadsInv, NEW t \in Threads, NEW th \in Thread, NEW todo, Go(t, todo, th),
         Fits(th, todo), t = Discovery => th.op \in {"none", "discovery"}
  PROVE  ThreadsInv'
<1> DEFINE new == [th EXCEPT !.todo = todo]
<1>1. /\ new \in Thread /\ new.todo = todo /\ new.op = th.op /\ new.iqn = th.iqn
      /\ new.portal = th.portal /\ new.sid = th.sid /\ new.ids = th.ids
  BY DEF Thread, Fits
<1>2. thread' = [thread EXCEPT ![t] = new]
  BY DEF Go
<1> HIDE DEF new
<1>3. Good(new)
  BY <1>1 DEF Good, Ready, HasPortal, Fits
<1> QED
  BY <1>1, <1>2, <1>3, ThreadNames DEF ThreadsInv

\* The thread goes on with other calls.
LEMMA ContinueGood ==
  ASSUME ThreadsInv, NEW t \in Threads, NEW todo, Continue(t, todo), Fits(thread[t], todo)
  PROVE  ThreadsInv'
<1>1. thread[t] \in Thread /\ (t = Discovery => thread[t].op \in {"none", "discovery"})
  BY DEF ThreadsInv
<1>2. Go(t, todo, thread[t])
  BY <1>1 DEF Continue, Go, ThreadsInv
<1> QED
  BY <1>1, <1>2, GoGood

\* The calls that are left are such as the thread could make before.
LEMMA RestFits ==
  ASSUME ThreadsInv, NEW t \in Threads, thread[t].todo # <<>>
  PROVE  Fits(thread[t], Rest(t))
<1> DEFINE todo == thread[t].todo
<1>1. todo \in Seq(Calls) /\ todo # <<>> /\ Good(thread[t])
  BY DEF ThreadsInv, Good, Thread
<1>2. /\ Tail(todo) \in Seq(Calls) /\ Len(Tail(todo)) = Len(todo) - 1
      /\ \A i \in 1 .. Len(Tail(todo)) : Tail(todo)[i] = todo[i + 1]
  BY <1>1, HeadTailProperties
<1>3. ASSUME NEW i \in 1 .. Len(Tail(todo))
      PROVE  Ready(thread[t], Tail(todo)[i].name)
  <2>1. Len(todo) \in Nat
    BY <1>1
  <2>2. i + 1 \in 1 .. Len(todo)
    BY <1>2, <1>3, <2>1
  <2> QED
    BY <1>1, <1>2, <2>2 DEF Good
<1> QED
  BY <1>1, <1>2, <1>3 DEF Fits, Rest, Good, HasPortal

\* The first call is one that the thread can make.
LEMMA AtReady ==
  ASSUME ThreadsInv, NEW t \in Threads, NEW name, At(t, name)
  PROVE  /\ thread[t].todo # <<>> /\ thread[t].todo \in Seq(Calls)
         /\ Head(thread[t].todo) \in Calls /\ Head(thread[t].todo).name = name
         /\ thread[t] \in Thread /\ Ready(thread[t], name)
         /\ thread[t].op \in {"login", "wake", "discovery"} => thread[t].portal \in Portals
<1>1. Good(thread[t]) /\ thread[t].todo # <<>> /\ Head(thread[t].todo).name = name
  BY DEF At, ThreadsInv
<1>2. thread[t] \in Thread /\ thread[t].todo \in Seq(Calls)
  BY <1>1 DEF Good, Thread
<1>3. Head(thread[t].todo) = thread[t].todo[1] /\ 1 \in 1 .. Len(thread[t].todo)
  BY <1>1, <1>2
<1> QED
  BY <1>1, <1>2, <1>3 DEF Good, HasPortal

\* A thread that is blank may begin something.
LEMMA BeginGood ==
  ASSUME ThreadsInv, NEW t \in Threads, NEW new \in Thread, Fits(new, new.todo),
         thread' = [thread EXCEPT ![t] = new],
         t = Discovery => new.op \in {"none", "discovery"}
  PROVE  ThreadsInv' /\ thread'[t] = new /\ (t # Main => thread'[Main] = thread[Main])
<1>1. Good(new)
  BY DEF Good, Fits, HasPortal
<1> QED
  BY <1>1, ThreadNames DEF ThreadsInv

LEMMA BlankGood == Blank \in Thread /\ Good(Blank)
<1>1. Blank \in Thread
  BY UserClientConstants DEF Blank, Thread, Ops, NoReport
<1> QED
  BY <1>1 DEF Good, Blank, HasPortal

-----------------------------------------------------------------------------
(* The kernel's table.                                                     *)

LEMMA Ids == /\ Slots \subseteq Nat /\ Cids \subseteq Nat /\ 0 \in Cids
             /\ MaxCreated \in Nat /\ MaxSessions \in Nat
BY UserClientConstants DEF Slots, Cids

LEMMA InitialType ==
  ASSUME NEW keys \in SUBSET Keys
  PROVE  Initial(keys) \in [keys -> Value]
BY Ids DEF Initial, Value

LEMMA NewConnectionType ==
  ASSUME NEW portal \in Portals
  PROVE  NewConnection(portal) \in Connection
BY InitialType DEF NewConnection, Connection, Keys

LEMMA SessionOf ==
  ASSUME TableInv, NEW sid, Exists(sid)
  PROVE  sid \in Slots /\ sessionList[sid] \in Session /\ Gen(sid) \in 1 .. MaxCreated
BY DEF TableInv, Exists, Gen, Session

LEMMA ConnectionOf ==
  ASSUME TableInv, NEW sid, NEW cid \in Connections(sid)
  PROVE  Exists(sid) /\ cid \in Cids /\ sessionList[sid].connections[cid] \in Connection
<1>1. Exists(sid) /\ cid \in Cids /\ sessionList[sid].connections[cid] # None
  BY DEF Connections
<1> QED
  BY <1>1, SessionOf DEF Session

LEMMA GenType ==
  ASSUME TableInv, NEW sid
  PROVE  Gen(sid) \in 0 .. MaxCreated
BY SessionOf, Ids DEF Gen

LEMMA FirstOf ==
  /\ FreeSlots # {} => NewSid \in Slots
  /\ \A sid : FreeConnections(sid) # {} => NewCid(sid) \in FreeConnections(sid)
  /\ \A sid : FreeConnections(sid) \subseteq Cids /\ Connections(sid) \subseteq Cids
  /\ \A sid : GetConnection(sid) \in Connections(sid) \cup {None}
<1>1. \A sid : FreeConnections(sid) \subseteq Cids /\ Connections(sid) \subseteq Cids
  BY DEF FreeConnections, Connections
<1>2. FreeSlots \subseteq Slots
  BY DEF FreeSlots
<1> QED
  BY <1>1, <1>2, Ids, MinOfIds DEF NewSid, NewCid, GetConnection

\* A session may be replaced by another, or taken out.
LEMMA ReplaceSession ==
  ASSUME TableInv, NEW sid \in Slots, NEW s \in Session \cup {None},
         sessionList' = [sessionList EXCEPT ![sid] = s]
  PROVE  sessionList' \in [Slots -> Session \cup {None}]
BY DEF TableInv

LEMMA ReplaceConnections ==
  ASSUME TableInv, NEW sid, Exists(sid), NEW f \in [Cids -> Connection \cup {None}]
  PROVE  [sessionList[sid] EXCEPT !.connections = f] \in Session
BY SessionOf DEF Session

LEMMA ReplaceConnection ==
  ASSUME TableInv, NEW sid, Exists(sid), NEW cid \in Cids, NEW c \in Connection \cup {None}
  PROVE  [sessionList EXCEPT ![sid].connections[cid] = c] \in [Slots -> Session \cup {None}]
<1> DEFINE f == [sessionList[sid].connections EXCEPT ![cid] = c]
           s == [sessionList[sid] EXCEPT !.connections = f]
<1>1. sid \in Slots /\ f \in [Cids -> Connection \cup {None}]
  BY SessionOf DEF Session
<1>2. s \in Session
  BY <1>1, ReplaceConnections
<1>3. [sessionList EXCEPT ![sid].connections[cid] = c] = [sessionList EXCEPT ![sid] = s]
  BY <1>1 DEF TableInv
<1> HIDE DEF s, f
<1>4. [sessionList EXCEPT ![sid] = s] \in [Slots -> Session \cup {None}]
  BY <1>1, <1>2 DEF TableInv
<1> QED
  BY <1>3, <1>4

LEMMA CreateSessionTable ==
  ASSUME TableInv, NEW iqn, NEW portal \in Portals, CreateSession(iqn, portal)
  PROVE  TableInv' /\ NewSid \in Slots /\ created' = created + 1 /\ created + 1 \in 1 .. MaxCreated
<1> DEFINE s == [gen |-> created + 1, parameters |-> Initial(SessionKeys),
                 connections |-> [cid \in Cids |->
                    IF cid = 0 THEN NewConnection(portal) ELSE None]]
<1>1. created \in Nat /\ created + 1 \in 1 .. MaxCreated /\ NewSid \in Slots
  BY Ids, FirstOf DEF CreateSession, TableInv
<1>2. /\ sessionList' = [sessionList EXCEPT ![NewSid] = s]
      /\ targetList' = [targetList EXCEPT ![iqn] = NewSid]
      /\ created' = created + 1
  BY DEF CreateSession
<1>3. s \in Session
  BY <1>1, InitialType, NewConnectionType DEF Session, Keys
<1> HIDE DEF s
<1>4. sessionList' \in [Slots -> Session \cup {None}]
  BY <1>1, <1>2, <1>3, ReplaceSession
<1>5. targetList' \in [IQNs -> Slots \cup {None}]
  BY <1>1, <1>2 DEF TableInv
<1>6. created' \in 0 .. MaxCreated /\ notMounted' = notMounted
  BY <1>1, <1>2 DEF CreateSession
<1> QED
  BY <1>1, <1>2, <1>4, <1>5, <1>6 DEF TableInv

LEMMA CreateSessionFailsTable ==
  ASSUME TableInv, NEW iqn, CreateSessionFails(iqn)
  PROVE  TableInv' /\ created' = created
BY DEF CreateSessionFails, TableInv

LEMMA CreateConnectionTable ==
  ASSUME TableInv, NEW sid, NEW portal \in Portals, CreateConnection(sid, portal)
  PROVE  TableInv' /\ created' = created /\ NewCid(sid) \in Cids
<1>1. NewCid(sid) \in Cids /\ Exists(sid)
  BY FirstOf DEF CreateConnection
<1>2. sessionList' \in [Slots -> Session \cup {None}]
  BY <1>1, NewConnectionType, ReplaceConnection DEF CreateConnection
<1> QED
  BY <1>1, <1>2 DEF CreateConnection, TableInv

LEMMA ReleaseSessionTable ==
  ASSUME TableInv, NEW sid, ReleaseSession(sid)
  PROVE  TableInv' /\ created' = created
<1>1. CASE Exists(sid)
  <2>1. sessionList' = [sessionList EXCEPT ![sid] = None]
    BY <1>1 DEF ReleaseSession
  <2>2. sessionList' \in [Slots -> Session \cup {None}]
    BY <1>1, <2>1, SessionOf, ReplaceSession
  <2>3. targetList' \in [IQNs -> Slots \cup {None}]
    BY <1>1 DEF ReleaseSession, TableInv
  <2> QED
    BY <2>2, <2>3 DEF ReleaseSession, TableInv
<1>2. CASE ~Exists(sid)
  BY <1>2 DEF ReleaseSession, TableInv
<1> QED
  BY <1>1, <1>2

LEMMA ReleaseConnectionTable ==
  ASSUME TableInv, NEW sid, NEW cid, ReleaseConnection(sid, cid)
  PROVE  TableInv' /\ created' = created
<1>1. CASE Cardinality(Connections(sid)) = 1
  BY <1>1, ReleaseSessionTable DEF ReleaseConnection
<1>2. CASE Cardinality(Connections(sid)) # 1
  <2>1. /\ sessionList' = IF cid \in Connections(sid)
                THEN [sessionList EXCEPT ![sid].connections[cid] = None]
                ELSE sessionList
        /\ UNCHANGED <<targetList, created, notMounted>>
    BY <1>2 DEF ReleaseConnection
  <2>2. sessionList' \in [Slots -> Session \cup {None}]
    <3>1. CASE cid \in Connections(sid)
      BY <2>1, <3>1, ConnectionOf, ReplaceConnection
    <3>2. CASE cid \notin Connections(sid)
      BY <2>1, <3>2 DEF TableInv
    <3> QED
      BY <3>1, <3>2
  <2> QED
    BY <2>1, <2>2 DEF TableInv
<1> QED
  BY <1>1, <1>2

LEMMA SetActiveTable ==
  ASSUME TableInv, NEW sid, NEW cids, NEW active \in BOOLEAN, SetActive(sid, cids, active)
  PROVE  TableInv' /\ created' = created
<1>1. CASE Exists(sid)
  <2> DEFINE old == sessionList[sid].connections
             f == [cid \in Cids |-> IF cid \in cids \cap Connections(sid)
                                      THEN [old[cid] EXCEPT !.active = active]
                                      ELSE old[cid]]
  <2>1. sessionList' = [sessionList EXCEPT ![sid] = [sessionList[sid] EXCEPT !.connections = f]]
    BY <1>1 DEF SetActive, TableInv, Exists
  <2>2. f \in [Cids -> Connection \cup {None}]
    <3>1. \A cid \in Cids : old[cid] \in Connection \cup {None}
      BY <1>1, SessionOf DEF Session
    <3>2. \A cid \in Connections(sid) : [old[cid] EXCEPT !.active = active] \in Connection
      BY <1>1, ConnectionOf DEF Connection
    <3> QED
      BY <3>1, <3>2
  <2> HIDE DEF f
  <2>3. sessionList' \in [Slots -> Session \cup {None}]
    BY <1>1, <2>1, <2>2, SessionOf, ReplaceConnections, ReplaceSession
  <2> QED
    BY <2>3 DEF SetActive, TableInv
<1>2. CASE ~Exists(sid)
  BY <1>2 DEF SetActive, TableInv
<1> QED
  BY <1>1, <1>2

LEMMA SetSessionParameterTable ==
  ASSUME TableInv, NEW sid, NEW value \in Value, value.key \in SessionKeys,
         SetSessionParameter(sid, value)
  PROVE  TableInv' /\ created' = created
<1>1. CASE Exists(sid)
  <2> DEFINE s == [sessionList[sid] EXCEPT !.parameters = [sessionList[sid].parameters
                                              EXCEPT ![value.key] = value]]
  <2>1. sid \in Slots /\ s \in Session
    BY <1>1, SessionOf DEF Session
  <2>2. sessionList' = [sessionList EXCEPT ![sid] = s]
    BY <1>1, <2>1 DEF SetSessionParameter, TableInv
  <2> HIDE DEF s
  <2>3. sessionList' \in [Slots -> Session \cup {None}]
    BY <2>1, <2>2, ReplaceSession
  <2> QED
    BY <2>3 DEF SetSessionParameter, TableInv
<1>2. CASE ~Exists(sid)
  BY <1>2 DEF SetSessionParameter, TableInv
<1> QED
  BY <1>1, <1>2

LEMMA SetConnectionParameterTable ==
  ASSUME TableInv, NEW sid, NEW cid, NEW value \in Value, value.key \in ConnectionKeys,
         SetConnectionParameter(sid, cid, value)
  PROVE  TableInv' /\ created' = created
<1>1. CASE cid \in Connections(sid)
  <2> DEFINE c == [sessionList[sid].connections[cid] EXCEPT !.parameters =
                     [sessionList[sid].connections[cid].parameters EXCEPT ![value.key] = value]]
  <2>1. Exists(sid) /\ sid \in Slots /\ cid \in Cids /\ c \in Connection
    BY <1>1, ConnectionOf, SessionOf DEF Connection
  <2>2. sessionList' = [sessionList EXCEPT ![sid].connections[cid] = c]
    BY <1>1 DEF SetConnectionParameter
  <2> HIDE DEF c
  <2>3. sessionList' \in [Slots -> Session \cup {None}]
    BY <2>1, <2>2, ReplaceConnection
  <2> QED
    BY <2>3 DEF SetConnectionParameter, TableInv
<1>2. CASE cid \notin Connections(sid)
  BY <1>2 DEF SetConnectionParameter, TableInv
<1> QED
  BY <1>1, <1>2

\* A connection is lost: what the kernel does, and the message.
LEMMA ConnectionTimeout ==
  ASSUME KernelInv, NEW sid, NEW cid \in Connections(sid), HandleConnectionTimeout(sid, cid)
  PROVE  /\ TableInv' /\ created' = created
         /\ lost' \in 0 .. MaxLost /\ messages' \in Seq(Message)
<1>1. TableInv /\ sid \in Slots /\ cid \in Cids /\ Gen(sid) \in 1 .. MaxCreated
  BY ConnectionOf, SessionOf DEF KernelInv
<1>2. TableInv' /\ created' = created
  BY <1>1, SetActiveTable, ReleaseConnectionTable DEF HandleConnectionTimeout
<1>3. lost' \in 0 .. MaxLost
  BY UserClientConstants DEF HandleConnectionTimeout, KernelInv
<1>4. [sid |-> sid, cid |-> cid, gen |-> Gen(sid)] \in Message
  BY <1>1 DEF Message
<1>5. messages' = messages \/ messages' = Append(messages, [sid |-> sid, cid |-> cid, gen |-> Gen(sid)])
  BY DEF HandleConnectionTimeout, SendTimeoutMessage
<1>6. messages' \in Seq(Message)
  BY <1>4, <1>5 DEF KernelInv
<1> QED
  BY <1>2, <1>3, <1>6

-----------------------------------------------------------------------------
(* What a step leaves alone.                                               *)

LEMMA KernelKept ==
  ASSUME KernelInv, TableInv', created' = created, atStart' = atStart,
         lost' \in 0 .. MaxLost, messages' \in Seq(Message)
  PROVE  KernelInv'
BY DEF KernelInv

LEMMA TableKept ==
  ASSUME TableInv, UNCHANGED tableVars
  PROVE  TableInv' /\ created' = created
BY DEF TableInv, tableVars

LEMMA OnlyThreadInv ==
  ASSUME Inv, OnlyThread, ThreadsInv', Saved'
  PROVE  Inv'
<1>1. UNCHANGED kernelVars /\ UNCHANGED clientVars /\ UNCHANGED daemonVars
      /\ UNCHANGED messages
  BY DEF OnlyThread
<1>2. KernelInv'
  BY <1>1, TableKept, KernelKept DEF Inv, KernelInv, kernelVars, tableVars, daemonVars
<1>3. ClientInv' /\ DaemonInv'
  BY <1>1 DEF Inv, ClientInv, DaemonInv, clientVars, daemonVars
<1> QED
  BY <1>2, <1>3 DEF Inv

LEMMA OnlyTableInv ==
  ASSUME Inv, OnlyTable, TableInv', created' = created, ThreadsInv', Saved'
  PROVE  Inv'
<1>1. UNCHANGED clientVars /\ UNCHANGED daemonVars /\ UNCHANGED <<messages, lost>>
  BY DEF OnlyTable
<1>2. KernelInv'
  BY <1>1, KernelKept DEF Inv, KernelInv, daemonVars
<1>3. ClientInv' /\ DaemonInv'
  BY <1>1 DEF Inv, ClientInv, DaemonInv, clientVars, daemonVars
<1> QED
  BY <1>2, <1>3 DEF Inv

\* What is left alone when a connection may be lost.
LEMMA LostInv ==
  ASSUME Inv, UNCHANGED clientVars, UNCHANGED daemonVars, ThreadsInv', Saved',
         \/ UNCHANGED <<kernelVars, messages>>
         \/ \E sid : \E cid \in Connections(sid) : HandleConnectionTimeout(sid, cid)
  PROVE  Inv'
<1>1. /\ TableInv' /\ created' = created
      /\ lost' \in 0 .. MaxLost /\ messages' \in Seq(Message)
  <2>1. CASE UNCHANGED <<kernelVars, messages>>
    BY <2>1, TableKept DEF kernelVars, Inv, KernelInv, tableVars
  <2>2. CASE \E sid : \E cid \in Connections(sid) : HandleConnectionTimeout(sid, cid)
    BY <2>2, ConnectionTimeout DEF Inv
  <2> QED
    BY <2>1, <2>2
<1>2. KernelInv'
  BY <1>1, KernelKept DEF Inv, daemonVars
<1>3. ClientInv' /\ DaemonInv'
  BY DEF Inv, ClientInv, DaemonInv, clientVars, daemonVars
<1> QED
  BY <1>2, <1>3 DEF Inv

\* A call is made, and others take its place.
LEMMA CallMade ==
  ASSUME Inv, NEW t \in Threads, NEW name, At(t, name), name # "GetSessionIds",
         NEW th \in Thread, NEW todo, Go(t, todo, th), Fits(th, todo),
         \/ th.op = thread[t].op
         \/ t = Main /\ th.op \notin {"wake", "sleep"}
  PROVE  ThreadsInv' /\ (activeTargets' = activeTargets => Saved')
<1>1. /\ ThreadsInv /\ Saved /\ thread \in [Threads -> Thread]
      /\ (t = Discovery => th.op \in {"none", "discovery"})
  BY ThreadNames DEF Inv, ThreadsInv
<1>2. ThreadsInv'
  BY <1>1, GoGood
<1>3. thread[t].todo # <<>> /\ Head(thread[t].todo).name # "GetSessionIds"
  BY DEF At
<1>4. CASE t = Main
  <2>1. thread'[Main].op = th.op
    BY <1>1, <1>4 DEF Go, Thread
  <2> QED
    BY <1>1, <1>2, <1>3, <1>4, <2>1 DEF Saved
<1>5. CASE t # Main
  <2>1. thread'[Main] = thread[Main]
    BY <1>1, <1>5, ThreadNames DEF Go
  <2> QED
    BY <1>1, <1>2, <2>1 DEF Saved
<1> QED
  BY <1>4, <1>5

LEMMA CallMadeContinue ==
  ASSUME Inv, NEW t \in Threads, NEW name, At(t, name), name # "GetSessionIds",
         NEW todo, Continue(t, todo), Fits(thread[t], todo)
  PROVE  ThreadsInv' /\ (activeTargets' = activeTargets => Saved')
<1>1. thread[t] \in Thread /\ thread \in [Threads -> Thread]
  BY DEF Inv, ThreadsInv
<1>2. Go(t, todo, thread[t])
  BY <1>1 DEF Continue, Go
<1> QED
  BY <1>1, <1>2, CallMade

\* A call is made, and the thread goes on with the next.
LEMMA RestMade ==
  ASSUME Inv, NEW t \in Threads, NEW name, At(t, name), name # "GetSessionIds",
         Continue(t, Rest(t))
  PROVE  ThreadsInv' /\ (activeTargets' = activeTargets => Saved')
<1>1. Fits(thread[t], Rest(t))
  BY RestFits DEF Inv, At
<1> QED
  BY <1>1, CallMadeContinue

-----------------------------------------------------------------------------
(* The calls.                                                              *)

LEMMA LookUpSessionInv ==
  ASSUME Inv, NEW t \in Threads, LookUpSession(t)
  PROVE  Inv'
<1> DEFINE sid == GetSessionIdForTargetIQN(thread[t].iqn)
           th == [thread[t] EXCEPT !.sid = sid, !.gen = Gen(sid)]
           todo == IF sid = None THEN Missing(thread[t].op) ELSE Found[thread[t].op]
<1>1. At(t, "GetSessionIdForTargetIQN") /\ Go(t, todo, th) /\ OnlyThread
  BY DEF LookUpSession
<1>2. /\ thread[t] \in Thread /\ Ready(thread[t], "GetSessionIdForTargetIQN")
      /\ LogsIn(thread[t].op) => thread[t].portal \in Portals
  BY <1>1, AtReady DEF Inv, LogsIn
<1>3. thread[t].op \in DOMAIN Found /\ thread[t].iqn \in IQNs
  BY <1>2 DEF Ready
<1>4. sid \in Slots \cup {None} /\ Gen(sid) \in 0 .. MaxCreated
  BY <1>3, GenType DEF Inv, KernelInv, TableInv, GetSessionIdForTargetIQN
<1> HIDE DEF sid
<1>5. /\ th \in Thread /\ th.op = thread[t].op /\ th.iqn = thread[t].iqn
      /\ th.portal = thread[t].portal /\ th.sid = sid
  BY <1>2, <1>4 DEF Thread
<1> HIDE DEF th
<1>6. Fits(th, todo)
  <2>1. CASE sid = None
    <3>1. CASE LogsIn(th.op)
      <4>1. Ready(th, "CreateSession")
        BY <1>2, <1>5, <3>1 DEF Ready, LogsIn
      <4>2. todo = <<Call("CreateSession")>>
        BY <1>5, <2>1, <3>1 DEF Missing
      <4> QED
        BY <1>2, <1>5, <3>1, <4>1, <4>2, OneFits DEF CallNames, LogsIn
    <3>2. CASE ~LogsIn(th.op)
      BY <1>5, <2>1, <3>2, PlainNone, PlainFits DEF Missing
    <3> QED
      BY <3>1, <3>2
  <2>2. CASE sid # None
    <3>1. sid \in Slots /\ todo = Found[th.op]
      BY <1>4, <1>5, <2>2
    <3>2. CASE th.op \in {"login", "wake", "connectionReport", "isPortalActive", "logoutPortal"}
      <4>1. Ready(th, "GetConnectionIdForPortalAddress")
        BY <1>3, <1>5, <3>1, <3>2 DEF Ready, PortalFound
      <4>2. todo = <<Call("GetConnectionIdForPortalAddress")>>
        BY <3>1, <3>2 DEF Found, LookUpPortal
      <4> QED
        BY <1>2, <1>5, <3>2, <4>1, <4>2, OneFits DEF CallNames, LogsIn
    <3>3. CASE th.op = "logout"
      <4>1. Ready(th, "unmount")
        BY <1>3, <1>5, <3>1, <3>3 DEF Ready
      <4>2. todo = <<Call("unmount")>>
        BY <3>1, <3>3 DEF Found
      <4> QED
        BY <3>3, <4>1, <4>2, OneFits DEF CallNames
    <3>4. CASE th.op \in {"isTargetActive", "sessionReport", "logoutComplete"}
      <4>1. todo \in {<<>>, SessionReads, LogoutCalls}
        BY <3>1, <3>4 DEF Found
      <4>2. Plain(todo)
        BY <4>1, PlainNone, PlainLists
      <4> QED
        BY <3>4, <4>2, PlainFits
    <3> QED
      BY <1>3, <1>5, <3>2, <3>3, <3>4 DEF Found
  <2> QED
    BY <2>1, <2>2
<1>7. ThreadsInv' /\ Saved'
  BY <1>1, <1>5, <1>6, CallMade DEF OnlyThread, daemonVars
<1> QED
  BY <1>1, <1>7, OnlyThreadInv

LEMMA LookUpConnectionInv ==
  ASSUME Inv, NEW t \in Threads, LookUpConnection(t)
  PROVE  Inv'
<1> DEFINE cid == GetConnectionIdForPortalAddress(thread[t].sid, thread[t].portal)
           th == [thread[t] EXCEPT !.cid = cid]
           todo == IF cid = None THEN PortalMissing(thread[t].op) ELSE PortalFound[thread[t].op]
<1>1. At(t, "GetConnectionIdForPortalAddress") /\ Go(t, todo, th) /\ OnlyThread
  BY DEF LookUpConnection
<1>2. /\ thread[t] \in Thread /\ Ready(thread[t], "GetConnectionIdForPortalAddress")
      /\ LogsIn(thread[t].op) => thread[t].portal \in Portals
  BY <1>1, AtReady DEF Inv, LogsIn
<1>3. thread[t].op \in DOMAIN PortalFound /\ thread[t].iqn \in IQNs /\ thread[t].sid \in Slots
  BY <1>2 DEF Ready
<1>4. cid \in Cids \cup {None}
  <2>1. {c \in Connections(thread[t].sid) :
            sessionList[thread[t].sid].connections[c].portal = thread[t].portal} \subseteq Cids
    BY FirstOf
  <2> QED
    BY <2>1, Ids, MinOfIds DEF GetConnectionIdForPortalAddress
<1> HIDE DEF cid
<1>5. /\ th \in Thread /\ th.op = thread[t].op /\ th.iqn = thread[t].iqn
      /\ th.portal = thread[t].portal /\ th.sid = thread[t].sid
  BY <1>2, <1>4 DEF Thread
<1> HIDE DEF th
<1>6. Fits(th, todo)
  <2>1. CASE cid = None
    <3>1. CASE LogsIn(th.op)
      <4>1. Ready(th, "CreateConnection")
        BY <1>2, <1>5, <3>1 DEF Ready, LogsIn
      <4>2. todo = <<Call("CreateConnection")>>
        BY <1>5, <2>1, <3>1 DEF PortalMissing
      <4> QED
        BY <1>2, <1>5, <3>1, <4>1, <4>2, OneFits DEF CallNames, LogsIn
    <3>2. CASE ~LogsIn(th.op)
      BY <1>5, <2>1, <3>2, PlainNone, PlainFits DEF PortalMissing
    <3> QED
      BY <3>1, <3>2
  <2>2. CASE cid # None
    <3>1. todo = PortalFound[th.op]
      BY <1>5, <2>2
    <3>2. CASE th.op = "logoutPortal"
      <4>1. Ready(th, "GetConnectionIds")
        BY <1>3, <1>5, <3>2 DEF Ready
      <4>2. todo = <<Call("GetConnectionIds")>>
        BY <3>1, <3>2 DEF PortalFound
      <4> QED
        BY <3>2, <4>1, <4>2, OneFits DEF CallNames
    <3>3. CASE th.op \in {"login", "wake", "isPortalActive"}
      BY <3>1, <3>3, PlainNone, PlainFits DEF PortalFound
    <3>4. CASE th.op = "connectionReport"
      <4>1. todo = ConnectionReads
        BY <3>1, <3>4 DEF PortalFound
      <4> QED
        BY <3>4, <4>1, PlainLists, PlainFits
    <3> QED
      BY <1>3, <1>5, <3>2, <3>3, <3>4 DEF PortalFound
  <2> QED
    BY <2>1, <2>2
<1>7. ThreadsInv' /\ Saved'
  BY <1>1, <1>5, <1>6, CallMade DEF OnlyThread, daemonVars
<1> QED
  BY <1>1, <1>7, OnlyThreadInv

LEMMA CreateInv ==
  ASSUME Inv, NEW t \in Threads, Create(t)
  PROVE  Inv'
<1>1. /\ At(t, "CreateSession") /\ UNCHANGED <<messages, lost, daemon, unmounting, activeTargets, atStart>>
      /\ UNCHANGED clientVars
  BY DEF Create
<1>2. thread[t] \in Thread /\ Ready(thread[t], "CreateSession")
  BY <1>1, AtReady DEF Inv
<1>3. thread[t].portal \in Portals
  BY <1>2 DEF Ready
<1>4. /\ TableInv' /\ created' \in {created, created + 1}
      /\ ThreadsInv' /\ Saved' /\ reused' \in BOOLEAN
  <2>1. CASE /\ CreateSession(thread[t].iqn, thread[t].portal)
             /\ Go(t, IF t = Main THEN LoginCalls ELSE DiscoveryCalls,
                   [thread[t] EXCEPT !.sid = NewSid, !.cid = 0, !.gen = created + 1])
             /\ reused' = (reused \/ NumberInUse(t, NewSid))
    <3> DEFINE th == [thread[t] EXCEPT !.sid = NewSid, !.cid = 0, !.gen = created + 1]
               todo == IF t = Main THEN LoginCalls ELSE DiscoveryCalls
    <3>1. TableInv' /\ NewSid \in Slots /\ created' = created + 1 /\ created + 1 \in 1 .. MaxCreated
      BY <1>3, <2>1, CreateSessionTable DEF Inv, KernelInv
    <3>2. 0 \in Cids /\ created + 1 \in 0 .. MaxCreated
      BY <3>1, Ids
    <3>3. th \in Thread /\ th.op = thread[t].op /\ th.portal = thread[t].portal
      BY <1>2, <3>1, <3>2 DEF Thread
    <3>4. Plain(todo)
      BY PlainLists
    <3>5. Go(t, todo, th)
      BY <2>1
    <3> HIDE DEF th, todo
    <3>6. Fits(th, todo)
      BY <1>3, <3>3, <3>4, PlainFits
    <3>7. ThreadsInv' /\ Saved'
      BY <1>1, <3>3, <3>5, <3>6, CallMade
    <3> QED
      BY <2>1, <3>1, <3>7 DEF Inv, DaemonInv, NumberInUse
  <2>2. CASE CreateSessionFails(thread[t].iqn) /\ Continue(t, <<>>) /\ UNCHANGED reused
    <3>1. TableInv' /\ created' = created
      BY <2>2, CreateSessionFailsTable DEF Inv, KernelInv
    <3>2. Fits(thread[t], <<>>)
      BY PlainNone, PlainFits
    <3>3. ThreadsInv' /\ Saved'
      BY <1>1, <2>2, <3>2, CallMadeContinue
    <3> QED
      BY <2>2, <3>1, <3>3 DEF Inv, DaemonInv
  <2> QED
    BY <2>1, <2>2 DEF Create
<1>5. KernelInv'
  BY <1>1, <1>4 DEF Inv, KernelInv, TableInv
<1>6. ClientInv' /\ DaemonInv'
  BY <1>1, <1>4 DEF Inv, ClientInv, DaemonInv, clientVars
<1> QED
  BY <1>4, <1>5, <1>6 DEF Inv

LEMMA AddConnectionInv ==
  ASSUME Inv, NEW t \in Threads, AddConnection(t)
  PROVE  Inv'
<1>1. At(t, "CreateConnection") /\ OnlyTable
  BY DEF AddConnection
<1>2. thread[t] \in Thread /\ Ready(thread[t], "CreateConnection")
  BY <1>1, AtReady DEF Inv
<1>3. thread[t].portal \in Portals /\ LogsIn(thread[t].op)
  BY <1>2 DEF Ready
<1>4. TableInv' /\ created' = created /\ ThreadsInv' /\ Saved'
  <2>1. CASE /\ CreateConnection(thread[t].sid, thread[t].portal)
             /\ Go(t, Tail(AddConnectionCalls),
                   [thread[t] EXCEPT !.cid = NewCid(thread[t].sid)])
    <3> DEFINE th == [thread[t] EXCEPT !.cid = NewCid(thread[t].sid)]
    <3>1. TableInv' /\ created' = created /\ NewCid(thread[t].sid) \in Cids
      BY <1>3, <2>1, CreateConnectionTable DEF Inv, KernelInv
    <3>2. th \in Thread /\ th.op = thread[t].op /\ th.portal = thread[t].portal
      BY <1>2, <3>1 DEF Thread
    <3>3. Go(t, Tail(AddConnectionCalls), th)
      BY <2>1
    <3> HIDE DEF th
    <3>4. Fits(th, Tail(AddConnectionCalls))
      <4>1. Tail(AddConnectionCalls) = <<Call("GetTargetIQNForSessionId")>> \o <<Call("ReleaseConnection")>>
        BY DEF AddConnectionCalls
      <4>2. Ready(th, "GetTargetIQNForSessionId") /\ Ready(th, "ReleaseConnection")
        BY <1>3, <3>2 DEF Ready, LogsIn
      <4>3. /\ Fits(th, <<Call("GetTargetIQNForSessionId")>>)
            /\ Fits(th, <<Call("ReleaseConnection")>>)
        BY <1>3, <3>2, <4>2, OneFits DEF CallNames
      <4> QED
        BY <4>1, <4>3, FitsConcat
    <3>5. ThreadsInv' /\ Saved'
      BY <1>1, <3>2, <3>3, <3>4, CallMade DEF OnlyTable, daemonVars
    <3> QED
      BY <3>1, <3>5
  <2>2. CASE Continue(t, <<>>) /\ UNCHANGED tableVars
    <3>1. TableInv' /\ created' = created
      BY <2>2, TableKept DEF Inv, KernelInv
    <3>2. Fits(thread[t], <<>>)
      BY PlainNone, PlainFits
    <3> QED
      BY <1>1, <2>2, <3>1, <3>2, CallMadeContinue DEF OnlyTable, daemonVars
  <2> QED
    BY <2>1, <2>2 DEF AddConnection
<1> QED
  BY <1>1, <1>4, OnlyTableInv

LEMMA ExchangeInv ==
  ASSUME Inv, NEW t \in Threads, Exchange(t)
  PROVE  Inv'
<1>1. At(t, "exchange") /\ UNCHANGED clientVars /\ UNCHANGED daemonVars
  BY DEF Exchange
<1>2. Plain(Refused(t)) /\ Plain(<<Call("ReleaseSession")>>)
  <2>1. Plain(<<Call("ReleaseSession")>>) /\ Plain(<<Call("query")>>)
    BY PlainCall DEF CallNames, Needy
  <2>2. Plain(IF t = Main THEN <<>> ELSE <<Call("query")>> \o LogoutCalls)
    BY <2>1, PlainNone, PlainLists, PlainConcat
  <2> QED
    BY <2>1, <2>2, PlainConcat DEF Refused
<1>3. thread[t].op \in {"login", "wake", "discovery"} => thread[t].portal \in Portals
  BY <1>1, AtReady DEF Inv
<1>4. Fits(thread[t], Refused(t)) /\ Fits(thread[t], <<Call("ReleaseSession")>>)
  BY <1>2, <1>3, PlainFits
<1>5. ThreadsInv' /\ Saved'
  BY <1>1, <1>4, RestMade, CallMadeContinue DEF Exchange, daemonVars
<1>6. \/ UNCHANGED <<kernelVars, messages>>
      \/ \E sid : \E cid \in Connections(sid) : HandleConnectionTimeout(sid, cid)
  BY DEF Exchange, Lost
<1> QED
  BY <1>1, <1>5, <1>6, LostInv

LEMMA QueryInv ==
  ASSUME Inv, NEW t \in Threads, Query(t)
  PROVE  Inv'
<1>1. At(t, "query") /\ Continue(t, Rest(t)) /\ UNCHANGED clientVars /\ UNCHANGED daemonVars
  BY DEF Query
<1>2. ThreadsInv' /\ Saved'
  BY <1>1, RestMade DEF daemonVars
<1>3. \/ UNCHANGED <<kernelVars, messages>>
      \/ \E sid : \E cid \in Connections(sid) : HandleConnectionTimeout(sid, cid)
  BY DEF Query, Lost
<1> QED
  BY <1>1, <1>2, <1>3, LostInv

LEMMA SetParameterInv ==
  ASSUME Inv, NEW t \in Threads, SetParameter(t)
  PROVE  Inv'
<1> DEFINE value == [key |-> Head(thread[t].todo).key, gen |-> thread[t].gen]
<1>1. PICK name \in {"SetSessionParameter", "SetConnectionParameter"} : At(t, name)
  BY DEF SetParameter
<1>2. Continue(t, Rest(t)) /\ OnlyTable
  BY DEF SetParameter
<1>3. /\ thread[t] \in Thread /\ Head(thread[t].todo) \in Calls
      /\ Head(thread[t].todo).name \in {"SetSessionParameter", "SetConnectionParameter"}
  BY <1>1, AtReady DEF Inv
<1>4. value.key \in Keys
  BY <1>3, KeyOfCall DEF Keys
<1>5. value \in Value
  BY <1>3, <1>4 DEF Thread, Value
<1>6. IF value.key \in SessionKeys THEN SetSessionParameter(thread[t].sid, value)
      ELSE SetConnectionParameter(thread[t].sid, thread[t].cid, value)
  BY DEF SetParameter
<1> HIDE DEF value
<1>7. TableInv' /\ created' = created
  BY <1>4, <1>5, <1>6, SetSessionParameterTable, SetConnectionParameterTable
  DEF Inv, KernelInv, Keys
<1>8. ThreadsInv' /\ Saved'
  BY <1>1, <1>2, RestMade DEF OnlyTable, daemonVars
<1> QED
  BY <1>2, <1>7, <1>8, OnlyTableInv

LEMMA MountFailsTable ==
  ASSUME TableInv, NEW sid, NEW cid, MountFails(sid, cid)
  PROVE  TableInv' /\ created' = created
<1>1. Gen(sid) \in 1 .. MaxCreated
  BY ConnectionOf, SessionOf DEF MountFails
<1> QED
  BY <1>1 DEF MountFails, TableInv

LEMMA ActivateInv ==
  ASSUME Inv, NEW t \in Threads, Activate(t)
  PROVE  Inv'
<1>1. /\ At(t, "ActivateConnection") /\ Continue(t, Rest(t)) /\ OnlyTable
      /\ \/ SetActive(thread[t].sid, {thread[t].cid}, TRUE)
         \/ MountFails(thread[t].sid, thread[t].cid)
  BY DEF Activate, ActivateConnection
<1>2. TableInv' /\ created' = created
  BY <1>1, SetActiveTable, MountFailsTable DEF Inv, KernelInv
<1>3. ThreadsInv' /\ Saved'
  BY <1>1, RestMade DEF OnlyTable, daemonVars
<1> QED
  BY <1>1, <1>2, <1>3, OnlyTableInv

LEMMA DeactivateInv ==
  ASSUME Inv, NEW t \in Threads, Deactivate(t)
  PROVE  Inv'
<1>1. /\ At(t, "DeactivateAllConnections") /\ Continue(t, Rest(t)) /\ OnlyTable
      /\ SetActive(thread[t].sid, Cids, FALSE)
  BY DEF Deactivate, DeactivateAllConnections
<1>2. TableInv' /\ created' = created
  BY <1>1, SetActiveTable DEF Inv, KernelInv
<1>3. ThreadsInv' /\ Saved'
  BY <1>1, RestMade DEF OnlyTable, daemonVars
<1> QED
  BY <1>1, <1>2, <1>3, OnlyTableInv

LEMMA LogoutExchangeInv ==
  ASSUME Inv, NEW t \in Threads, LogoutExchange(t)
  PROVE  Inv'
<1> DEFINE cid == GetConnection(thread[t].sid)
           th == [thread[t] EXCEPT !.cid = cid]
           todo == <<Call("query")>> \o Rest(t)
<1>1. At(t, "GetConnection") /\ OnlyThread
  BY DEF LogoutExchange
<1>2. /\ thread[t] \in Thread /\ thread[t].todo # <<>>
      /\ thread[t].op \in {"login", "wake", "discovery"} => thread[t].portal \in Portals
  BY <1>1, AtReady DEF Inv
<1>3. cid \in Cids \cup {None}
  BY FirstOf
<1>4. Continue(t, Rest(t)) \/ Go(t, todo, th)
  BY DEF LogoutExchange
<1> HIDE DEF cid
<1>5. /\ th \in Thread /\ th.op = thread[t].op /\ th.iqn = thread[t].iqn /\ th.sid = thread[t].sid
      /\ th.portal = thread[t].portal /\ th.ids = thread[t].ids
  BY <1>2, <1>3 DEF Thread
<1>6. Fits(thread[t], Rest(t))
  BY <1>2, RestFits DEF Inv
<1>7. Fits(thread[t], todo)
  <2>1. Fits(thread[t], <<Call("query")>>)
    BY <1>2, PlainCall, PlainFits DEF CallNames, Needy
  <2> QED
    BY <1>6, <2>1, FitsConcat
<1> HIDE DEF th, todo
<1>8. Fits(th, todo)
  BY <1>5, <1>7 DEF Fits, Ready
<1>9. ThreadsInv' /\ Saved'
  BY <1>1, <1>4, <1>5, <1>6, <1>8, CallMade, CallMadeContinue DEF OnlyThread, daemonVars
<1> QED
  BY <1>1, <1>9, OnlyThreadInv

LEMMA ReleaseInv ==
  ASSUME Inv, NEW t \in Threads, Release(t)
  PROVE  Inv'
<1>1. PICK name \in {"ReleaseSession", "ReleaseConnection"} : At(t, name)
  BY DEF Release
<1>2. Continue(t, Rest(t)) /\ OnlyTable
  BY DEF Release
<1>3. TableInv' /\ created' = created
  BY ReleaseSessionTable, ReleaseConnectionTable DEF Release, Inv, KernelInv
<1>4. ThreadsInv' /\ Saved'
  BY <1>1, <1>2, RestMade DEF OnlyTable, daemonVars
<1> QED
  BY <1>2, <1>3, <1>4, OnlyTableInv

LEMMA ReadParameterInv ==
  ASSUME Inv, NEW t \in Threads, ReadParameter(t)
  PROVE  Inv'
<1> DEFINE c == Head(thread[t].todo)
           sid == thread[t].sid
           cid == thread[t].cid
           value == IF c.name = "GetSessionParameter" THEN GetSessionParameter(sid, c.key)
                    ELSE GetConnectionParameter(sid, cid, c.key)
           th == [thread[t] EXCEPT !.report[c.key] = value]
<1>1. PICK name \in {"GetSessionParameter", "GetConnectionParameter"} : At(t, name)
  BY DEF ReadParameter
<1>2. /\ Go(t, Rest(t), th)
      /\ accessLock' = (~(c.name = "GetSessionParameter") /\ KeepsLock(sid, cid, c.key))
      /\ UNCHANGED <<client, notificationPort, messages>>
      /\ UNCHANGED kernelVars /\ UNCHANGED daemonVars
  BY DEF ReadParameter, Rest
<1>3. /\ thread[t] \in Thread /\ thread[t].todo # <<>>
      /\ c \in Calls /\ c.name \in {"GetSessionParameter", "GetConnectionParameter"}
  BY <1>1, AtReady DEF Inv
<1>4. /\ c.name = "GetSessionParameter" => c.key \in SessionKeys
      /\ c.name = "GetConnectionParameter" => c.key \in ConnectionKeys
  BY <1>3, KeyOfCall
<1> HIDE DEF c
<1>5. accessLock' = FALSE
  BY <1>2, <1>3, <1>4 DEF KeepsLock
<1>6. value \in Value \cup {None}
  <2>1. CASE c.name = "GetSessionParameter"
    <3>1. Exists(sid) => sessionList[sid].parameters[c.key] \in Value
      BY <1>4, <2>1, SessionOf DEF Session, Inv, KernelInv
    <3>2. value = GetSessionParameter(sid, c.key)
      BY <2>1
    <3> QED
      BY <3>1, <3>2 DEF GetSessionParameter
  <2>2. CASE c.name = "GetConnectionParameter"
    <3>1. cid \in Connections(sid) => sessionList[sid].connections[cid].parameters[c.key] \in Value
      BY <1>4, <2>2, ConnectionOf DEF Connection, Inv, KernelInv
    <3>2. value = GetConnectionParameter(sid, cid, c.key)
      BY <2>2
    <3> QED
      BY <3>1, <3>2 DEF GetConnectionParameter
  <2> QED
    BY <1>3, <2>1, <2>2
<1> HIDE DEF value
<1>7. c.key \in Keys
  BY <1>3, <1>4 DEF Keys
<1>8. /\ th \in Thread /\ th.op = thread[t].op /\ th.iqn = thread[t].iqn /\ th.sid = thread[t].sid
      /\ th.portal = thread[t].portal /\ th.ids = thread[t].ids
  BY <1>3, <1>6, <1>7 DEF Thread
<1> HIDE DEF th
<1>9. Fits(th, Rest(t))
  <2>1. Fits(thread[t], Rest(t))
    BY <1>3, RestFits DEF Inv
  <2> QED
    BY <1>8, <2>1 DEF Fits, Ready
<1>10. ThreadsInv' /\ Saved'
  BY <1>1, <1>2, <1>8, <1>9, CallMade DEF daemonVars
<1>11. KernelInv'
  BY <1>2, TableKept, KernelKept DEF Inv, KernelInv, kernelVars, tableVars, daemonVars
<1>12. ClientInv' /\ DaemonInv'
  BY <1>2, <1>5 DEF Inv, ClientInv, DaemonInv, daemonVars
<1> QED
  BY <1>10, <1>11, <1>12 DEF Inv

LEMMA CrashInv ==
  ASSUME Inv, Crash
  PROVE  Inv'
<1>1. UNCHANGED kernelVars
  BY DEF Crash, ClientDied
<1>2. /\ client' = FALSE /\ accessLock' = FALSE /\ notificationPort' = FALSE
      /\ messages' = <<>> /\ atStart' = created
  BY DEF Crash, ClientDied
<1>3. TableInv' /\ created' = created /\ created \in Nat
  BY <1>1, TableKept, Ids DEF Inv, KernelInv, kernelVars, TableInv
<1>4. KernelInv'
  BY <1>1, <1>2, <1>3 DEF Inv, KernelInv, kernelVars
<1>5. ThreadsInv' /\ Saved'
  <2>1. thread' = [u \in Threads |-> Blank]
    BY DEF Crash
  <2>2. Blank.op = "none"
    BY DEF Blank
  <2> QED
    BY <2>1, <2>2, BlankGood, ThreadNames DEF ThreadsInv, Saved
<1>6. ClientInv' /\ DaemonInv'
  BY <1>2 DEF Crash, ClientInv, DaemonInv, Inv
<1> QED
  BY <1>4, <1>5, <1>6 DEF Inv

-----------------------------------------------------------------------------
(* Logout.                                                                 *)

\* Volumes begin to be unmounted.
LEMMA UnmountType ==
  ASSUME DaemonInv, NEW op \in {"logoutComplete", "sleepComplete"}, NEW th, Unmount(op, th),
         th.iqn \in IQNs, th.sid \in Slots
  PROVE  unmounting' \in SUBSET [op : {"logoutComplete", "sleepComplete"}, iqn : IQNs, sid : Slots]
BY DEF DaemonInv, Unmount

LEMMA LogoutUnmountsInv ==
  ASSUME Inv, NEW t \in Threads, LogoutUnmounts(t)
  PROVE  Inv'
<1>1. /\ At(t, "unmount") /\ Unmount("logoutComplete", thread[t])
      /\ thread' = [thread EXCEPT ![t] = Blank]
      /\ UNCHANGED <<messages, daemon, activeTargets, atStart, reused>>
      /\ UNCHANGED kernelVars /\ UNCHANGED clientVars
  BY DEF LogoutUnmounts
<1>2. thread[t].iqn \in IQNs /\ thread[t].sid \in Slots
  BY <1>1, AtReady DEF Inv, Ready
<1>3. Blank.op = "none" /\ Blank.todo = <<>>
  BY DEF Blank
<1>4. Fits(Blank, Blank.todo)
  BY <1>3, PlainNone, PlainFits
<1>5. ThreadsInv' /\ Saved'
  BY <1>1, <1>3, <1>4, BlankGood, BeginGood DEF Inv, Saved
<1>6. KernelInv'
  BY <1>1, TableKept, KernelKept DEF Inv, KernelInv, kernelVars, tableVars
<1>7. ClientInv' /\ DaemonInv'
  BY <1>1, <1>2, UnmountType DEF Inv, ClientInv, DaemonInv, clientVars
<1> QED
  BY <1>5, <1>6, <1>7 DEF Inv

LEMMA LogoutOfPortalInv ==
  ASSUME Inv, NEW t \in Threads, LogoutOfPortal(t)
  PROVE  Inv'
<1>1. CASE Crash
  BY <1>1, CrashInv
<1>2. CASE ~Crash
  <2> DEFINE th == [thread[t] EXCEPT !.op = "logout"]
             todo == IF Cardinality(GetConnectionIds(thread[t].sid)) = 1 THEN <<Call("unmount")>>
                     ELSE RemoveConnectionCalls
  <2>1. /\ At(t, "GetConnectionIds") /\ thread[t].op = "logoutPortal"
        /\ Go(t, todo, th) /\ OnlyThread
    BY <1>2 DEF LogoutOfPortal
  <2>2. thread[t] \in Thread /\ thread[t].iqn \in IQNs /\ thread[t].sid \in Slots
    BY <2>1, AtReady DEF Inv, Ready
  <2>3. th \in Thread /\ th.op = "logout" /\ th.iqn = thread[t].iqn /\ th.sid = thread[t].sid
    BY <2>2 DEF Thread, Ops, OfTarget
  <2>4. t = Main
    BY <2>1, ThreadNames DEF Inv, ThreadsInv
  <2> HIDE DEF th
  <2>5. Fits(th, todo)
    <3>1. Ready(th, "unmount")
      BY <2>2, <2>3 DEF Ready
    <3>2. Fits(th, <<Call("unmount")>>)
      BY <2>3, <3>1, OneFits DEF CallNames
    <3>3. Fits(th, RemoveConnectionCalls)
      BY PlainNone, PlainFits DEF RemoveConnectionCalls
    <3> QED
      BY <3>2, <3>3
  <2>6. ThreadsInv' /\ Saved'
    BY <2>1, <2>3, <2>4, <2>5, CallMade DEF OnlyThread, daemonVars
  <2> QED
    BY <2>1, <2>6, OnlyThreadInv
<1> QED
  BY <1>1, <1>2

\* A thread of the run loop that begins, when nothing else changes but what it
\* takes its work from.
LEMMA BeginInv ==
  ASSUME Inv, NEW t \in Threads, NEW new \in Thread, Fits(new, new.todo),
         thread' = [thread EXCEPT ![t] = new],
         t = Discovery => new.op \in {"none", "discovery"},
         t = Main => \/ new.op \notin {"wake", "sleep"}
                     \/ new.op = "sleep" /\ new.todo # <<>> /\ Head(new.todo).name = "GetSessionIds"
                     \/ activeTargets \in [IQNs -> SUBSET Portals],
         UNCHANGED kernelVars, UNCHANGED clientVars,
         messages' \in Seq(Message), unmounting' \subseteq unmounting,
         UNCHANGED <<daemon, activeTargets, atStart, reused>>
  PROVE  Inv'
<1>1. ThreadsInv' /\ thread'[t] = new /\ (t # Main => thread'[Main] = thread[Main])
  BY BeginGood DEF Inv
<1>2. Saved'
  BY <1>1, ThreadNames DEF Saved, Inv
<1>3. KernelInv'
  BY TableKept, KernelKept DEF Inv, KernelInv, kernelVars, tableVars
<1>4. ClientInv' /\ DaemonInv'
  BY DEF Inv, ClientInv, DaemonInv, clientVars
<1> QED
  BY <1>1, <1>2, <1>3, <1>4 DEF Inv

LEMMA DiskUnmountCompleteInv ==
  ASSUME Inv, DiskUnmountComplete
  PROVE  Inv'
<1>1. /\ UNCHANGED <<messages, daemon, activeTargets, atStart, reused>>
      /\ UNCHANGED kernelVars /\ UNCHANGED clientVars
  BY DEF DiskUnmountComplete
<1>2. PICK u \in unmounting :
        /\ unmounting' = unmounting \ {u}
        /\ \/ /\ u.op = "logoutComplete"
              /\ \E todo \in {LookUpTarget, <<>>} :
                   thread' = [thread EXCEPT ![Main] =
                        [Blank EXCEPT !.op = u.op, !.todo = todo, !.iqn = u.iqn]]
           \/ /\ u.op = "sleepComplete"
              /\ thread' = [thread EXCEPT ![Main] =
                    [Blank EXCEPT !.op = u.op, !.todo = LogoutCalls, !.iqn = u.iqn,
                                  !.sid = u.sid, !.gen = Gen(u.sid)]]
  BY DEF DiskUnmountComplete
<1>3. u.iqn \in IQNs /\ u.sid \in Slots /\ Gen(u.sid) \in 0 .. MaxCreated
  BY GenType DEF Inv, DaemonInv, KernelInv
<1>4. messages' \in Seq(Message) /\ unmounting' \subseteq unmounting
  BY <1>1, <1>2 DEF Inv, KernelInv
<1>5. CASE u.op = "logoutComplete"
  <2>1. PICK todo \in {LookUpTarget, <<>>} :
          thread' = [thread EXCEPT ![Main] =
               [Blank EXCEPT !.op = u.op, !.todo = todo, !.iqn = u.iqn]]
    BY <1>2, <1>5
  <2> DEFINE new == [Blank EXCEPT !.op = u.op, !.todo = todo, !.iqn = u.iqn]
  <2>2. todo \in Seq(Calls)
    <3>1. Call("GetSessionIdForTargetIQN") \in Calls
      BY CallOf DEF CallNames
    <3>2. <<Call("GetSessionIdForTargetIQN")>> \in Seq(Calls)
      BY <3>1
    <3>3. <<>> \in Seq(Calls)
      OBVIOUS
    <3> QED
      BY <3>2, <3>3 DEF LookUpTarget
  <2>3. /\ new \in Thread /\ new.op = "logoutComplete" /\ new.todo = todo /\ new.iqn = u.iqn
    BY <1>3, <1>5, <2>2, BlankGood DEF Thread, Ops
  <2>4. thread' = [thread EXCEPT ![Main] = new]
    BY <2>1
  <2> HIDE DEF new
  <2>5. Fits(new, new.todo)
    <3>1. Ready(new, "GetSessionIdForTargetIQN")
      BY <1>3, <2>3 DEF Ready, Found
    <3> QED
      BY <2>3, <3>1, OneFits, PlainNone, PlainFits DEF LookUpTarget, CallNames
  <2> QED
    BY <1>1, <1>4, <2>3, <2>4, <2>5, BeginInv, ThreadNames
<1>6. CASE u.op = "sleepComplete"
  <2> DEFINE new == [Blank EXCEPT !.op = u.op, !.todo = LogoutCalls, !.iqn = u.iqn,
                                  !.sid = u.sid, !.gen = Gen(u.sid)]
  <2>1. LogoutCalls \in Seq(Calls)
    BY PlainLists DEF Plain
  <2>2. /\ new \in Thread /\ new.op = "sleepComplete" /\ new.todo = LogoutCalls
    BY <1>3, <1>6, <2>1, BlankGood DEF Thread, Ops
  <2>3. thread' = [thread EXCEPT ![Main] = new]
    BY <1>2, <1>6
  <2> HIDE DEF new
  <2>4. Fits(new, new.todo)
    BY <2>2, PlainLists, PlainFits
  <2> QED
    BY <1>1, <1>4, <2>2, <2>3, <2>4, BeginInv, ThreadNames
<1> QED
  BY <1>2, <1>5, <1>6

-----------------------------------------------------------------------------
(* Lists of sessions.                                                      *)

\* Only the run loop does anything but discovery.
LEMMA OnMain ==
  ASSUME Inv, NEW t \in Threads, thread[t].op \notin {"none", "discovery"}
  PROVE  t = Main
BY ThreadNames DEF Inv, ThreadsInv

\* As many identifiers are read as there are sessions, whatever they are.
LEMMA PointerArraysType ==
  ASSUME NEW ids \in PointerArrays(GetSessionIds)
  PROVE  ids \in Seq(Slots \cup {None}) /\ Len(ids) \in 0 .. MaxSessions
<1> DEFINE n == Cardinality(GetSessionIds)
<1>1. IsFiniteSet(Slots) /\ Cardinality(Slots) = MaxSessions
  <2>1. MaxSessions \in Nat \ {0}
    BY UserClientConstants
  <2>2. /\ 0 \in Int /\ MaxSessions - 1 \in Int
    BY <2>1
  <2>3. IsFiniteSet(0 .. MaxSessions - 1)
        /\ Cardinality(0 .. MaxSessions - 1)
             = IF 0 > MaxSessions - 1 THEN 0 ELSE (MaxSessions - 1) - 0 + 1
    BY <2>2, FS_Interval
  <2> QED
    BY <2>1, <2>3 DEF Slots
<1>2. GetSessionIds \subseteq Slots
  BY DEF GetSessionIds
<1>3. n \in Nat /\ n <= MaxSessions
  BY <1>1, <1>2, FS_Subset, FS_CardinalityType
<1>4. ids \in [1 .. n -> Slots \cup {None}]
  BY DEF PointerArrays
<1> HIDE DEF n
<1> QED
  BY <1>3, <1>4, Ids

LEMMA ListSessionsInv ==
  ASSUME Inv, NEW t \in Threads, ListSessions(t)
  PROVE  Inv'
<1>1. /\ At(t, "GetSessionIds") /\ UNCHANGED <<messages, daemon, unmounting, atStart, reused>>
      /\ UNCHANGED kernelVars /\ UNCHANGED clientVars
      /\ activeTargets' = IF thread[t].op = "sleep" THEN [iqn \in IQNs |-> {}]
                                                    ELSE activeTargets
  BY DEF ListSessions
<1>2. PICK ids \in PointerArrays(GetSessionIds) :
        Go(t, IF ids = <<>> THEN <<>> ELSE ForEachSession,
           [thread[t] EXCEPT !.ids = ids, !.listed = Len(ids), !.asOf = created])
  BY DEF ListSessions
<1> DEFINE th == [thread[t] EXCEPT !.ids = ids, !.listed = Len(ids), !.asOf = created]
           todo == IF ids = <<>> THEN <<>> ELSE ForEachSession
<1>3. thread[t] \in Thread /\ thread[t].op \in {"sleep", "listTargets"}
  BY <1>1, AtReady DEF Inv, Ready
<1>4. t = Main
  BY <1>3, OnMain
<1>5. ids \in Seq(Slots \cup {None}) /\ Len(ids) \in 0 .. MaxSessions /\ created \in 0 .. MaxCreated
  BY PointerArraysType DEF Inv, KernelInv, TableInv
<1>6. th \in Thread /\ th.op = thread[t].op /\ th.ids = ids
  BY <1>3, <1>5 DEF Thread
<1>7. Go(t, todo, th)
  BY <1>2
<1> HIDE DEF th
<1>8. Fits(th, todo)
  <2>1. CASE ids = <<>>
    BY <2>1, PlainNone, PlainFits
  <2>2. CASE ids # <<>>
    <3>1. Ready(th, "GetTargetIQNForSessionId")
      BY <1>6, <2>2 DEF Ready
    <3> QED
      BY <1>3, <1>6, <2>2, <3>1, OneFits DEF ForEachSession, CallNames
  <2> QED
    BY <2>1, <2>2
<1>9. ThreadsInv'
  BY <1>4, <1>6, <1>7, <1>8, GoGood, ThreadNames DEF Inv
<1>10. thread'[Main].op = thread[t].op
  BY <1>4, <1>6, <1>7 DEF Go, Inv, ThreadsInv, Thread
<1>11. activeTargets' \in [IQNs -> SUBSET Portals] \cup {None}
       /\ (thread[t].op = "sleep" => activeTargets' \in [IQNs -> SUBSET Portals])
  BY <1>1 DEF Inv, DaemonInv
<1>12. Saved'
  BY <1>3, <1>10, <1>11 DEF Saved
<1>13. KernelInv'
  BY <1>1, TableKept, KernelKept DEF Inv, KernelInv, kernelVars, tableVars
<1>14. ClientInv' /\ DaemonInv'
  BY <1>1, <1>11 DEF Inv, ClientInv, DaemonInv, clientVars
<1> QED
  BY <1>9, <1>12, <1>13, <1>14 DEF Inv

\* The calls with which a list of sessions is gone through.
LEMMA NextSession ==
  ASSUME NEW th \in Thread, th.op \in {"sleep", "listTargets"},
         NEW todo, todo = IF th.ids = <<>> THEN <<>> ELSE ForEachSession
  PROVE  Fits(th, todo)
<1>1. CASE th.ids = <<>>
  BY <1>1, PlainNone, PlainFits
<1>2. CASE th.ids # <<>>
  <2>1. Ready(th, "GetTargetIQNForSessionId")
    BY <1>2 DEF Ready
  <2> QED
    BY <1>2, <2>1, OneFits DEF ForEachSession, CallNames
<1> QED
  BY <1>1, <1>2

\* The next identifier of the list, and those after it.
LEMMA NextId ==
  ASSUME Inv, NEW t \in Threads, At(t, "GetTargetIQNForSessionId"),
         thread[t].op \in {"sleep", "listTargets"}
  PROVE  /\ thread[t] \in Thread /\ thread[t].ids # <<>>
         /\ Head(thread[t].ids) \in Slots \cup {None}
         /\ Tail(thread[t].ids) \in Seq(Slots \cup {None})
<1>1. thread[t] \in Thread /\ thread[t].ids # <<>>
  BY AtReady DEF Inv, Ready
<1>2. thread[t].ids \in Seq(Slots \cup {None})
  BY <1>1 DEF Thread
<1> QED
  BY <1>1, <1>2, HeadTailProperties

LEMMA ListTargetInv ==
  ASSUME Inv, NEW t \in Threads, ListTarget(t)
  PROVE  Inv'
<1> DEFINE th == [thread[t] EXCEPT !.ids = Tail(thread[t].ids)]
           todo == IF Tail(thread[t].ids) = <<>> THEN <<>> ELSE ForEachSession
<1>1. At(t, "GetTargetIQNForSessionId") /\ thread[t].op = "listTargets"
  BY DEF ListTarget
<1>2. CASE Crash
  BY <1>2, CrashInv
<1>3. CASE ~Crash
  <2>1. thread[t] \in Thread /\ Tail(thread[t].ids) \in Seq(Slots \cup {None})
    BY <1>1, NextId
  <2>2. Go(t, todo, th) /\ OnlyThread
    BY <1>3 DEF ListTarget
  <2>3. th \in Thread /\ th.op = thread[t].op /\ th.ids = Tail(thread[t].ids)
    BY <2>1 DEF Thread
  <2> HIDE DEF th
  <2>4. Fits(th, todo)
    BY <1>1, <2>3, NextSession
  <2>5. ThreadsInv' /\ Saved'
    BY <1>1, <2>2, <2>3, <2>4, CallMade DEF OnlyThread, daemonVars
  <2> QED
    BY <2>2, <2>5, OnlyThreadInv
<1> QED
  BY <1>2, <1>3

LEMMA SleepTargetInv ==
  ASSUME Inv, NEW t \in Threads, SleepTarget(t)
  PROVE  Inv'
<1> DEFINE sid == Head(thread[t].ids)
           ids == Tail(thread[t].ids)
<1>1. At(t, "GetTargetIQNForSessionId") /\ thread[t].op = "sleep" /\ OnlyThread
  BY DEF SleepTarget
<1>2. PICK iqn \in GetTargetIQNForSessionId(sid) :
        IF iqn = None
          THEN Go(t, IF ids = <<>> THEN <<>> ELSE ForEachSession, [thread[t] EXCEPT !.ids = ids])
          ELSE Go(t, <<Call("GetConnectionIds")>>,
                  [thread[t] EXCEPT !.ids = ids, !.sid = sid, !.iqn = iqn])
  BY DEF SleepTarget
<1>3. thread[t] \in Thread /\ ids \in Seq(Slots \cup {None})
  BY <1>1, NextId
<1>4. CASE iqn = None
  <2> DEFINE th == [thread[t] EXCEPT !.ids = ids]
             todo == IF ids = <<>> THEN <<>> ELSE ForEachSession
  <2>1. Go(t, todo, th)
    BY <1>2, <1>4
  <2>2. th \in Thread /\ th.op = thread[t].op /\ th.ids = ids
    BY <1>3 DEF Thread
  <2> HIDE DEF th
  <2>3. Fits(th, todo)
    BY <1>1, <2>2, NextSession
  <2>4. ThreadsInv' /\ Saved'
    BY <1>1, <2>1, <2>2, <2>3, CallMade DEF OnlyThread, daemonVars
  <2> QED
    BY <1>1, <2>4, OnlyThreadInv
<1>5. CASE iqn # None
  <2> DEFINE th == [thread[t] EXCEPT !.ids = ids, !.sid = sid, !.iqn = iqn]
  <2>1. iqn \in IQNs /\ sid \in Slots
    BY <1>2, <1>5 DEF GetTargetIQNForSessionId, Exists
  <2>2. Go(t, <<Call("GetConnectionIds")>>, th)
    BY <1>2, <1>5
  <2> HIDE DEF sid, ids
  <2>3. th \in Thread /\ th.op = thread[t].op /\ th.iqn = iqn /\ th.sid = sid
    BY <1>3, <2>1 DEF Thread
  <2> HIDE DEF th
  <2>4. Ready(th, "GetConnectionIds")
    BY <1>1, <2>1, <2>3 DEF Ready
  <2>5. Fits(th, <<Call("GetConnectionIds")>>)
    BY <1>1, <2>3, <2>4, OneFits DEF CallNames
  <2>6. ThreadsInv' /\ Saved'
    BY <1>1, <2>2, <2>3, <2>5, CallMade DEF OnlyThread, daemonVars
  <2> QED
    BY <1>1, <2>6, OnlyThreadInv
<1> QED
  BY <1>4, <1>5

LEMMA SleepSessionInv ==
  ASSUME Inv, NEW t \in Threads, SleepSession(t)
  PROVE  Inv'
<1> DEFINE sid == thread[t].sid
           cids == GetConnectionIds(sid)
           portal == GetPortalForConnectionId(sid, Min(cids))
           todo == IF thread[t].ids = <<>> THEN <<>> ELSE ForEachSession
<1>1. At(t, "GetConnectionIds") /\ thread[t].op = "sleep"
  BY DEF SleepSession
<1>2. CASE cids = {}
  BY <1>2, CrashInv DEF SleepSession
<1>3. CASE cids # {}
  <2>1. /\ activeTargets' = [activeTargets EXCEPT ![thread[t].iqn] = {portal}]
        /\ Unmount("sleepComplete", thread[t])
        /\ Continue(t, todo)
        /\ UNCHANGED <<messages, daemon, atStart, reused>>
        /\ UNCHANGED kernelVars /\ UNCHANGED clientVars
    BY <1>3 DEF SleepSession
  <2>2. thread[t] \in Thread /\ thread[t].iqn \in IQNs /\ sid \in Slots
    BY <1>1, AtReady DEF Inv, Ready
  <2>3. t = Main
    BY <1>1, OnMain
  <2>4. activeTargets \in [IQNs -> SUBSET Portals]
    BY <1>1, <2>3 DEF Inv, Saved, At
  <2>5. portal \in Portals
    <3>1. cids \subseteq Nat /\ cids = Connections(sid)
      BY FirstOf, Ids DEF GetConnectionIds
    <3>2. Min(cids) \in Connections(sid)
      BY <1>3, <3>1, MinOfIds
    <3> QED
      BY <3>2, ConnectionOf DEF Inv, KernelInv, Connection, GetPortalForConnectionId
  <2> HIDE DEF portal, cids
  <2>6. activeTargets' \in [IQNs -> SUBSET Portals]
    BY <2>1, <2>4, <2>5
  <2>7. ThreadsInv'
    <3>1. Fits(thread[t], todo)
      BY <1>1, <2>2, NextSession
    <3> QED
      BY <1>1, <2>1, <3>1, CallMadeContinue
  <2>8. KernelInv'
    BY <2>1, TableKept, KernelKept DEF Inv, KernelInv, kernelVars, tableVars
  <2>9. ClientInv' /\ DaemonInv'
    BY <2>1, <2>2, <2>6, UnmountType DEF Inv, ClientInv, DaemonInv, clientVars
  <2> QED
    BY <2>6, <2>7, <2>8, <2>9 DEF Inv, Saved
<1> QED
  BY <1>2, <1>3

-----------------------------------------------------------------------------
(* Notifications.                                                          *)

LEMMA CopyTargetInv ==
  ASSUME Inv, NEW t \in Threads, CopyTarget(t)
  PROVE  Inv'
<1>1. At(t, "GetTargetIQNForSessionId")
  BY DEF CopyTarget
<1>2. PICK iqn \in GetTargetIQNForSessionId(thread[t].sid) :
        \/ /\ thread[t].op = "timeout"
           /\ Go(t, Rest(t), [thread[t] EXCEPT !.iqn = iqn])
           /\ OnlyThread
        \/ /\ LogsIn(thread[t].op)
           /\ IF iqn = None THEN Crash ELSE Continue(t, Rest(t)) /\ OnlyThread
  BY DEF CopyTarget
<1>3. CASE Crash
  BY <1>3, CrashInv
<1>4. CASE Continue(t, Rest(t)) /\ OnlyThread
  <2>1. ThreadsInv' /\ Saved'
    BY <1>1, <1>4, RestMade DEF OnlyThread, daemonVars
  <2> QED
    BY <1>4, <2>1, OnlyThreadInv
<1>5. CASE /\ thread[t].op = "timeout"
           /\ Go(t, Rest(t), [thread[t] EXCEPT !.iqn = iqn])
           /\ OnlyThread
  <2> DEFINE th == [thread[t] EXCEPT !.iqn = iqn]
  <2>1. thread[t] \in Thread /\ thread[t].todo # <<>>
    BY <1>1, AtReady DEF Inv
  <2>2. iqn \in IQNs \cup {None}
    BY DEF GetTargetIQNForSessionId
  <2>3. th \in Thread /\ th.op = "timeout" /\ th.portal = thread[t].portal
    BY <1>5, <2>1, <2>2 DEF Thread
  <2>4. Go(t, Rest(t), th)
    BY <1>5
  <2>5. th.sid = thread[t].sid /\ th.ids = thread[t].ids
    BY <2>1 DEF Thread
  <2> HIDE DEF th
  <2>6. Fits(th, Rest(t))
    <3>1. Fits(thread[t], Rest(t))
      BY <2>1, RestFits DEF Inv
    <3>2. \A name : Ready(thread[t], name) => Ready(th, name)
      BY <1>5, <2>3, <2>5 DEF Ready, Found, PortalFound
    <3> QED
      BY <2>3, <3>1, <3>2 DEF Fits
  <2>7. ThreadsInv' /\ Saved'
    BY <1>1, <1>5, <2>3, <2>4, <2>6, CallMade DEF OnlyThread, daemonVars
  <2> QED
    BY <1>5, <2>7, OnlyThreadInv
<1> QED
  BY <1>2, <1>3, <1>4, <1>5

LEMMA CopyPortalInv ==
  ASSUME Inv, NEW t \in Threads, CopyPortal(t)
  PROVE  Inv'
<1> DEFINE portal == GetPortalForConnectionId(thread[t].sid, thread[t].cid)
           th == [thread[t] EXCEPT !.portal = portal]
<1>1. At(t, "GetPortalForConnectionId") /\ Go(t, Rest(t), th) /\ OnlyThread
  BY DEF CopyPortal
<1>2. thread[t] \in Thread /\ thread[t].todo # <<>> /\ thread[t].op = "timeout"
  BY <1>1, AtReady DEF Inv, Ready
<1>3. portal \in Portals \cup {None}
  BY ConnectionOf DEF GetPortalForConnectionId, Connection, Inv, KernelInv
<1> HIDE DEF portal
<1>4. /\ th \in Thread /\ th.op = thread[t].op /\ th.iqn = thread[t].iqn
      /\ th.sid = thread[t].sid /\ th.ids = thread[t].ids
  BY <1>2, <1>3 DEF Thread
<1> HIDE DEF th
<1>5. Fits(th, Rest(t))
  <2>1. Fits(thread[t], Rest(t))
    BY <1>2, RestFits DEF Inv
  <2>2. \A name : Ready(thread[t], name) => Ready(th, name)
    BY <1>2, <1>4 DEF Ready
  <2> QED
    BY <1>2, <1>4, <2>1, <2>2 DEF Fits
<1>6. ThreadsInv' /\ Saved'
  BY <1>1, <1>4, <1>5, CallMade DEF OnlyThread, daemonVars
<1> QED
  BY <1>1, <1>6, OnlyThreadInv

\* Something is begun, and nothing else changes.
LEMMA BeginOnly ==
  ASSUME Inv, NEW t \in Threads, NEW op \in Ops, NEW todo, NEW iqn \in IQNs \cup {None},
         NEW portal \in Portals \cup {None}, Begin(t, op, todo, iqn, portal), OnlyThread,
         todo \in Seq(Calls),
         \A new \in Thread : new.op = op /\ new.iqn = iqn /\ new.portal = portal
                             => Fits(new, todo),
         t = Discovery => op = "discovery",
         \/ op \notin {"wake", "sleep"}
         \/ op = "sleep" /\ todo # <<>> /\ Head(todo).name = "GetSessionIds"
         \/ activeTargets \in [IQNs -> SUBSET Portals]
  PROVE  Inv'
<1> DEFINE new == [Blank EXCEPT !.op = op, !.todo = todo, !.iqn = iqn, !.portal = portal]
<1>1. thread' = [thread EXCEPT ![t] = new]
  BY DEF Begin
<1>2. /\ new \in Thread /\ new.op = op /\ new.todo = todo /\ new.iqn = iqn
      /\ new.portal = portal
  BY BlankGood DEF Thread
<1> HIDE DEF new
<1>3. /\ UNCHANGED kernelVars /\ UNCHANGED clientVars
      /\ messages' \in Seq(Message) /\ unmounting' \subseteq unmounting
      /\ UNCHANGED <<daemon, activeTargets, atStart, reused>>
  BY DEF OnlyThread, daemonVars, Inv, KernelInv
<1> QED
  BY <1>1, <1>2, <1>3, BeginInv

LEMMA LookUpTargetFits ==
  ASSUME NEW new \in Thread, new.op \in DOMAIN Found, new.iqn \in IQNs,
         LogsIn(new.op) => new.portal \in Portals
  PROVE  Fits(new, LookUpTarget)
<1>1. Ready(new, "GetSessionIdForTargetIQN")
  BY DEF Ready
<1>2. new.op # "discovery"
  BY DEF Found
<1> QED
  BY <1>1, <1>2, OneFits DEF LookUpTarget, CallNames, LogsIn

LEMMA LookUpTargetType == LookUpTarget \in Seq(Calls)
<1>1. Call("GetSessionIdForTargetIQN") \in Calls
  BY CallOf DEF CallNames
<1> QED
  BY <1>1 DEF LookUpTarget

LEMMA TimeoutCallbackInv ==
  ASSUME Inv, NEW t \in Threads, TimeoutCallback(t)
  PROVE  Inv'
<1>1. At(t, "timeoutCallback")
  BY DEF TimeoutCallback
<1>2. thread[t] \in Thread /\ thread[t].op = "timeout"
  BY <1>1, AtReady DEF Inv, Ready
<1>3. CASE Crash
  BY <1>3, CrashInv
<1>4. CASE ~Crash
  <2>1. /\ ~(thread[t].iqn = None \/ thread[t].portal = None) /\ OnlyThread
        /\ \/ Continue(t, <<>>)
           \/ thread' = [thread EXCEPT ![t] =
                  [Blank EXCEPT !.op = "login", !.todo = LookUpTarget,
                                !.iqn = thread[t].iqn, !.portal = thread[t].portal]]
    BY <1>4 DEF TimeoutCallback
  <2>2. CASE Continue(t, <<>>)
    <3>1. ThreadsInv' /\ Saved'
      BY <1>1, <2>1, <2>2, PlainNone, PlainFits, CallMadeContinue DEF OnlyThread, daemonVars
    <3> QED
      BY <2>1, <3>1, OnlyThreadInv
  <2>3. CASE thread' = [thread EXCEPT ![t] =
                  [Blank EXCEPT !.op = "login", !.todo = LookUpTarget,
                                !.iqn = thread[t].iqn, !.portal = thread[t].portal]]
    <3> DEFINE new == [Blank EXCEPT !.op = "login", !.todo = LookUpTarget,
                                    !.iqn = thread[t].iqn, !.portal = thread[t].portal]
    <3>1. thread[t].iqn \in IQNs /\ thread[t].portal \in Portals
      BY <1>2, <2>1 DEF Thread
    <3>2. /\ new \in Thread /\ new.op = "login" /\ new.todo = LookUpTarget
          /\ new.iqn = thread[t].iqn /\ new.portal = thread[t].portal
      BY <3>1, BlankGood, LookUpTargetType DEF Thread, Ops, OfPortal
    <3>3. thread' = [thread EXCEPT ![t] = new]
      BY <2>3
    <3> HIDE DEF new
    <3>4. Fits(new, new.todo)
      BY <3>1, <3>2, LookUpTargetFits DEF Found
    <3>5. t = Main
      BY <1>2, OnMain
    <3>6. /\ UNCHANGED kernelVars /\ UNCHANGED clientVars
          /\ messages' \in Seq(Message) /\ unmounting' \subseteq unmounting
          /\ UNCHANGED <<daemon, activeTargets, atStart, reused>>
      BY <2>1 DEF OnlyThread, daemonVars, Inv, KernelInv
    <3> QED
      BY <3>2, <3>3, <3>4, <3>5, <3>6, BeginInv, ThreadNames
  <2> QED
    BY <2>1, <2>2, <2>3
<1> QED
  BY <1>3, <1>4

LEMMA HandleNotificationInv ==
  ASSUME Inv, HandleNotification
  PROVE  Inv'
<1> DEFINE m == Head(messages)
           new == [Blank EXCEPT !.op = "timeout", !.todo = TimeoutCalls,
                                !.sid = m.sid, !.cid = m.cid, !.gen = m.gen]
<1>1. /\ thread' = [thread EXCEPT ![Main] = new] /\ messages' = Tail(messages)
      /\ messages # <<>>
      /\ UNCHANGED kernelVars /\ UNCHANGED clientVars /\ UNCHANGED daemonVars
  BY DEF HandleNotification
<1>2. m \in Message /\ messages' \in Seq(Message)
  BY <1>1, HeadTailProperties DEF Inv, KernelInv
<1> HIDE DEF m
<1>3. \A name \in {"GetTargetIQNForSessionId", "GetPortalForConnectionId",
                   "ReleaseConnection", "timeoutCallback"} : name \in CallNames
  BY DEF CallNames
<1>4. TimeoutCalls = ((<<Call("GetTargetIQNForSessionId")>> \o <<Call("GetPortalForConnectionId")>>)
                      \o <<Call("ReleaseConnection")>>) \o <<Call("timeoutCallback")>>
  BY DEF TimeoutCalls
<1>5. ASSUME NEW th, th.op = "timeout"
      PROVE  Fits(th, TimeoutCalls)
  <2>1. \A name \in {"GetTargetIQNForSessionId", "GetPortalForConnectionId",
                     "ReleaseConnection", "timeoutCallback"} : Ready(th, name)
    BY <1>5 DEF Ready
  <2>2. \A name \in {"GetTargetIQNForSessionId", "GetPortalForConnectionId",
                     "ReleaseConnection", "timeoutCallback"} : Fits(th, <<Call(name)>>)
    BY <1>3, <1>5, <2>1, OneFits
  <2> QED
    BY <1>4, <2>2, FitsConcat
<1>6. TimeoutCalls \in Seq(Calls)
  <2>1. Fits([op |-> "timeout"], TimeoutCalls)
    BY <1>5
  <2> QED
    BY <2>1 DEF Fits
<1>7. m.sid \in Slots /\ m.cid \in Cids /\ m.gen \in 0 .. MaxCreated
  BY <1>2, Ids DEF Message
<1>8. new \in Thread /\ new.op = "timeout" /\ new.todo = TimeoutCalls
  BY <1>6, <1>7, BlankGood DEF Thread, Ops
<1> HIDE DEF new
<1>9. Fits(new, new.todo)
  BY <1>5, <1>8
<1>10. UNCHANGED <<daemon, activeTargets, atStart, reused>> /\ unmounting' \subseteq unmounting
  BY <1>1 DEF daemonVars
<1> QED
  BY <1>1, <1>2, <1>8, <1>9, <1>10, BeginInv, ThreadNames

-----------------------------------------------------------------------------
(* What is begun and ended.                                                *)

LEMMA RequestInv ==
  ASSUME Inv, NEW op \in OfTarget \cup OfPortal, NEW iqn \in IQNs,
         NEW portal \in Portals \cup {None}, op \in OfPortal => portal \in Portals,
         Request(op, iqn, portal)
  PROVE  Inv'
<1>1. Begin(Main, op, LookUpTarget, iqn, portal) /\ OnlyThread
  BY DEF Request
<1>2. op \in DOMAIN Found /\ op \in Ops /\ op \notin {"wake", "sleep"}
  BY DEF OfTarget, OfPortal, Found, Ops
<1>3. LogsIn(op) => portal \in Portals
  BY DEF LogsIn, OfTarget, OfPortal
<1>4. \A new \in Thread : new.op = op /\ new.iqn = iqn /\ new.portal = portal
                          => Fits(new, LookUpTarget)
  BY <1>2, <1>3, LookUpTargetFits
<1> QED
  BY <1>1, <1>2, <1>4, BeginOnly, LookUpTargetType, ThreadNames

\* The list of sessions is asked for.
LEMMA ListFits ==
  ASSUME NEW new \in Thread, new.op \in {"sleep", "listTargets"}
  PROVE  Fits(new, <<Call("GetSessionIds")>>)
<1>1. Ready(new, "GetSessionIds")
  BY DEF Ready
<1> QED
  BY <1>1, OneFits DEF CallNames

LEMMA ListInv ==
  ASSUME Inv, NEW op \in {"sleep", "listTargets"},
         Begin(Main, op, <<Call("GetSessionIds")>>, None, None), OnlyThread
  PROVE  Inv'
<1>1. Call("GetSessionIds") \in Calls /\ Call("GetSessionIds").name = "GetSessionIds"
  BY CallOf DEF CallNames
<1>2. /\ <<Call("GetSessionIds")>> \in Seq(Calls) /\ <<Call("GetSessionIds")>> # <<>>
      /\ Head(<<Call("GetSessionIds")>>).name = "GetSessionIds"
  BY <1>1
<1>3. op \in Ops /\ None \in IQNs \cup {None} /\ None \in Portals \cup {None}
  BY DEF Ops
<1> DEFINE todo == <<Call("GetSessionIds")>>
<1>4. /\ todo \in Seq(Calls) /\ todo # <<>> /\ Head(todo).name = "GetSessionIds"
      /\ Begin(Main, op, todo, None, None)
      /\ \A new \in Thread : new.op = op => Fits(new, todo)
  BY <1>2, ListFits
<1> HIDE DEF todo
<1>5. Main # Discovery /\ Main \in Threads
  BY ThreadNames
<1>6. CASE op = "sleep"
  BY <1>3, <1>4, <1>5, <1>6, BeginOnly
<1>7. CASE op = "listTargets"
  BY <1>3, <1>4, <1>5, <1>7, BeginOnly
<1> QED
  BY <1>6, <1>7

LEMMA WakeInv ==
  ASSUME Inv, Wake
  PROVE  Inv'
<1>1. activeTargets # None /\ Begin(Main, "wake", <<>>, None, None) /\ OnlyThread
  BY DEF Wake
<1>2. activeTargets \in [IQNs -> SUBSET Portals]
  BY <1>1 DEF Inv, DaemonInv
<1>3. "wake" \in Ops /\ <<>> \in Seq(Calls)
  BY DEF Ops
<1>4. \A new : Fits(new, <<>>)
  BY PlainNone, PlainFits
<1> QED
  BY <1>1, <1>2, <1>3, <1>4, BeginOnly, ThreadNames

LEMMA DiscoverInv ==
  ASSUME Inv, Discover
  PROVE  Inv'
<1>1. PICK portal \in Portals :
        Begin(Discovery, "discovery", <<Call("CreateSession")>>, DiscoveryIQN, portal)
  BY DEF Discover
<1>2. OnlyThread
  BY DEF Discover
<1>3. <<Call("CreateSession")>> \in Seq(Calls) /\ "discovery" \in Ops
  <2>1. Call("CreateSession") \in Calls
    BY CallOf DEF CallNames
  <2> QED
    BY <2>1 DEF Ops
<1>4. ASSUME NEW new \in Thread, new.op = "discovery", new.portal = portal
      PROVE  Fits(new, <<Call("CreateSession")>>)
  <2>1. Ready(new, "CreateSession")
    BY <1>4 DEF Ready
  <2> QED
    BY <1>4, <2>1, OneFits DEF CallNames
<1> DEFINE todo == <<Call("CreateSession")>>
<1>5. /\ todo \in Seq(Calls) /\ Begin(Discovery, "discovery", todo, DiscoveryIQN, portal)
      /\ \A new \in Thread : new.op = "discovery" /\ new.portal = portal => Fits(new, todo)
  BY <1>1, <1>3, <1>4
<1> HIDE DEF todo
<1>6. /\ Discovery \in Threads /\ DiscoveryIQN \in IQNs \cup {None}
      /\ portal \in Portals \cup {None}
  BY ThreadNames, RequestsConstants
<1> QED
  BY <1>2, <1>3, <1>5, <1>6, BeginOnly

LEMMA BlankFits == Blank.op = "none" /\ Fits(Blank, Blank.todo)
<1>1. Blank.todo = <<>> /\ Blank.op = "none"
  BY DEF Blank
<1> QED
  BY <1>1, PlainNone, PlainFits

LEMMA ReturnInv ==
  ASSUME Inv, NEW t \in Threads, Return(t)
  PROVE  Inv'
<1>1. thread' = [thread EXCEPT ![t] = Blank] /\ OnlyThread
  BY DEF Return
<1>2. ThreadsInv' /\ Saved'
  BY <1>1, BlankFits, BlankGood, BeginGood DEF Inv, Saved, OnlyThread, daemonVars
<1> QED
  BY <1>1, <1>2, OnlyThreadInv

LEMMA NextLoginInv ==
  ASSUME Inv, NEW t \in Threads, NextLogin(t)
  PROVE  Inv'
<1>1. /\ thread[t].op = "wake" /\ UNCHANGED <<messages, daemon, unmounting, atStart, reused>>
      /\ UNCHANGED kernelVars /\ UNCHANGED clientVars
  BY DEF NextLogin
<1>2. t = Main
  BY <1>1, OnMain
<1>3. activeTargets \in [IQNs -> SUBSET Portals]
  BY <1>1, <1>2 DEF Inv, Saved
<1>4. ThreadsInv' /\ Saved' /\ activeTargets' \in [IQNs -> SUBSET Portals] \cup {None}
  <2>1. CASE activeTargets' = None /\ thread' = [thread EXCEPT ![t] = Blank]
    BY <1>2, <2>1, BlankFits, BlankGood, BeginGood DEF Inv, Saved
  <2>2. ASSUME NEW iqn \in IQNs, NEW portal \in activeTargets[iqn],
               activeTargets' = [activeTargets EXCEPT ![iqn] = @ \ {portal}],
               Go(t, LookUpTarget, [Blank EXCEPT !.op = "wake", !.iqn = iqn,
                                                 !.portal = portal])
        PROVE  ThreadsInv' /\ Saved' /\ activeTargets' \in [IQNs -> SUBSET Portals] \cup {None}
    <3> DEFINE th == [Blank EXCEPT !.op = "wake", !.iqn = iqn, !.portal = portal]
    <3>1. activeTargets' \in [IQNs -> SUBSET Portals] /\ portal \in Portals
      BY <1>3, <2>2
    <3>2. th \in Thread /\ th.op = "wake" /\ th.iqn = iqn /\ th.portal = portal
      BY <3>1, BlankGood DEF Thread, Ops
    <3>3. Go(t, LookUpTarget, th)
      BY <2>2
    <3> HIDE DEF th
    <3>4. Fits(th, LookUpTarget)
      BY <3>1, <3>2, LookUpTargetFits DEF Found
    <3>5. ThreadsInv'
      BY <1>2, <3>2, <3>3, <3>4, GoGood, ThreadNames DEF Inv
    <3> QED
      BY <3>1, <3>5 DEF Saved
  <2> QED
    BY <2>1, <2>2 DEF NextLogin
<1>5. KernelInv'
  BY <1>1, TableKept, KernelKept DEF Inv, KernelInv, kernelVars, tableVars
<1>6. ClientInv' /\ DaemonInv'
  BY <1>1, <1>4 DEF Inv, ClientInv, DaemonInv, clientVars
<1> QED
  BY <1>4, <1>5, <1>6 DEF Inv

LEMMA RestartInv ==
  ASSUME Inv, Restart
  PROVE  Inv'
<1>1. /\ UNCHANGED <<thread, unmounting, activeTargets, atStart, reused, messages>>
      /\ UNCHANGED kernelVars /\ daemon' \in {"opened", "up"}
      /\ client' \in BOOLEAN /\ accessLock' = FALSE /\ notificationPort' \in BOOLEAN
  BY DEF Restart, OpenInitiator, RegisterNotificationPort, Inv, ClientInv
<1>2. KernelInv'
  BY <1>1, TableKept, KernelKept DEF Inv, KernelInv, kernelVars, tableVars
<1>3. ClientInv' /\ DaemonInv'
  BY <1>1 DEF Inv, ClientInv, DaemonInv
<1>4. ThreadsInv' /\ Saved'
  BY <1>1 DEF Inv, ThreadsInv, Saved
<1> QED
  BY <1>2, <1>3, <1>4 DEF Inv

-----------------------------------------------------------------------------
(* The workloop.                                                           *)

\* A thread's invariant speaks of nothing that the workloop changes.
LEMMA ThreadsKept ==
  ASSUME Inv, UNCHANGED thread, UNCHANGED daemonVars
  PROVE  ThreadsInv' /\ Saved'
BY DEF Inv, ThreadsInv, Saved, daemonVars

LEMMA ConnectionLostInv ==
  ASSUME Inv, ConnectionLost, UNCHANGED thread, UNCHANGED daemonVars
  PROVE  Inv'
<1>1. UNCHANGED clientVars /\ ThreadsInv' /\ Saved'
  BY ThreadsKept DEF ConnectionLost
<1>2. \E sid : \E cid \in Connections(sid) : HandleConnectionTimeout(sid, cid)
  BY DEF ConnectionLost, Active
<1> QED
  BY <1>1, <1>2, LostInv

LEMMA SessionDroppedInv ==
  ASSUME Inv, SessionDropped, UNCHANGED thread, UNCHANGED daemonVars
  PROVE  Inv'
<1>1. ThreadsInv' /\ Saved'
  BY ThreadsKept
<1>2. PICK sid \in Slots : ReleaseSession(sid)
  BY DEF SessionDropped
<1>3. TableInv' /\ created' = created
  BY <1>2, ReleaseSessionTable DEF Inv, KernelInv
<1>4. lost' \in 0 .. MaxLost /\ messages' = messages /\ UNCHANGED clientVars
  BY UserClientConstants DEF SessionDropped, Inv, KernelInv
<1>5. KernelInv'
  BY <1>3, <1>4, KernelKept DEF Inv, KernelInv, daemonVars
<1>6. ClientInv' /\ DaemonInv'
  BY <1>4 DEF Inv, ClientInv, DaemonInv, clientVars, daemonVars
<1> QED
  BY <1>1, <1>5, <1>6 DEF Inv

-----------------------------------------------------------------------------
(* The system.                                                             *)

LEMMA InitInv == Init => Inv
<1> SUFFICES ASSUME Init PROVE Inv
  OBVIOUS
<1>1. KernelInv
  BY UserClientConstants DEF Init, UserClientInit, KernelInv, TableInv
<1>2. ClientInv /\ DaemonInv
  BY DEF Init, UserClientInit, ClientInv, DaemonInv
<1>3. ThreadsInv /\ Saved
  BY BlankGood, BlankFits, ThreadNames DEF Init, ThreadsInv, Saved
<1> QED
  BY <1>1, <1>2, <1>3 DEF Inv

LEMMA ThreadStepInv ==
  ASSUME Inv, NEW t \in Threads, ThreadStep(t)
  PROVE  Inv'
<1>1. CASE LookUpSession(t)
  BY <1>1, LookUpSessionInv
<1>2. CASE LookUpConnection(t)
  BY <1>2, LookUpConnectionInv
<1>3. CASE Create(t)
  BY <1>3, CreateInv
<1>4. CASE AddConnection(t)
  BY <1>4, AddConnectionInv
<1>5. CASE Exchange(t)
  BY <1>5, ExchangeInv
<1>6. CASE Query(t)
  BY <1>6, QueryInv
<1>7. CASE SetParameter(t)
  BY <1>7, SetParameterInv
<1>8. CASE Activate(t)
  BY <1>8, ActivateInv
<1>9. CASE Deactivate(t)
  BY <1>9, DeactivateInv
<1>10. CASE LogoutExchange(t)
  BY <1>10, LogoutExchangeInv
<1>11. CASE Release(t)
  BY <1>11, ReleaseInv
<1>12. CASE LogoutUnmounts(t)
  BY <1>12, LogoutUnmountsInv
<1>13. CASE LogoutOfPortal(t)
  BY <1>13, LogoutOfPortalInv
<1>14. CASE ReadParameter(t)
  BY <1>14, ReadParameterInv
<1>15. CASE ListSessions(t)
  BY <1>15, ListSessionsInv
<1>16. CASE ListTarget(t)
  BY <1>16, ListTargetInv
<1>17. CASE SleepTarget(t)
  BY <1>17, SleepTargetInv
<1>18. CASE SleepSession(t)
  BY <1>18, SleepSessionInv
<1>19. CASE CopyTarget(t)
  BY <1>19, CopyTargetInv
<1>20. CASE CopyPortal(t)
  BY <1>20, CopyPortalInv
<1>21. CASE TimeoutCallback(t)
  BY <1>21, TimeoutCallbackInv
<1>22. CASE NextLogin(t)
  BY <1>22, NextLoginInv
<1>23. CASE Return(t)
  BY <1>23, ReturnInv
<1> QED
  BY <1>1, <1>2, <1>3, <1>4, <1>5, <1>6, <1>7, <1>8, <1>9, <1>10, <1>11, <1>12, <1>13,
     <1>14, <1>15, <1>16, <1>17, <1>18, <1>19, <1>20, <1>21, <1>22, <1>23 DEF ThreadStep

LEMMA StepInv == Inv /\ [Next]_vars => Inv'
<1> SUFFICES ASSUME Inv, [Next]_vars PROVE Inv'
  OBVIOUS
<1>1. CASE \E t \in Threads : ThreadStep(t)
  BY <1>1, ThreadStepInv
<1>2. CASE \E op \in OfTarget, iqn \in Targets : Request(op, iqn, None)
  <2>1. PICK op \in OfTarget, iqn \in Targets : Request(op, iqn, None)
    BY <1>2
  <2>2. op \notin OfPortal /\ iqn \in IQNs
    BY DEF OfTarget, OfPortal, Targets
  <2> QED
    BY <2>1, <2>2, RequestInv
<1>3. CASE \E op \in OfPortal, iqn \in Targets, portal \in Portals : Request(op, iqn, portal)
  <2>1. PICK op \in OfPortal, iqn \in Targets, portal \in Portals : Request(op, iqn, portal)
    BY <1>3
  <2>2. iqn \in IQNs
    BY DEF Targets
  <2> QED
    BY <2>1, <2>2, RequestInv
<1>4. CASE ListActiveTargets
  BY <1>4, ListInv DEF ListActiveTargets
<1>5. CASE Sleep
  BY <1>5, ListInv DEF Sleep
<1>6. CASE Wake
  BY <1>6, WakeInv
<1>7. CASE Discover
  BY <1>7, DiscoverInv
<1>8. CASE HandleNotification
  BY <1>8, HandleNotificationInv
<1>9. CASE DiskUnmountComplete
  BY <1>9, DiskUnmountCompleteInv
<1>10. CASE Restart
  BY <1>10, RestartInv
<1>11. CASE (ConnectionLost \/ SessionDropped) /\ UNCHANGED thread /\ UNCHANGED daemonVars
  BY <1>11, ConnectionLostInv, SessionDroppedInv
<1>12. CASE UNCHANGED vars
  <2>1. /\ UNCHANGED kernelVars /\ UNCHANGED clientVars /\ UNCHANGED messages
        /\ UNCHANGED thread /\ UNCHANGED daemonVars
    BY <1>12 DEF vars
  <2> QED
    BY <2>1, ThreadsKept, OnlyThreadInv DEF OnlyThread
<1> QED
  BY <1>1, <1>2, <1>3, <1>4, <1>5, <1>6, <1>7, <1>8, <1>9, <1>10, <1>11, <1>12 DEF Next

LEMMA AlwaysInv == Spec => []Inv
BY InitInv, StepInv, PTL DEF Spec

\* Whatever the interleaving of the run loop, the discovery thread, the workloop and
\* the daemon's deaths, every variable keeps its type: in particular no call is made
\* with an identifier, a portal or a list that the thread does not have
\* (iSCSIDaemon.c, iSCSISession.c, iSCSIHBAInterface.c).
THEOREM TypeCorrect == Spec => []TypeOK
BY AlwaysInv, InvType, PTL

\* However often reports are asked for, the daemon never makes the call that would
\* keep the user client's lock (iSCSIHBAUserClient::GetConnectionParameter), because
\* it asks a connection only for a connection's keys.
THEOREM MethodsReturn == Spec => []LockIsReleased
BY AlwaysInv, InvType, PTL

-----------------------------------------------------------------------------
(* The calls that a thread has before it, and the order they come in.      *)

CallsIn(todo) == {todo[i] : i \in 1 .. Len(todo)}
Names(todo) == {c.name : c \in CallsIn(todo)}
Has(th, name) == name \in Names(th.todo)

Sets == {"SetSessionParameter", "SetConnectionParameter"}
Talk == Sets \cup {"ActivateConnection"}
\* Calls after which the thread decides anew.
Alone == {"GetSessionIdForTargetIQN", "GetConnectionIdForPortalAddress", "CreateSession",
          "CreateConnection", "GetConnectionIds", "unmount", "GetSessionIds"}

\* In one list b may come somewhere after a.
Follows(a, b) ==
  /\ a \notin Alone \cup {"ActivateConnection", "timeoutCallback"}
  /\ b \notin Alone
  /\ b \in Talk => a \in Sets \cup {"exchange"}
  /\ b = "ReleaseConnection" => a \in {"GetTargetIQNForSessionId", "GetPortalForConnectionId"}
  /\ a = "ReleaseConnection" => b = "timeoutCallback"

\* A session that is deactivated is released later.
Orderly(todo) ==
  /\ \A j \in 1 .. Len(todo) : \A i \in 1 .. j - 1 : Follows(todo[i].name, todo[j].name)
  /\ \A i \in 1 .. Len(todo) : todo[i].name = "DeactivateAllConnections" =>
       \E j \in i + 1 .. Len(todo) : todo[j].name = "ReleaseSession"

LEMMA NamesAre ==
  ASSUME NEW todo
  PROVE  Names(todo) = {todo[i].name : i \in 1 .. Len(todo)}
BY DEF Names, CallsIn

LEMMA OrderlyNone == Orderly(<<>>) /\ CallsIn(<<>>) = {} /\ Names(<<>>) = {}
<1>1. CallsIn(<<>>) = {}
  BY DEF CallsIn
<1>2. Names(<<>>) = {}
  BY <1>1 DEF Names
<1> QED
  BY <1>1, <1>2 DEF Orderly

LEMMA OrderlyOne ==
  ASSUME NEW c
  PROVE  /\ c.name # "DeactivateAllConnections" => Orderly(<<c>>)
         /\ CallsIn(<<c>>) = {c} /\ Names(<<c>>) = {c.name}
<1>1. CallsIn(<<c>>) = {c}
  BY DEF CallsIn
<1>2. Names(<<c>>) = {c.name}
  BY <1>1 DEF Names
<1> QED
  BY <1>1, <1>2 DEF Orderly

LEMMA CallsConcat ==
  ASSUME NEW a \in Seq(Calls), NEW b \in Seq(Calls)
  PROVE  /\ CallsIn(a \o b) = CallsIn(a) \cup CallsIn(b)
         /\ Names(a \o b) = Names(a) \cup Names(b)
<1>1. Len(a \o b) = Len(a) + Len(b) /\ Len(a) \in Nat /\ Len(b) \in Nat
  BY ConcatProperties
<1>2. \A i \in 1 .. Len(a \o b) :
         (a \o b)[i] = IF i <= Len(a) THEN a[i] ELSE b[i - Len(a)]
  BY ConcatProperties
<1>3. ASSUME NEW i \in 1 .. Len(a \o b)
      PROVE  (a \o b)[i] \in CallsIn(a) \cup CallsIn(b)
  <2>1. i <= Len(a) => i \in 1 .. Len(a)
    BY <1>1
  <2>2. ~(i <= Len(a)) => i - Len(a) \in 1 .. Len(b)
    BY <1>1
  <2> QED
    BY <1>2, <2>1, <2>2 DEF CallsIn
<1>4. ASSUME NEW i \in 1 .. Len(a)
      PROVE  a[i] \in CallsIn(a \o b)
  <2>1. i \in 1 .. Len(a \o b) /\ i <= Len(a)
    BY <1>1
  <2> QED
    BY <1>2, <2>1 DEF CallsIn
<1>5. ASSUME NEW i \in 1 .. Len(b)
      PROVE  b[i] \in CallsIn(a \o b)
  <2>1. /\ i + Len(a) \in 1 .. Len(a \o b) /\ ~(i + Len(a) <= Len(a))
        /\ i + Len(a) - Len(a) = i
    BY <1>1
  <2> QED
    BY <1>2, <2>1 DEF CallsIn
<1>6. CallsIn(a \o b) = CallsIn(a) \cup CallsIn(b)
  BY <1>3, <1>4, <1>5 DEF CallsIn
<1> QED
  BY <1>6 DEF Names

LEMMA OrderlyConcat ==
  ASSUME NEW a \in Seq(Calls), NEW b \in Seq(Calls), Orderly(a), Orderly(b),
         \A x \in Names(a), y \in Names(b) : Follows(x, y)
  PROVE  Orderly(a \o b)
<1>1. Len(a \o b) = Len(a) + Len(b) /\ Len(a) \in Nat /\ Len(b) \in Nat
  BY ConcatProperties
<1>2. \A i \in 1 .. Len(a \o b) :
         (a \o b)[i] = IF i <= Len(a) THEN a[i] ELSE b[i - Len(a)]
  BY ConcatProperties
<1> DEFINE ab == a \o b
<1>3. /\ \A i \in 1 .. Len(a) : ab[i] = a[i] /\ a[i].name \in Names(a)
      /\ \A i \in 1 .. Len(b) : b[i].name \in Names(b)
      /\ \A i \in 1 .. Len(ab) : i \in 1 .. Len(a) \/ (i - Len(a) \in 1 .. Len(b) /\ ab[i] = b[i - Len(a)])
  BY <1>1, <1>2, NamesAre
<1> HIDE DEF ab
<1>4. ASSUME NEW j \in 1 .. Len(ab), NEW i \in 1 .. j - 1
      PROVE  Follows(ab[i].name, ab[j].name)
  <2>1. i \in 1 .. Len(ab)
    BY <1>1 DEF ab
  <2>2. CASE j \in 1 .. Len(a)
    <3>1. i \in 1 .. Len(a)
      BY <1>1, <2>2
    <3> QED
      BY <1>3, <2>2, <3>1 DEF Orderly
  <2>3. CASE i \in 1 .. Len(a) /\ j \notin 1 .. Len(a)
    BY <1>3, <2>3
  <2>4. CASE i \notin 1 .. Len(a) /\ j \notin 1 .. Len(a)
    <3>1. i - Len(a) \in 1 .. (j - Len(a)) - 1 /\ j - Len(a) \in 1 .. Len(b)
      BY <1>1, <1>3, <2>1, <2>4
    <3> QED
      BY <1>3, <2>1, <2>4, <3>1 DEF Orderly
  <2>5. j \notin 1 .. Len(a) \/ i \in 1 .. Len(a)
    BY <1>1
  <2> QED
    BY <2>2, <2>3, <2>4, <2>5
<1>5. ASSUME NEW i \in 1 .. Len(ab), ab[i].name = "DeactivateAllConnections"
      PROVE  \E j \in i + 1 .. Len(ab) : ab[j].name = "ReleaseSession"
  <2>1. CASE i \in 1 .. Len(a)
    <3>1. PICK j \in i + 1 .. Len(a) : a[j].name = "ReleaseSession"
      BY <1>3, <1>5, <2>1 DEF Orderly
    <3>2. j \in 1 .. Len(a) /\ j \in i + 1 .. Len(ab)
      BY <1>1 DEF ab
    <3> QED
      BY <1>3, <3>1, <3>2
  <2>2. CASE i \notin 1 .. Len(a)
    <3>1. i - Len(a) \in 1 .. Len(b) /\ ab[i] = b[i - Len(a)]
      BY <1>3, <2>2
    <3>2. PICK k \in (i - Len(a)) + 1 .. Len(b) : b[k].name = "ReleaseSession"
      BY <1>5, <3>1 DEF Orderly
    <3>3. /\ k + Len(a) \in i + 1 .. Len(ab) /\ k + Len(a) \in 1 .. Len(ab)
          /\ k + Len(a) \notin 1 .. Len(a) /\ (k + Len(a)) - Len(a) = k
      BY <1>1, <3>1 DEF ab
    <3> QED
      BY <1>3, <3>2, <3>3
  <2> QED
    BY <2>1, <2>2
<1> QED
  BY <1>4, <1>5 DEF Orderly, ab

\* What is known of the calls after the first.
LEMMA OrderlyTail ==
  ASSUME NEW todo \in Seq(Calls), todo # <<>>, Orderly(todo)
  PROVE  /\ Orderly(Tail(todo)) /\ Tail(todo) \in Seq(Calls)
         /\ CallsIn(todo) = {Head(todo)} \cup CallsIn(Tail(todo))
         /\ Names(todo) = {Head(todo).name} \cup Names(Tail(todo))
         /\ \A name \in Names(Tail(todo)) : Follows(Head(todo).name, name)
         /\ Head(todo).name = "DeactivateAllConnections" => "ReleaseSession" \in Names(Tail(todo))
<1> DEFINE rest == Tail(todo)
<1>1. /\ rest \in Seq(Calls) /\ Len(todo) \in Nat /\ Len(rest) = Len(todo) - 1
      /\ \A i \in 1 .. Len(rest) : rest[i] = todo[i + 1]
      /\ Head(todo) = todo[1] /\ 1 \in 1 .. Len(todo)
  BY HeadTailProperties
<1> HIDE DEF rest
<1>2. /\ \A i \in 1 .. Len(rest) : i + 1 \in 1 .. Len(todo) /\ 1 \in 1 .. (i + 1) - 1
      /\ \A i \in 1 .. Len(todo) : i = 1 \/ (i - 1 \in 1 .. Len(rest) /\ rest[i - 1] = todo[i])
  BY <1>1
<1>3. CallsIn(todo) = {Head(todo)} \cup CallsIn(rest)
  <2>1. \A i \in 1 .. Len(todo) : todo[i] \in {Head(todo)} \cup CallsIn(rest)
    BY <1>1, <1>2 DEF CallsIn
  <2>2. \A i \in 1 .. Len(rest) : rest[i] \in CallsIn(todo)
    BY <1>1, <1>2 DEF CallsIn
  <2> QED
    BY <1>1, <2>1, <2>2 DEF CallsIn
<1>4. Names(todo) = {Head(todo).name} \cup Names(rest)
  BY <1>3 DEF Names
<1>5. ASSUME NEW name \in Names(rest)
      PROVE  Follows(Head(todo).name, name)
  <2>1. PICK i \in 1 .. Len(rest) : rest[i].name = name
    BY NamesAre
  <2> QED
    BY <1>1, <1>2, <2>1 DEF Orderly
<1>6. ASSUME NEW j \in 1 .. Len(rest), NEW i \in 1 .. j - 1
      PROVE  Follows(rest[i].name, rest[j].name)
  <2>1. i \in 1 .. Len(rest) /\ i + 1 \in 1 .. (j + 1) - 1 /\ j + 1 \in 1 .. Len(todo)
    BY <1>1
  <2> QED
    BY <1>1, <2>1 DEF Orderly
<1>7. ASSUME NEW i \in 1 .. Len(rest), rest[i].name = "DeactivateAllConnections"
      PROVE  \E j \in i + 1 .. Len(rest) : rest[j].name = "ReleaseSession"
  <2>1. PICK j \in (i + 1) + 1 .. Len(todo) : todo[j].name = "ReleaseSession"
    BY <1>1, <1>2, <1>7 DEF Orderly
  <2>2. j - 1 \in i + 1 .. Len(rest) /\ j - 1 \in 1 .. Len(rest) /\ (j - 1) + 1 = j
    BY <1>1
  <2> QED
    BY <1>1, <2>1, <2>2
<1>8. Head(todo).name = "DeactivateAllConnections" => "ReleaseSession" \in Names(rest)
  <2> SUFFICES ASSUME Head(todo).name = "DeactivateAllConnections"
               PROVE  "ReleaseSession" \in Names(rest)
    OBVIOUS
  <2>1. PICK j \in 1 + 1 .. Len(todo) : todo[j].name = "ReleaseSession"
    BY <1>1 DEF Orderly
  <2>2. j \in 1 .. Len(todo) /\ j # 1
    BY <1>1
  <2> QED
    BY <1>2, <2>1, <2>2, NamesAre
<1> QED
  BY <1>1, <1>3, <1>4, <1>5, <1>6, <1>7, <1>8 DEF Orderly, rest

-----------------------------------------------------------------------------
(* The lists themselves.                                                   *)

LEMMA CallsOfTwo ==
  ASSUME NEW a, NEW b
  PROVE  CallsIn(<<a, b>>) = {a, b} /\ Names(<<a, b>>) = {a.name, b.name}
<1>1. CallsIn(<<a, b>>) = {a, b}
  BY DEF CallsIn
<1> QED
  BY <1>1 DEF Names

LEMMA CallsOfThree ==
  ASSUME NEW a, NEW b, NEW c
  PROVE  CallsIn(<<a, b, c>>) = {a, b, c} /\ Names(<<a, b, c>>) = {a.name, b.name, c.name}
<1>1. CallsIn(<<a, b, c>>) = {a, b, c}
  BY DEF CallsIn
<1> QED
  BY <1>1 DEF Names

LEMMA CallsOfFour ==
  ASSUME NEW a, NEW b, NEW c, NEW d
  PROVE  /\ CallsIn(<<a, b, c, d>>) = {a, b, c, d}
         /\ Names(<<a, b, c, d>>) = {a.name, b.name, c.name, d.name}
<1>1. CallsIn(<<a, b, c, d>>) = {a, b, c, d}
  BY DEF CallsIn
<1> QED
  BY <1>1 DEF Names

LEMMA OneCall ==
  ASSUME NEW name
  PROVE  /\ name # "DeactivateAllConnections" => Orderly(<<Call(name)>>)
         /\ CallsIn(<<Call(name)>>) = {Call(name)} /\ Names(<<Call(name)>>) = {name}
<1>1. Call(name).name = name
  BY DEF Call
<1> QED
  BY <1>1, OrderlyOne

LEMMA CallName ==
  /\ \A name : Call(name).name = name /\ Call(name).key = None
  /\ \A key : Set(key).key = key /\ Get(key).key = key
  /\ \A key \in SessionKeys : Set(key).name = "SetSessionParameter"
                              /\ Get(key).name = "GetSessionParameter"
  /\ \A key \in ConnectionKeys : Set(key).name = "SetConnectionParameter"
                                 /\ Get(key).name = "GetConnectionParameter"
  /\ \A key : Set(key).name \in Sets
BY DEF Call, Set, Get, Sets, SessionKeys, ConnectionKeys

\* The negotiated parameters, all of them.
LEMMA NegotiateList ==
  /\ NegotiateCalls \in Seq(Calls) /\ Orderly(NegotiateCalls)
  /\ CallsIn(NegotiateCalls) = {Set(key) : key \in Keys}
  /\ Names(NegotiateCalls) = Sets
<1>1. NegotiateCalls \in Seq(Calls)
  BY PlainLists DEF Plain
<1> DEFINE a == Set("MaxRecvDataSegmentLength")
           b == Set("MaxBurstLength")
           c == Set("FirstBurstLength")
<1>2. /\ NegotiateCalls = <<a, b, c>>
      /\ a.name = "SetConnectionParameter" /\ b.name = "SetSessionParameter"
      /\ c.name = "SetSessionParameter"
  BY CallName DEF NegotiateCalls, SessionKeys, ConnectionKeys
<1>3. {Set(key) : key \in Keys} = {a, b, c}
  BY DEF Keys, SessionKeys, ConnectionKeys
<1> HIDE DEF a, b, c
<1>4. CallsIn(NegotiateCalls) = {a, b, c} /\ Names(NegotiateCalls) = Sets
  BY <1>2, CallsOfThree DEF Sets
<1>5. Orderly(NegotiateCalls)
  BY <1>2 DEF Orderly, Follows, Alone, Talk, Sets
<1> QED
  BY <1>1, <1>3, <1>4, <1>5

LEMMA LogoutList ==
  /\ LogoutCalls \in Seq(Calls) /\ Orderly(LogoutCalls)
  /\ Names(LogoutCalls) = {"DeactivateAllConnections", "GetConnection", "ReleaseSession"}
<1>1. LogoutCalls \in Seq(Calls)
  BY PlainLists DEF Plain
<1> DEFINE a == Call("DeactivateAllConnections")
           b == Call("GetConnection")
           c == Call("ReleaseSession")
<1>2. /\ LogoutCalls = <<a, b, c>>
      /\ a.name = "DeactivateAllConnections" /\ b.name = "GetConnection"
      /\ c.name = "ReleaseSession"
  BY CallName DEF LogoutCalls
<1> HIDE DEF a, b, c
<1>3. Names(LogoutCalls) = {"DeactivateAllConnections", "GetConnection", "ReleaseSession"}
  BY <1>2, CallsOfThree
<1>4. \A i \in 1 .. 3 : \A j \in 1 .. i - 1 :
        Follows(LogoutCalls[j].name, LogoutCalls[i].name)
  BY <1>2 DEF Follows, Alone, Talk, Sets
<1>5. Len(LogoutCalls) = 3 /\ LogoutCalls[3].name = "ReleaseSession" /\ 3 \in 2 .. 3
      /\ LogoutCalls[2].name # "DeactivateAllConnections"
  BY <1>2
<1>6. \A i \in 1 .. 3 : i = 1 \/ i = 2 \/ i = 3
  OBVIOUS
<1>7. \A i \in 1 .. 3 : LogoutCalls[i].name = "DeactivateAllConnections" => i = 1
  BY <1>5, <1>6
<1>8. Orderly(LogoutCalls)
  BY <1>4, <1>5, <1>7 DEF Orderly
<1> QED
  BY <1>1, <1>3, <1>8

LEMMA LoginList ==
  /\ LoginCalls \in Seq(Calls) /\ Orderly(LoginCalls)
  /\ \A key \in Keys : Set(key) \in CallsIn(LoginCalls)
  /\ Names(LoginCalls) = {"exchange", "ActivateConnection"} \cup Sets
<1> DEFINE a == <<Call("exchange")>>
           c == <<Call("ActivateConnection")>>
<1>1. /\ a \in Seq(Calls) /\ Orderly(a) /\ Names(a) = {"exchange"}
      /\ c \in Seq(Calls) /\ Orderly(c) /\ Names(c) = {"ActivateConnection"}
  BY OneCall, CallOf DEF CallNames
<1>2. LoginCalls = (a \o NegotiateCalls) \o c
  BY DEF LoginCalls
<1> HIDE DEF a, c
<1> DEFINE b == a \o NegotiateCalls
<1>3. /\ b \in Seq(Calls) /\ Names(b) = {"exchange"} \cup Sets
      /\ CallsIn(b) = CallsIn(a) \cup CallsIn(NegotiateCalls)
  BY <1>1, NegotiateList, CallsConcat, ConcatProperties
<1>4. \A x \in Names(a), y \in Names(NegotiateCalls) : Follows(x, y)
  BY <1>1, NegotiateList DEF Follows, Alone, Talk, Sets
<1>5. Orderly(b)
  BY <1>1, <1>4, NegotiateList, OrderlyConcat
<1> HIDE DEF b
<1>6. \A x \in Names(b), y \in Names(c) : Follows(x, y)
  BY <1>1, <1>3 DEF Follows, Alone, Talk, Sets
<1>7. /\ b \o c \in Seq(Calls) /\ Orderly(b \o c)
      /\ CallsIn(b \o c) = CallsIn(b) \cup CallsIn(c) /\ Names(b \o c) = Names(b) \cup Names(c)
  BY <1>1, <1>3, <1>5, <1>6, OrderlyConcat, CallsConcat, ConcatProperties
<1>8. LoginCalls = b \o c
  BY <1>2 DEF b
<1> QED
  BY <1>1, <1>3, <1>7, <1>8, NegotiateList

LEMMA QueryList ==
  /\ <<Call("query")>> \o LogoutCalls \in Seq(Calls)
  /\ Orderly(<<Call("query")>> \o LogoutCalls)
  /\ Names(<<Call("query")>> \o LogoutCalls) =
        {"query", "DeactivateAllConnections", "GetConnection", "ReleaseSession"}
<1> DEFINE a == <<Call("query")>>
<1>1. a \in Seq(Calls) /\ Orderly(a) /\ Names(a) = {"query"}
  BY OneCall, CallOf DEF CallNames
<1> HIDE DEF a
<1>2. \A x \in Names(a), y \in Names(LogoutCalls) : Follows(x, y)
  BY <1>1, LogoutList DEF Follows, Alone, Talk, Sets
<1>3. a \o LogoutCalls \in Seq(Calls) /\ Orderly(a \o LogoutCalls)
      /\ Names(a \o LogoutCalls) = Names(a) \cup Names(LogoutCalls)
  BY <1>1, <1>2, LogoutList, OrderlyConcat, CallsConcat, ConcatProperties
<1> QED
  BY <1>1, <1>3, LogoutList DEF a

LEMMA CallsOfLists ==
  ASSUME NEW a \in Seq(Calls), NEW b \in Seq(Calls), NEW c \in Seq(Calls)
  PROVE  (a \o b) \o c = a \o (b \o c)
BY ConcatAssociative

LEMMA DiscoveryList ==
  /\ DiscoveryCalls \in Seq(Calls) /\ Orderly(DiscoveryCalls)
  /\ Names(DiscoveryCalls) = {"exchange", "query", "DeactivateAllConnections", "GetConnection",
                              "ReleaseSession"} \cup Sets
<1> DEFINE a == <<Call("exchange")>>
           q == <<Call("query")>>
           c == q \o LogoutCalls
           b == a \o NegotiateCalls
<1>1. /\ a \in Seq(Calls) /\ Orderly(a) /\ Names(a) = {"exchange"}
      /\ q \in Seq(Calls)
  BY OneCall, CallOf DEF CallNames
<1>2. /\ c \in Seq(Calls) /\ Orderly(c)
      /\ Names(c) = {"query", "DeactivateAllConnections", "GetConnection", "ReleaseSession"}
  BY QueryList
<1>3. DiscoveryCalls = (b \o q) \o LogoutCalls
  BY DEF DiscoveryCalls
<1> HIDE DEF a, q
<1>4. /\ b \in Seq(Calls) /\ Names(b) = {"exchange"} \cup Sets
  BY <1>1, NegotiateList, CallsConcat, ConcatProperties
<1>5. \A x \in Names(a), y \in Names(NegotiateCalls) : Follows(x, y)
  BY <1>1, NegotiateList DEF Follows, Alone, Talk, Sets
<1>6. Orderly(b)
  BY <1>1, <1>5, NegotiateList, OrderlyConcat
<1> HIDE DEF b
<1>7. DiscoveryCalls = b \o c
  <2>1. b \in Seq(Calls) /\ q \in Seq(Calls) /\ LogoutCalls \in Seq(Calls)
    BY <1>1, <1>4, LogoutList
  <2>2. (b \o q) \o LogoutCalls = b \o (q \o LogoutCalls)
    BY <2>1, CallsOfLists
  <2> QED
    BY <1>3, <2>2
<1> HIDE DEF c
<1>8. \A x \in Names(b), y \in Names(c) : Follows(x, y)
  BY <1>2, <1>4 DEF Follows, Alone, Talk, Sets
<1>9. b \o c \in Seq(Calls) /\ Orderly(b \o c) /\ Names(b \o c) = Names(b) \cup Names(c)
  BY <1>2, <1>4, <1>6, <1>8, OrderlyConcat, CallsConcat, ConcatProperties
<1> QED
  BY <1>2, <1>4, <1>7, <1>9

\* Discovery's list after a refusal.
LEMMA RefusedList ==
  ASSUME NEW t
  PROVE  /\ Refused(t) \in Seq(Calls) /\ Orderly(Refused(t))
         /\ "ReleaseSession" \in Names(Refused(t))
         /\ Names(Refused(t)) \subseteq {"ReleaseSession", "query", "DeactivateAllConnections",
                                         "GetConnection"}
<1> DEFINE a == <<Call("ReleaseSession")>>
           b == IF t = Main THEN <<>> ELSE <<Call("query")>> \o LogoutCalls
<1>1. a \in Seq(Calls) /\ Orderly(a) /\ Names(a) = {"ReleaseSession"}
  BY OneCall, CallOf DEF CallNames
<1>2. /\ b \in Seq(Calls) /\ Orderly(b)
      /\ Names(b) \subseteq {"query", "DeactivateAllConnections", "GetConnection", "ReleaseSession"}
  BY QueryList, OrderlyNone
<1>3. Refused(t) = a \o b
  BY DEF Refused
<1> HIDE DEF a, b
<1>4. \A x \in Names(a), y \in Names(b) : Follows(x, y)
  BY <1>1, <1>2 DEF Follows, Alone, Talk, Sets
<1>5. a \o b \in Seq(Calls) /\ Orderly(a \o b) /\ Names(a \o b) = Names(a) \cup Names(b)
  BY <1>1, <1>2, <1>4, OrderlyConcat, CallsConcat, ConcatProperties
<1> QED
  BY <1>1, <1>2, <1>3, <1>5

LEMMA ReadLists ==
  /\ Orderly(SessionReads) /\ Names(SessionReads) = {"GetSessionParameter"}
  /\ \A key \in SessionKeys : Get(key) \in CallsIn(SessionReads)
  /\ Orderly(ConnectionReads) /\ Names(ConnectionReads) = {"GetConnectionParameter"}
  /\ \A key \in ConnectionKeys : Get(key) \in CallsIn(ConnectionReads)
<1>1. /\ Get("MaxBurstLength").name = "GetSessionParameter"
      /\ Get("FirstBurstLength").name = "GetSessionParameter"
      /\ Get("MaxRecvDataSegmentLength").name = "GetConnectionParameter"
  BY CallName DEF SessionKeys, ConnectionKeys
<1>2. /\ CallsIn(SessionReads) = {Get("MaxBurstLength"), Get("FirstBurstLength")}
      /\ Names(SessionReads) = {"GetSessionParameter"}
  BY <1>1, CallsOfTwo DEF SessionReads
<1>3. Orderly(SessionReads)
  BY <1>1 DEF SessionReads, Orderly, Follows, Alone, Talk, Sets
<1>4. /\ CallsIn(ConnectionReads) = {Get("MaxRecvDataSegmentLength")} /\ Orderly(ConnectionReads)
      /\ Names(ConnectionReads) = {"GetConnectionParameter"}
  BY <1>1, OrderlyOne DEF ConnectionReads
<1> QED
  BY <1>2, <1>3, <1>4 DEF SessionKeys, ConnectionKeys

LEMMA AddConnectionList ==
  LET rest == Tail(AddConnectionCalls)
  IN  Orderly(rest) /\ Names(rest) = {"GetTargetIQNForSessionId", "ReleaseConnection"}
<1> DEFINE a == Call("GetTargetIQNForSessionId")
           b == Call("ReleaseConnection")
<1>1. Tail(AddConnectionCalls) = <<a, b>> /\ a.name = "GetTargetIQNForSessionId"
      /\ b.name = "ReleaseConnection"
  BY CallName DEF AddConnectionCalls
<1> HIDE DEF a, b
<1>2. Names(<<a, b>>) = {"GetTargetIQNForSessionId", "ReleaseConnection"}
  BY <1>1, CallsOfTwo
<1>3. Orderly(<<a, b>>)
  BY <1>1 DEF Orderly, Follows, Alone, Talk, Sets
<1> QED
  BY <1>1, <1>2, <1>3

LEMMA TimeoutList ==
  /\ Orderly(TimeoutCalls)
  /\ Names(TimeoutCalls) = {"GetTargetIQNForSessionId", "GetPortalForConnectionId",
                            "ReleaseConnection", "timeoutCallback"}
<1> DEFINE a == Call("GetTargetIQNForSessionId")
           b == Call("GetPortalForConnectionId")
           c == Call("ReleaseConnection")
           d == Call("timeoutCallback")
<1>1. /\ TimeoutCalls = <<a, b, c, d>>
      /\ a.name = "GetTargetIQNForSessionId" /\ b.name = "GetPortalForConnectionId"
      /\ c.name = "ReleaseConnection" /\ d.name = "timeoutCallback"
  BY CallName DEF TimeoutCalls
<1> HIDE DEF a, b, c, d
<1>2. Names(TimeoutCalls) = {"GetTargetIQNForSessionId", "GetPortalForConnectionId",
                             "ReleaseConnection", "timeoutCallback"}
  BY <1>1, CallsOfFour
<1>3. Orderly(TimeoutCalls)
  BY <1>1 DEF Orderly, Follows, Alone, Talk, Sets
<1> QED
  BY <1>2, <1>3

-----------------------------------------------------------------------------
(* What the operations on the table change, slot by slot.                  *)

LEMMA SameSlot ==
  ASSUME NEW s \in Slots, sessionList'[s] = sessionList[s]
  PROVE  /\ Exists(s)' <=> Exists(s)
         /\ Gen(s)' = Gen(s) /\ Connections(s)' = Connections(s) /\ Active(s)' = Active(s)
<1>1. Exists(s)' <=> Exists(s)
  BY DEF Exists
<1>2. Gen(s)' = Gen(s)
  BY <1>1 DEF Gen
<1>3. Connections(s)' = Connections(s)
  BY <1>1 DEF Connections
<1> QED
  BY <1>1, <1>2, <1>3 DEF Active

LEMMA SameSlots ==
  ASSUME sessionList' = sessionList, NEW s
  PROVE  /\ Exists(s)' <=> Exists(s)
         /\ Gen(s)' = Gen(s) /\ Connections(s)' = Connections(s) /\ Active(s)' = Active(s)
BY DEF Exists, Gen, Connections, Active

LEMMA NoSession ==
  ASSUME NEW s, ~Exists(s)
  PROVE  Gen(s) = 0 /\ Connections(s) = {} /\ Active(s) = {}
BY DEF Gen, Connections, Active

LEMMA NoSessionAfter ==
  ASSUME NEW s, ~Exists(s)'
  PROVE  Gen(s)' = 0 /\ Connections(s)' = {} /\ Active(s)' = {}
BY DEF Gen, Connections, Active

\* The session keeps all but its connections.
LEMMA OtherConnections ==
  ASSUME TableInv, NEW s, Exists(s), NEW f \in [Cids -> Connection \cup {None}],
         sessionList'[s] = [sessionList[s] EXCEPT !.connections = f]
  PROVE  /\ Exists(s)' /\ Gen(s)' = Gen(s)
         /\ sessionList'[s].parameters = sessionList[s].parameters
         /\ sessionList'[s].connections = f
         /\ Connections(s)' = {c \in Cids : f[c] # None}
         /\ Active(s)' = {c \in Cids : f[c] # None /\ f[c].active}
<1>1. s \in Slots /\ sessionList[s] \in Session
  BY SessionOf
<1>2. /\ sessionList'[s].parameters = sessionList[s].parameters
      /\ sessionList'[s].connections = f /\ sessionList'[s].gen = sessionList[s].gen
      /\ sessionList'[s] \in Session
  BY <1>1 DEF Session
<1>3. Exists(s)'
  BY <1>1, <1>2, NoneIsNoRecord DEF Exists
<1>4. Gen(s)' = Gen(s)
  BY <1>2, <1>3 DEF Gen
<1>5. Connections(s)' = {c \in Cids : f[c] # None}
  BY <1>2, <1>3 DEF Connections
<1>6. Active(s)' = {c \in Cids : f[c] # None /\ f[c].active}
  BY <1>2, <1>5 DEF Active
<1> QED
  BY <1>2, <1>3, <1>4, <1>5, <1>6

LEMMA ConnectionsAre ==
  ASSUME TableInv, NEW s, Exists(s)
  PROVE  LET f == sessionList[s].connections
         IN  /\ f \in [Cids -> Connection \cup {None}]
             /\ Connections(s) = {c \in Cids : f[c] # None}
             /\ Active(s) = {c \in Cids : f[c] # None /\ f[c].active}
             /\ sessionList[s].gen \in 1 .. MaxCreated
<1>1. s \in Slots /\ sessionList[s] \in Session
  BY SessionOf
<1>2. Connections(s) = {c \in Cids : sessionList[s].connections[c] # None}
  BY DEF Connections
<1> QED
  BY <1>1, <1>2 DEF Session, Active

LEMMA CreateSessionEffect ==
  ASSUME TableInv, NEW iqn, NEW portal \in Portals, CreateSession(iqn, portal),
         NEW sid, sid = NewSid
  PROVE  /\ sid \in Slots /\ ~Exists(sid)
         /\ \A s \in Slots \ {sid} : sessionList'[s] = sessionList[s]
         /\ Exists(sid)' /\ Gen(sid)' = created + 1
         /\ Connections(sid)' = {0} /\ Active(sid)' = {}
         /\ targetList' = [targetList EXCEPT ![iqn] = sid] /\ created' = created + 1
<1> DEFINE c == NewConnection(portal)
           s2 == [gen |-> created + 1, parameters |-> Initial(SessionKeys),
                 connections |-> [cid \in Cids |-> IF cid = 0 THEN c ELSE None]]
<1>1. /\ sessionList' = [sessionList EXCEPT ![sid] = s2]
      /\ targetList' = [targetList EXCEPT ![iqn] = sid] /\ created' = created + 1
      /\ FreeSlots # {}
  BY DEF CreateSession
<1>2. sid \in FreeSlots
  <2>1. FreeSlots \subseteq Slots
    BY DEF FreeSlots
  <2> QED
    BY <1>1, <2>1, Ids, MinOfIds DEF NewSid
<1>3. sid \in Slots /\ ~Exists(sid)
  BY <1>2 DEF FreeSlots
<1>4. c \in Connection /\ c.active = FALSE /\ c # None
  BY NewConnectionType, NoneIsNoRecord DEF NewConnection
<1>5. created + 1 \in 1 .. MaxCreated
  BY Ids DEF CreateSession, TableInv
<1> HIDE DEF c
<1>6. s2 \in Session
  BY <1>4, <1>5, InitialType DEF Session, Keys
<1>7. s2.gen = created + 1 /\ s2.connections = [cid \in Cids |-> IF cid = 0 THEN c ELSE None]
  OBVIOUS
<1> HIDE DEF s2
<1>8. sessionList'[sid] = s2 /\ \A s \in Slots \ {sid} : sessionList'[s] = sessionList[s]
  BY <1>1, <1>3 DEF TableInv
<1>9. Exists(sid)' /\ Gen(sid)' = created + 1
  BY <1>3, <1>6, <1>7, <1>8, NoneIsNoRecord DEF Exists, Gen
<1>10. Connections(sid)' = {0}
  BY <1>4, <1>7, <1>8, <1>9, Ids DEF Connections
<1>11. Active(sid)' = {}
  BY <1>4, <1>7, <1>8, <1>10, Ids DEF Active
<1> QED
  BY <1>1, <1>3, <1>8, <1>9, <1>10, <1>11

LEMMA CreateConnectionEffect ==
  ASSUME TableInv, NEW sid, NEW portal \in Portals, CreateConnection(sid, portal),
         NEW cid, cid = NewCid(sid)
  PROVE  /\ Exists(sid) /\ cid \in Cids /\ cid \notin Connections(sid)
         /\ \A s \in Slots \ {sid} : sessionList'[s] = sessionList[s]
         /\ Exists(sid)' /\ Gen(sid)' = Gen(sid)
         /\ sessionList'[sid].parameters = sessionList[sid].parameters
         /\ Connections(sid)' = Connections(sid) \cup {cid} /\ Active(sid)' = Active(sid)
         /\ \A c \in Connections(sid) :
               sessionList'[sid].connections[c] = sessionList[sid].connections[c]
         /\ targetList' = targetList /\ created' = created
<1> DEFINE new == NewConnection(portal)
           old == sessionList[sid].connections
           f == [old EXCEPT ![cid] = new]
<1>1. /\ Exists(sid) /\ cid \in FreeConnections(sid)
      /\ sessionList' = [sessionList EXCEPT ![sid].connections[cid] = new]
      /\ targetList' = targetList /\ created' = created
  BY FirstOf DEF CreateConnection
<1>2. cid \in Cids /\ cid \notin Connections(sid)
  BY <1>1 DEF FreeConnections
<1>3. new \in Connection /\ new.active = FALSE /\ new # None
  BY NewConnectionType, NoneIsNoRecord DEF NewConnection
<1>4. sid \in Slots /\ sessionList[sid] \in Session
  BY <1>1, SessionOf
<1>5. old \in [Cids -> Connection \cup {None}]
  BY <1>4 DEF Session
<1>6. sessionList'[sid] = [sessionList[sid] EXCEPT !.connections = f]
      /\ \A s \in Slots \ {sid} : sessionList'[s] = sessionList[s]
  BY <1>1, <1>4 DEF TableInv
<1>7. /\ Connections(sid) = {c \in Cids : old[c] # None}
      /\ Active(sid) = {c \in Cids : old[c] # None /\ old[c].active}
  BY <1>1, ConnectionsAre
<1> HIDE DEF new, old
<1>8. /\ f \in [Cids -> Connection \cup {None}] /\ f[cid] = new
      /\ \A c \in Cids \ {cid} : f[c] = old[c]
  BY <1>2, <1>3, <1>5
<1> HIDE DEF f
<1>9. /\ Exists(sid)' /\ Gen(sid)' = Gen(sid)
      /\ sessionList'[sid].parameters = sessionList[sid].parameters
      /\ sessionList'[sid].connections = f
      /\ Connections(sid)' = {c \in Cids : f[c] # None}
      /\ Active(sid)' = {c \in Cids : f[c] # None /\ f[c].active}
  BY <1>1, <1>6, <1>8, OtherConnections
<1>10. Connections(sid)' = Connections(sid) \cup {cid}
  BY <1>2, <1>3, <1>7, <1>8, <1>9
<1>11. Active(sid)' = Active(sid)
  BY <1>2, <1>3, <1>7, <1>8, <1>9
<1>12. \A c \in Connections(sid) : sessionList'[sid].connections[c] = old[c]
  BY <1>2, <1>7, <1>8, <1>9
<1> QED
  BY <1>1, <1>2, <1>6, <1>9, <1>10, <1>11, <1>12 DEF old

LEMMA SetActiveEffect ==
  ASSUME TableInv, NEW sid, NEW cids, NEW active \in BOOLEAN, SetActive(sid, cids, active)
  PROVE  /\ \A s \in Slots \ {sid} : sessionList'[s] = sessionList[s]
         /\ \A s \in Slots : /\ Exists(s)' <=> Exists(s)
                             /\ Gen(s)' = Gen(s) /\ Connections(s)' = Connections(s)
                             /\ sessionList'[s].parameters = sessionList[s].parameters
                             /\ \A c \in Connections(s) :
                                  sessionList'[s].connections[c].parameters =
                                     sessionList[s].connections[c].parameters
         /\ ~active => Active(sid)' = Active(sid) \ cids
         /\ active => Active(sid)' = Active(sid) \cup (cids \cap Connections(sid))
         /\ targetList' = targetList /\ created' = created
<1>1. targetList' = targetList /\ created' = created
  BY DEF SetActive
<1>2. CASE ~Exists(sid)
  <2>1. sessionList' = sessionList
    BY <1>2 DEF SetActive
  <2>2. Active(sid) = {} /\ Connections(sid) = {} /\ Active(sid)' = {}
    BY <1>2, <2>1, NoSession, SameSlots
  <2> QED
    BY <1>1, <2>1, <2>2, SameSlots
<1>3. CASE Exists(sid)
  <2> DEFINE old == sessionList[sid].connections
             set == cids \cap Connections(sid)
             f == [c \in Cids |-> IF c \in set THEN [old[c] EXCEPT !.active = active]
                                  ELSE old[c]]
  <2>1. sid \in Slots /\ sessionList[sid] \in Session
    BY <1>3, SessionOf
  <2>2. sessionList'[sid] = [sessionList[sid] EXCEPT !.connections = f]
        /\ \A s \in Slots \ {sid} : sessionList'[s] = sessionList[s]
    BY <1>3, <2>1 DEF SetActive, TableInv
  <2>3. /\ old \in [Cids -> Connection \cup {None}]
        /\ Connections(sid) = {c \in Cids : old[c] # None}
        /\ Active(sid) = {c \in Cids : old[c] # None /\ old[c].active}
    BY <1>3, ConnectionsAre
  <2>4. \A c \in set : /\ c \in Cids /\ old[c] # None /\ f[c] \in Connection
                       /\ f[c].active = active /\ f[c].parameters = old[c].parameters
    BY <2>3 DEF Connection
  <2>5. \A c \in Cids \ set : f[c] = old[c]
    OBVIOUS
  <2>6. f \in [Cids -> Connection \cup {None}]
    BY <2>3, <2>4, <2>5
  <2> HIDE DEF f, old
  <2>7. /\ Exists(sid)' /\ Gen(sid)' = Gen(sid)
        /\ sessionList'[sid].parameters = sessionList[sid].parameters
        /\ sessionList'[sid].connections = f
        /\ Connections(sid)' = {c \in Cids : f[c] # None}
        /\ Active(sid)' = {c \in Cids : f[c] # None /\ f[c].active}
    BY <1>3, <2>2, <2>6, OtherConnections
  <2>8. \A c \in Cids : /\ f[c] # None <=> old[c] # None
                        /\ old[c] # None => f[c].parameters = old[c].parameters
                        /\ f[c].active = IF c \in set THEN active ELSE old[c].active
    BY <2>4, <2>5, NoneIsNoRecord
  <2>9. Connections(sid)' = Connections(sid)
    BY <2>3, <2>7, <2>8
  <2>10. ~active => Active(sid)' = Active(sid) \ cids
    BY <2>3, <2>7, <2>8
  <2>11. active => Active(sid)' = Active(sid) \cup (cids \cap Connections(sid))
    BY <2>3, <2>7, <2>8
  <2>12. \A c \in Connections(sid) : sessionList'[sid].connections[c].parameters = old[c].parameters
    BY <2>3, <2>7, <2>8
  <2>13. \A s \in Slots \ {sid} : /\ Exists(s)' <=> Exists(s)
                                  /\ Gen(s)' = Gen(s) /\ Connections(s)' = Connections(s)
    BY <2>2, SameSlot
  <2> QED
    BY <1>1, <1>3, <2>2, <2>7, <2>9, <2>10, <2>11, <2>12, <2>13 DEF old
<1> QED
  BY <1>2, <1>3

LEMMA SetSessionParameterEffect ==
  ASSUME TableInv, NEW sid, NEW value \in Value, value.key \in SessionKeys,
         SetSessionParameter(sid, value)
  PROVE  /\ \A s \in Slots \ {sid} : sessionList'[s] = sessionList[s]
         /\ \A s \in Slots : /\ Exists(s)' <=> Exists(s)
                             /\ Gen(s)' = Gen(s) /\ Connections(s)' = Connections(s)
                             /\ Active(s)' = Active(s)
                             /\ Exists(s) => sessionList'[s].connections = sessionList[s].connections
         /\ Exists(sid) => \A key \in SessionKeys :
               sessionList'[sid].parameters[key] =
                  IF key = value.key THEN value ELSE sessionList[sid].parameters[key]
         /\ targetList' = targetList /\ created' = created
<1>1. targetList' = targetList /\ created' = created
  BY DEF SetSessionParameter
<1>2. CASE ~Exists(sid)
  <2>1. sessionList' = sessionList
    BY <1>2 DEF SetSessionParameter
  <2> QED
    BY <1>1, <1>2, <2>1, SameSlots
<1>3. CASE Exists(sid)
  <2> DEFINE s2 == [sessionList[sid] EXCEPT !.parameters =
                       [sessionList[sid].parameters EXCEPT ![value.key] = value]]
  <2>1. sid \in Slots /\ sessionList[sid] \in Session
    BY <1>3, SessionOf
  <2>2. sessionList' = [sessionList EXCEPT ![sid] = s2]
    BY <1>3, <2>1 DEF SetSessionParameter, TableInv
  <2>3. /\ s2.gen = sessionList[sid].gen /\ s2.connections = sessionList[sid].connections
        /\ s2.parameters = [sessionList[sid].parameters EXCEPT ![value.key] = value]
        /\ s2 \in Session
    BY <2>1 DEF Session
  <2> HIDE DEF s2
  <2>4. sessionList'[sid] = s2 /\ \A s \in Slots \ {sid} : sessionList'[s] = sessionList[s]
    BY <2>1, <2>2 DEF TableInv
  <2>5. Exists(sid)'
    BY <2>1, <2>3, <2>4, NoneIsNoRecord DEF Exists
  <2>6. Gen(sid)' = Gen(sid) /\ Connections(sid)' = Connections(sid)
    BY <1>3, <2>3, <2>4, <2>5 DEF Gen, Connections
  <2>7. Active(sid)' = Active(sid)
    BY <2>3, <2>4, <2>6 DEF Active
  <2>8. \A key \in SessionKeys : sessionList'[sid].parameters[key] =
                  IF key = value.key THEN value ELSE sessionList[sid].parameters[key]
    BY <2>1, <2>3, <2>4 DEF Session
  <2>9. \A s \in Slots \ {sid} : /\ Exists(s)' <=> Exists(s)
                                 /\ Gen(s)' = Gen(s) /\ Connections(s)' = Connections(s)
                                 /\ Active(s)' = Active(s)
    BY <2>4, SameSlot
  <2> QED
    BY <1>1, <1>3, <2>3, <2>4, <2>5, <2>6, <2>7, <2>8, <2>9
<1> QED
  BY <1>2, <1>3

LEMMA SetConnectionParameterEffect ==
  ASSUME TableInv, NEW sid, NEW cid, NEW value \in Value, value.key \in ConnectionKeys,
         SetConnectionParameter(sid, cid, value)
  PROVE  /\ \A s \in Slots \ {sid} : sessionList'[s] = sessionList[s]
         /\ \A s \in Slots : /\ Exists(s)' <=> Exists(s)
                             /\ Gen(s)' = Gen(s) /\ Connections(s)' = Connections(s)
                             /\ Active(s)' = Active(s)
                             /\ sessionList'[s].parameters = sessionList[s].parameters
         /\ \A c \in Connections(sid), key \in ConnectionKeys :
               sessionList'[sid].connections[c].parameters[key] =
                  IF c = cid /\ key = value.key THEN value
                  ELSE sessionList[sid].connections[c].parameters[key]
         /\ targetList' = targetList /\ created' = created
<1>1. targetList' = targetList /\ created' = created
  BY DEF SetConnectionParameter
<1>2. CASE cid \notin Connections(sid)
  <2>1. sessionList' = sessionList
    BY <1>2 DEF SetConnectionParameter
  <2> QED
    BY <1>1, <1>2, <2>1, SameSlots
<1>3. CASE cid \in Connections(sid)
  <2> DEFINE old == sessionList[sid].connections
             new == [old[cid] EXCEPT !.parameters = [old[cid].parameters EXCEPT ![value.key] = value]]
             f == [old EXCEPT ![cid] = new]
  <2>1. Exists(sid) /\ cid \in Cids /\ old[cid] \in Connection
    BY <1>3, ConnectionOf
  <2>2. sid \in Slots /\ sessionList[sid] \in Session
    BY <2>1, SessionOf
  <2>3. /\ old \in [Cids -> Connection \cup {None}]
        /\ Connections(sid) = {c \in Cids : old[c] # None}
        /\ Active(sid) = {c \in Cids : old[c] # None /\ old[c].active}
    BY <2>1, ConnectionsAre
  <2>4. sessionList'[sid] = [sessionList[sid] EXCEPT !.connections = f]
        /\ \A s \in Slots \ {sid} : sessionList'[s] = sessionList[s]
    BY <1>3, <2>1, <2>2, <2>3 DEF SetConnectionParameter, TableInv
  <2>5. /\ new \in Connection /\ new # None /\ new.active = old[cid].active
        /\ \A key \in ConnectionKeys : new.parameters[key] =
              IF key = value.key THEN value ELSE old[cid].parameters[key]
    <3>1. new \in Connection /\ new.active = old[cid].active
          /\ new.parameters = [old[cid].parameters EXCEPT ![value.key] = value]
      BY <2>1 DEF Connection
    <3>2. old[cid].parameters \in [ConnectionKeys -> Value]
      BY <2>1 DEF Connection
    <3> HIDE DEF new, old
    <3> QED
      BY <3>1, <3>2, NoneIsNoRecord
  <2> HIDE DEF new, old
  <2>6. f \in [Cids -> Connection \cup {None}] /\ f[cid] = new
        /\ \A c \in Cids \ {cid} : f[c] = old[c]
    BY <2>1, <2>3, <2>5
  <2> HIDE DEF f
  <2>7. /\ Exists(sid)' /\ Gen(sid)' = Gen(sid)
        /\ sessionList'[sid].parameters = sessionList[sid].parameters
        /\ sessionList'[sid].connections = f
        /\ Connections(sid)' = {c \in Cids : f[c] # None}
        /\ Active(sid)' = {c \in Cids : f[c] # None /\ f[c].active}
    BY <2>1, <2>4, <2>6, OtherConnections
  <2>8. Connections(sid)' = Connections(sid) /\ Active(sid)' = Active(sid)
    BY <2>1, <2>3, <2>5, <2>6, <2>7, NoneIsNoRecord
  <2>9. ASSUME NEW c \in Connections(sid), NEW key \in ConnectionKeys
        PROVE  sessionList'[sid].connections[c].parameters[key] =
                  IF c = cid /\ key = value.key THEN value ELSE old[c].parameters[key]
    BY <2>3, <2>5, <2>6, <2>7
  <2>10. \A s \in Slots \ {sid} : /\ Exists(s)' <=> Exists(s)
                                  /\ Gen(s)' = Gen(s) /\ Connections(s)' = Connections(s)
                                  /\ Active(s)' = Active(s)
    BY <2>4, SameSlot
  <2> QED
    BY <1>1, <2>1, <2>4, <2>7, <2>8, <2>9, <2>10 DEF old
<1> QED
  BY <1>2, <1>3

-----------------------------------------------------------------------------
(* Names and numbers.                                                      *)

\* A name stands for a session that is there, no two for the same one; no session
\* has the number of another.
Sorted ==
  /\ \A iqn \in IQNs : targetList[iqn] # None => Exists(targetList[iqn])
  /\ \A a, b \in IQNs : a # b /\ targetList[a] # None => targetList[a] # targetList[b]
  /\ \A s \in Slots : Gen(s) <= created
  /\ \A s, r \in Slots : s # r /\ Exists(s) => Gen(s) # Gen(r)

\* Sessions go, and the names that stand for them.
Fades ==
  /\ created' = created
  /\ \A s \in Slots : Gen(s)' \in {Gen(s), 0} /\ (Exists(s)' => Exists(s))
  /\ \A iqn \in IQNs : /\ targetList'[iqn] \in {targetList[iqn], None}
                       /\ targetList'[iqn] # None => Exists(targetList[iqn])'

LEMMA ExistsGen ==
  ASSUME TableInv, NEW s
  PROVE  Gen(s) \in Nat /\ (Exists(s) <=> Gen(s) # 0) /\ (Exists(s) => s \in Slots)
<1>1. Exists(s) => s \in Slots /\ Gen(s) \in 1 .. MaxCreated
  BY SessionOf
<1>2. ~Exists(s) => Gen(s) = 0
  BY NoSession
<1> QED
  BY <1>1, <1>2

LEMMA ExistsGenAfter ==
  ASSUME TableInv', NEW s
  PROVE  Gen(s)' \in Nat /\ (Exists(s)' <=> Gen(s)' # 0) /\ (Exists(s)' => s \in Slots)
<1>1. Exists(s)' => s \in Slots /\ Gen(s)' \in 1 .. MaxCreated
  BY DEF TableInv, Exists, Gen, Session
<1>2. ~Exists(s)' => Gen(s)' = 0
  BY NoSessionAfter
<1> QED
  BY <1>1, <1>2

\* Without a change to the numbers and names.
LEMMA SameFades ==
  ASSUME Sorted, TableInv, targetList' = targetList, created' = created,
         \A s \in Slots : (Exists(s)' <=> Exists(s)) /\ Gen(s)' = Gen(s)
  PROVE  Fades
<1>1. ASSUME NEW iqn \in IQNs, targetList'[iqn] # None
      PROVE  Exists(targetList[iqn])'
  <2>1. PICK s \in Slots : s = targetList[iqn] /\ Exists(s)
    BY <1>1 DEF Sorted, Exists
  <2>2. Exists(s)' /\ targetList'[iqn] = s
    BY <2>1
  <2> QED
    BY <2>1, <2>2 DEF Exists
<1> QED
  BY <1>1 DEF Fades

LEMMA FadesSorted ==
  ASSUME Sorted, TableInv, TableInv', Fades
  PROVE  Sorted'
<1>1. \A iqn \in IQNs : targetList'[iqn] # None => targetList'[iqn] = targetList[iqn]
                                                   /\ Exists(targetList[iqn])'
  BY DEF Fades
<1>2. \A a, b \in IQNs : a # b /\ targetList'[a] # None => targetList'[a] # targetList'[b]
  BY <1>1 DEF Sorted, Fades
<1>3. \A s \in Slots : /\ Gen(s) \in Nat /\ Gen(s)' \in {Gen(s), 0} /\ created \in Nat
                       /\ Exists(s)' => Gen(s)' # 0 /\ Exists(s)
  BY ExistsGen, ExistsGenAfter DEF Fades, TableInv
<1>4. \A s \in Slots : Gen(s)' <= created'
  BY <1>3 DEF Sorted, Fades
<1>5. \A s, r \in Slots : s # r /\ Exists(s)' => Gen(s)' # Gen(r)'
  BY <1>3 DEF Sorted
<1> QED
  BY <1>1, <1>2, <1>4, <1>5 DEF Sorted

LEMMA ReleaseSessionEffect ==
  ASSUME Sorted, TableInv, NEW sid, ReleaseSession(sid)
  PROVE  /\ \A s \in Slots \ {sid} : sessionList'[s] = sessionList[s]
         /\ ~Exists(sid)' /\ created' = created
         /\ Fades
<1>1. created' = created
  BY DEF ReleaseSession
<1>2. CASE ~Exists(sid)
  <2>1. sessionList' = sessionList /\ targetList' = targetList
    BY <1>2 DEF ReleaseSession
  <2>2. \A s : (Exists(s)' <=> Exists(s)) /\ Gen(s)' = Gen(s)
    BY <2>1, SameSlots
  <2> QED
    BY <1>1, <1>2, <2>1, <2>2, SameFades
<1>3. CASE Exists(sid)
  <2>1. sid \in Slots /\ sessionList' = [sessionList EXCEPT ![sid] = None]
    BY <1>3, SessionOf DEF ReleaseSession
  <2>2. sessionList'[sid] = None /\ \A s \in Slots \ {sid} : sessionList'[s] = sessionList[s]
    BY <2>1 DEF TableInv
  <2>3. ~Exists(sid)' /\ Gen(sid)' = 0
    BY <2>2, NoSessionAfter DEF Exists
  <2>4. \A s \in Slots \ {sid} : (Exists(s)' <=> Exists(s)) /\ Gen(s)' = Gen(s)
    BY <2>2, SameSlot
  <2>5. \A s \in Slots : Gen(s)' \in {Gen(s), 0} /\ (Exists(s)' => Exists(s))
    BY <2>3, <2>4
  <2>6. ASSUME NEW iqn \in IQNs
        PROVE  /\ targetList'[iqn] \in {targetList[iqn], None}
               /\ targetList'[iqn] # None => Exists(targetList[iqn])'
    <3>1. CASE {a \in IQNs : targetList[a] = sid} = {}
      <4>1. targetList' = targetList /\ targetList[iqn] # sid
        BY <1>3, <3>1 DEF ReleaseSession
      <4>2. targetList[iqn] # None => Exists(targetList[iqn])
        BY DEF Sorted
      <4> QED
        BY <2>2, <4>1, <4>2 DEF Exists
    <3>2. CASE {a \in IQNs : targetList[a] = sid} # {}
      <4>1. PICK a \in IQNs : targetList[a] = sid /\ targetList' = [targetList EXCEPT ![a] = None]
        BY <1>3, <3>2 DEF ReleaseSession
      <4>2. targetList'[a] = None /\ \A b \in IQNs \ {a} : targetList'[b] = targetList[b]
        BY <4>1 DEF TableInv
      <4>3. CASE iqn = a
        BY <4>2, <4>3
      <4>4. CASE iqn # a
        <5>1. targetList'[iqn] = targetList[iqn]
          BY <4>2, <4>4
        <5>2. targetList[iqn] # None => Exists(targetList[iqn]) /\ targetList[iqn] # sid
          BY <4>1, <4>4 DEF Sorted
        <5> QED
          BY <2>2, <5>1, <5>2 DEF Exists
      <4> QED
        BY <4>3, <4>4
    <3> QED
      BY <3>1, <3>2
  <2>7. Fades
    BY <1>1, <2>5, <2>6 DEF Fades
  <2> QED
    BY <1>1, <2>2, <2>3, <2>7
<1> QED
  BY <1>2, <1>3

LEMMA OneConnection ==
  ASSUME NEW sid
  PROVE  /\ Cardinality(Connections(sid)) = 1 => \E c \in Cids : Connections(sid) = {c}
         /\ (\E c : Connections(sid) = {c}) => Cardinality(Connections(sid)) = 1
<1>1. Connections(sid) \subseteq Cids /\ IsFiniteSet(Cids)
  BY FirstOf, FS_Interval, UserClientConstants DEF Cids
<1>2. IsFiniteSet(Connections(sid))
  BY <1>1, FS_Subset
<1>3. Cardinality(Connections(sid)) = 1 => \E c : Connections(sid) = {c}
  BY <1>2, FS_Singleton
<1> QED
  BY <1>1, <1>3, FS_Singleton

LEMMA ReleaseConnectionEffect ==
  ASSUME Sorted, TableInv, NEW sid, NEW cid, ReleaseConnection(sid, cid)
  PROVE  /\ \A s \in Slots \ {sid} : sessionList'[s] = sessionList[s]
         /\ Cardinality(Connections(sid)) = 1 => ~Exists(sid)'
         /\ Cardinality(Connections(sid)) # 1 =>
              /\ Exists(sid)' <=> Exists(sid)
              /\ Exists(sid) =>
                   /\ Gen(sid)' = Gen(sid)
                   /\ sessionList'[sid].parameters = sessionList[sid].parameters
                   /\ Connections(sid)' = Connections(sid) \ {cid}
                   /\ Active(sid)' = Active(sid) \ {cid}
                   /\ \A c \in Connections(sid) \ {cid} :
                        sessionList'[sid].connections[c] = sessionList[sid].connections[c]
         /\ created' = created /\ Fades
<1>1. CASE Cardinality(Connections(sid)) = 1
  BY <1>1, ReleaseSessionEffect DEF ReleaseConnection
<1>2. CASE Cardinality(Connections(sid)) # 1
  <2>1. /\ cid \in Connections(sid) => sessionList' = [sessionList EXCEPT ![sid].connections[cid] = None]
        /\ cid \notin Connections(sid) => sessionList' = sessionList
        /\ targetList' = targetList /\ created' = created
    BY <1>2 DEF ReleaseConnection
  <2>2. CASE cid \notin Connections(sid)
    <3>1. cid \notin Active(sid)
      BY <2>2 DEF Active
    <3>2. \A s : /\ Exists(s)' <=> Exists(s)
                 /\ Gen(s)' = Gen(s) /\ Connections(s)' = Connections(s) /\ Active(s)' = Active(s)
      BY <2>1, <2>2, SameSlots
    <3>3. Fades
      BY <2>1, <3>2, SameFades
    <3> QED
      BY <1>2, <2>1, <2>2, <3>1, <3>2, <3>3
  <2>3. CASE cid \in Connections(sid)
    <3> DEFINE old == sessionList[sid].connections
               f == [old EXCEPT ![cid] = None]
    <3>1. Exists(sid) /\ cid \in Cids
      BY <2>3, ConnectionOf
    <3>2. sid \in Slots /\ sessionList[sid] \in Session
      BY <3>1, SessionOf
    <3>3. /\ old \in [Cids -> Connection \cup {None}]
          /\ Connections(sid) = {c \in Cids : old[c] # None}
          /\ Active(sid) = {c \in Cids : old[c] # None /\ old[c].active}
      BY <3>1, ConnectionsAre
    <3>4. sessionList'[sid] = [sessionList[sid] EXCEPT !.connections = f]
          /\ \A s \in Slots \ {sid} : sessionList'[s] = sessionList[s]
      BY <2>1, <2>3, <3>2, <3>3 DEF TableInv
    <3> HIDE DEF old
    <3>5. f \in [Cids -> Connection \cup {None}] /\ f[cid] = None
          /\ \A c \in Cids \ {cid} : f[c] = old[c]
      BY <3>1, <3>3
    <3> HIDE DEF f
    <3>6. /\ Exists(sid)' /\ Gen(sid)' = Gen(sid)
          /\ sessionList'[sid].parameters = sessionList[sid].parameters
          /\ sessionList'[sid].connections = f
          /\ Connections(sid)' = {c \in Cids : f[c] # None}
          /\ Active(sid)' = {c \in Cids : f[c] # None /\ f[c].active}
      BY <3>1, <3>4, <3>5, OtherConnections
    <3>7. Connections(sid)' = Connections(sid) \ {cid} /\ Active(sid)' = Active(sid) \ {cid}
      BY <3>3, <3>5, <3>6
    <3>8. \A c \in Connections(sid) \ {cid} : sessionList'[sid].connections[c] = old[c]
      BY <3>3, <3>5, <3>6
    <3>9. \A s \in Slots \ {sid} : (Exists(s)' <=> Exists(s)) /\ Gen(s)' = Gen(s)
      BY <3>4, SameSlot
    <3>10. Fades
      BY <2>1, <3>1, <3>6, <3>9, SameFades
    <3> QED
      BY <1>2, <2>1, <3>1, <3>4, <3>6, <3>7, <3>8, <3>10 DEF old
  <2> QED
    BY <2>2, <2>3
<1> QED
  BY <1>1, <1>2

\* A new session takes a number that none had, and a name.
LEMMA CreateSessionSorted ==
  ASSUME Sorted, TableInv, TableInv', NEW iqn, NEW portal \in Portals,
         CreateSession(iqn, portal)
  PROVE  Sorted'
<1>1. PICK sid : sid = NewSid
  OBVIOUS
<1>2. /\ sid \in Slots /\ ~Exists(sid)
      /\ \A s \in Slots \ {sid} : sessionList'[s] = sessionList[s]
      /\ Exists(sid)' /\ Gen(sid)' = created + 1
      /\ targetList' = [targetList EXCEPT ![iqn] = sid] /\ created' = created + 1
  BY <1>1, CreateSessionEffect
<1>3. \A a \in IQNs : targetList'[a] = IF a = iqn THEN sid ELSE targetList[a]
  BY <1>2 DEF TableInv
<1>4. \A s \in Slots \ {sid} : (Exists(s)' <=> Exists(s)) /\ Gen(s)' = Gen(s)
  BY <1>2, SameSlot
<1>5. \A a \in IQNs : targetList[a] # None => Exists(targetList[a]) /\ targetList[a] # sid
                                               /\ targetList[a] \in Slots
  BY <1>2 DEF Sorted, Exists
<1>6. \A a \in IQNs : targetList'[a] # None => Exists(targetList[a])'
  BY <1>2, <1>3, <1>5 DEF Exists
<1>7. \A a, b \in IQNs : a # b /\ targetList'[a] # None => targetList'[a] # targetList'[b]
  <2>1. sid # None
    BY <1>2, NoneIsNothing DEF Slots
  <2> QED
    BY <1>3, <1>5, <2>1 DEF Sorted
<1>8. created \in Nat /\ \A s \in Slots : Gen(s) \in Nat /\ Gen(s)' \in Nat
  BY ExistsGen, ExistsGenAfter DEF TableInv
<1>9. \A s \in Slots : Gen(s)' <= created'
  BY <1>2, <1>4, <1>8 DEF Sorted
<1>10. \A s, r \in Slots : s # r /\ Exists(s)' => Gen(s)' # Gen(r)'
  BY <1>2, <1>4, <1>8 DEF Sorted
<1> QED
  BY <1>6, <1>7, <1>9, <1>10 DEF Sorted

LEMMA CreateSessionFailsFades ==
  ASSUME Sorted, TableInv, NEW iqn, CreateSessionFails(iqn)
  PROVE  Fades /\ sessionList' = sessionList /\ created' = created
<1>1. /\ sessionList' = sessionList /\ created' = created
      /\ targetList' \in {targetList, [targetList EXCEPT ![iqn] = None]}
  BY DEF CreateSessionFails
<1>2. \A s : (Exists(s)' <=> Exists(s)) /\ Gen(s)' = Gen(s)
  BY <1>1, SameSlots
<1>3. \A a \in IQNs : targetList'[a] \in {targetList[a], None}
  BY <1>1 DEF TableInv
<1>4. ASSUME NEW a \in IQNs, targetList'[a] # None
      PROVE  Exists(targetList[a])'
  <2>1. targetList'[a] = targetList[a]
    BY <1>3, <1>4
  <2>2. Exists(targetList[a])
    BY <1>4, <2>1 DEF Sorted
  <2> QED
    BY <1>1, <2>1, <2>2 DEF Exists
<1> QED
  BY <1>1, <1>2, <1>3, <1>4 DEF Fades

\* While the daemon is there a lost connection is deactivated, and a message tells of it.
LEMMA LostWithDaemon ==
  ASSUME KernelInv, Sorted, client, notificationPort,
         NEW sid, NEW cid \in Connections(sid), HandleConnectionTimeout(sid, cid)
  PROVE  /\ \A s \in Slots \ {sid} : sessionList'[s] = sessionList[s]
         /\ \A s \in Slots : /\ Exists(s)' <=> Exists(s)
                             /\ Gen(s)' = Gen(s) /\ Connections(s)' = Connections(s)
                             /\ sessionList'[s].parameters = sessionList[s].parameters
                             /\ \A c \in Connections(s) :
                                  sessionList'[s].connections[c].parameters =
                                     sessionList[s].connections[c].parameters
                             /\ Active(s)' \subseteq Active(s)
         /\ targetList' = targetList /\ created' = created /\ Fades
         /\ Exists(sid) /\ messages' = Append(messages, [sid |-> sid, cid |-> cid, gen |-> Gen(sid)])
<1> DEFINE cids == IF Cardinality(Connections(sid)) > 1 THEN {cid} ELSE Cids
<1>1. TableInv /\ SetActive(sid, cids, FALSE)
  BY DEF HandleConnectionTimeout, KernelInv
<1> HIDE DEF cids
<1>2. /\ \A s \in Slots \ {sid} : sessionList'[s] = sessionList[s]
      /\ \A s \in Slots : /\ Exists(s)' <=> Exists(s)
                          /\ Gen(s)' = Gen(s) /\ Connections(s)' = Connections(s)
                          /\ sessionList'[s].parameters = sessionList[s].parameters
                          /\ \A c \in Connections(s) :
                               sessionList'[s].connections[c].parameters =
                                  sessionList[s].connections[c].parameters
      /\ Active(sid)' = Active(sid) \ cids
      /\ targetList' = targetList /\ created' = created
  BY <1>1, SetActiveEffect
<1>3. Fades
  BY <1>1, <1>2, SameFades
<1>4. \A s \in Slots \ {sid} : Active(s)' = Active(s)
  BY <1>2, SameSlot
<1>5. Exists(sid)
  BY <1>1, ConnectionOf
<1> QED
  BY <1>2, <1>3, <1>4, <1>5 DEF HandleConnectionTimeout, SendTimeoutMessage

-----------------------------------------------------------------------------
(* What each thread is at, and what it knows.                              *)

Reports == {"sessionReport", "connectionReport"}
ReportCalls == {"GetSessionIdForTargetIQN", "GetConnectionIdForPortalAddress",
                "GetSessionParameter", "GetConnectionParameter"}
Lists == {"sleep", "listTargets"}
ListCalls == {"GetSessionIds", "GetTargetIQNForSessionId", "GetConnectionIds"}

\* What holds of a thread that still has the call to make.
Meets(th, name) ==
  /\ name = "CreateSession" => th.op \in {"login", "wake", "discovery"}
  /\ name = "GetSessionIdForTargetIQN" => th.sid = None /\ th.cid = None /\ th.gen = 0
  /\ name \in Talk => th.gen # 0
  /\ name = "ActivateConnection" => LogsIn(th.op)
  /\ name = "GetSessionParameter" => th.op = "sessionReport"
  /\ name = "GetConnectionParameter" => th.op = "connectionReport"
  /\ name = "ReleaseConnection" => th.op = "timeout" \/ LogsIn(th.op)
  /\ th.op \in Reports => name \in ReportCalls
  /\ th.op \in Lists => name \in ListCalls

\* What holds of a thread whatever it has still to do.
Suits(t, th) ==
  /\ th.op \in Lists => th.gen = 0 /\ th.cid = None
  /\ th.op \in Reports => th.iqn \in Targets
  /\ th.op = "discovery" => t = Discovery /\ th.iqn = DiscoveryIQN
  /\ th.asOf <= created

Proper(t, th) ==
  /\ Orderly(th.todo)
  /\ \A name \in Names(th.todo) : Meets(th, name)
  /\ th.op = "none" => th = Blank
  /\ Suits(t, th)

ShapeInv == \A t \in Threads : Proper(t, thread[t])

\* A daemon that has not started has no threads, and every session is older than it.
DaemonState ==
  /\ client <=> daemon # "down"
  /\ notificationPort <=> daemon = "up"
  /\ daemon # "up" => (\A t \in Threads : thread[t] = Blank) /\ atStart = created

\* The number that x knows stands for the session it was found for; the session, if
\* it is still there, has that number.
Known(x) == Exists(x.sid) => Gen(x.sid) = x.gen
Placed(x) == x.gen <= created /\ \A s \in Slots : Exists(s) /\ Gen(s) = x.gen => x.sid = s

PlacedInv ==
  /\ \A t \in Threads : Placed(thread[t])
  /\ \A i \in 1 .. Len(messages) : Placed(messages[i])

KnownInv ==
  ~reused => /\ \A t \in Threads : thread[t].op # "sleep" => Known(thread[t])
             /\ \A i \in 1 .. Len(messages) : Known(messages[i])

Base == ShapeInv /\ DaemonState /\ Sorted /\ PlacedInv /\ KnownInv

\* How a thread comes to know of a session.
Sound(th, new) ==
  \/ new.gen = Gen(new.sid)
  \/ new.sid = th.sid /\ new.gen = th.gen /\ (th.op = "sleep" => new.op = "sleep")
  \/ new.op = "sleep" /\ new.gen = 0

LEMMA NoNumber == ~Exists(None) /\ Gen(None) = 0
<1>1. ~Exists(None)
  BY NoneIsNothing DEF Exists, Slots
<1> QED
  BY <1>1 DEF Gen

LEMMA FadesKnown ==
  ASSUME TableInv, TableInv', Fades, NEW x
  PROVE  /\ Placed(x) => x.gen <= created' /\ \A s \in Slots : Exists(s)' /\ Gen(s)' = x.gen => x.sid = s
         /\ Known(x) => (\A s \in Slots : s = x.sid /\ Exists(s)' => Gen(s)' = x.gen)
<1>1. /\ created' = created
      /\ \A s \in Slots : Exists(s)' => Exists(s) /\ Gen(s)' = Gen(s)
  BY ExistsGenAfter DEF Fades
<1> QED
  BY <1>1 DEF Placed, Known

LEMMA SoundKnown ==
  ASSUME Inv, Base, NEW t \in Threads, NEW new, Sound(thread[t], new)
  PROVE  /\ Placed(new)
         /\ ~reused /\ new.op # "sleep" => Known(new)
<1>1. TableInv /\ Placed(thread[t]) /\ (~reused /\ thread[t].op # "sleep" => Known(thread[t]))
  BY DEF Inv, KernelInv, Base, PlacedInv, KnownInv
<1>2. CASE new.gen = Gen(new.sid)
  <2>1. new.gen \in Nat /\ created \in Nat /\ (Exists(new.sid) <=> new.gen # 0)
        /\ (Exists(new.sid) => new.sid \in Slots)
    BY <1>1, <1>2, ExistsGen DEF TableInv
  <2>2. new.gen <= created
    BY <2>1, <1>2 DEF Base, Sorted
  <2>3. ASSUME NEW s \in Slots, Exists(s), Gen(s) = new.gen
        PROVE  new.sid = s
    <3>1. Gen(s) # 0
      BY <1>1, <2>3, ExistsGen
    <3> QED
      BY <1>2, <2>1, <2>3, <3>1 DEF Base, Sorted
  <2> QED
    BY <1>2, <2>2, <2>3 DEF Placed, Known
<1>3. CASE new.sid = thread[t].sid /\ new.gen = thread[t].gen
           /\ (thread[t].op = "sleep" => new.op = "sleep")
  BY <1>1, <1>3 DEF Placed, Known
<1>4. CASE new.op = "sleep" /\ new.gen = 0
  <2>1. \A s \in Slots : Exists(s) => Gen(s) # 0
    BY <1>1, ExistsGen
  <2> QED
    BY <1>1, <1>4, <2>1 DEF Placed, TableInv
<1> QED
  BY <1>2, <1>3, <1>4 DEF Sound

\* A message that the kernel sends.
Told(s) == messages' = messages
  \/ \E cid : messages' = Append(messages, [sid |-> s, cid |-> cid, gen |-> Gen(s)])

LEMMA MessagesKnown ==
  ASSUME Inv, Base, NEW s, Exists(s), Told(s), NEW i \in 1 .. Len(messages')
  PROVE  Placed(messages'[i]) /\ (~reused => Known(messages'[i]))
<1>1. messages \in Seq(Message) /\ TableInv
  BY DEF Inv, KernelInv
<1>2. CASE messages' = messages
  BY <1>2 DEF Base, PlacedInv, KnownInv
<1>3. CASE \E cid : messages' = Append(messages, [sid |-> s, cid |-> cid, gen |-> Gen(s)])
  <2>1. PICK cid : messages' = Append(messages, [sid |-> s, cid |-> cid, gen |-> Gen(s)])
    BY <1>3
  <2> DEFINE m == [sid |-> s, cid |-> cid, gen |-> Gen(s)]
  <2>2. m.sid = s /\ m.gen = Gen(s)
    OBVIOUS
  <2> HIDE DEF m
  <2>3. Len(messages') = Len(messages) + 1 /\ messages'[Len(messages) + 1] = m
        /\ \A j \in 1 .. Len(messages) : messages'[j] = messages[j]
    BY <1>1, <2>1 DEF m
  <2>4. s \in Slots /\ Gen(s) # 0 /\ created \in Nat
    BY <1>1, ExistsGen DEF TableInv
  <2>5. Placed(m) /\ Known(m)
    BY <2>2, <2>4 DEF Placed, Known, Base, Sorted
  <2>6. i \in 1 .. Len(messages) \/ i = Len(messages) + 1
    BY <1>1, <2>3
  <2> QED
    BY <2>3, <2>5, <2>6 DEF Base, PlacedInv, KnownInv
<1> QED
  BY <1>2, <1>3 DEF Told

\* A step of one thread in which no session is created.
LEMMA StepBase ==
  ASSUME Inv, Inv', Base, daemon = "up", daemon' = daemon, UNCHANGED <<client, notificationPort>>,
         Fades, reused' = reused,
         \A i \in 1 .. Len(messages') :
            Placed(messages'[i]) /\ (~reused => Known(messages'[i])),
         NEW t \in Threads, NEW new, thread' = [thread EXCEPT ![t] = new],
         Proper(t, new), Placed(new), ~reused /\ new.op # "sleep" => Known(new)
  PROVE  Base'
<1>1. TableInv /\ TableInv' /\ thread \in [Threads -> Thread] /\ created' = created
  BY DEF Inv, KernelInv, ThreadsInv, Fades
<1>2. thread'[t] = new /\ \A other \in Threads \ {t} : thread'[other] = thread[other]
  BY <1>1
<1>3. ShapeInv'
  BY <1>1, <1>2 DEF Base, ShapeInv, Proper, Suits
<1>4. DaemonState'
  BY DEF Base, DaemonState
<1>5. Sorted'
  BY <1>1, FadesSorted DEF Base
<1>6. \A other \in Threads : Placed(thread'[other])
                             /\ (~reused /\ thread'[other].op # "sleep" => Known(thread'[other]))
  BY <1>2 DEF Base, PlacedInv, KnownInv
<1>7. PlacedInv'
  BY <1>1, <1>6, FadesKnown DEF PlacedInv, Placed
<1>8. KnownInv'
  <2>1. ASSUME NEW x, Known(x), Exists(x.sid)'
        PROVE  Gen(x.sid)' = x.gen
    <3>1. x.sid \in Slots
      BY <2>1 DEF Exists
    <3> QED
      BY <1>1, <2>1, <3>1, FadesKnown
  <2> QED
    BY <1>6, <2>1 DEF KnownInv, Known
<1> QED
  BY <1>3, <1>4, <1>5, <1>7, <1>8 DEF Base

LEMMA ThreadBase ==
  ASSUME Inv, Inv', Base, daemon = "up", daemon' = daemon, UNCHANGED <<client, notificationPort>>,
         Fades, reused' = reused, messages' = messages \/ \E s : Exists(s) /\ Told(s),
         NEW t \in Threads, NEW new, thread' = [thread EXCEPT ![t] = new],
         Proper(t, new), Sound(thread[t], new)
  PROVE  Base'
<1>1. ASSUME NEW i \in 1 .. Len(messages')
      PROVE  Placed(messages'[i]) /\ (~reused => Known(messages'[i]))
  BY <1>1, MessagesKnown DEF Base, PlacedInv, KnownInv
<1>2. Placed(new) /\ (~reused /\ new.op # "sleep" => Known(new))
  BY SoundKnown
<1> QED
  BY <1>1, <1>2, StepBase

-----------------------------------------------------------------------------
(* A thread that makes a call.                                             *)

\* What is known when the call is made.
LEMMA AtKnows ==
  ASSUME Inv, Base, NEW t \in Threads, NEW name, At(t, name)
  PROVE  /\ daemon = "up" /\ client /\ notificationPort
         /\ thread[t].op # "none" /\ thread[t] \in Thread
         /\ thread[t].todo # <<>> /\ thread[t].todo \in Seq(Calls)
         /\ Head(thread[t].todo).name = name /\ Head(thread[t].todo) \in Calls
         /\ Meets(thread[t], name) /\ Suits(t, thread[t])
         /\ Ready(thread[t], name)
         /\ name \in Names(thread[t].todo)
<1>1. /\ thread[t].todo # <<>> /\ thread[t].todo \in Seq(Calls)
      /\ Head(thread[t].todo) \in Calls /\ Head(thread[t].todo).name = name
      /\ thread[t] \in Thread /\ Ready(thread[t], name)
  BY AtReady DEF Inv
<1>2. Proper(t, thread[t])
  BY DEF Base, ShapeInv
<1>3. name \in Names(thread[t].todo)
  BY <1>1, <1>2, OrderlyTail DEF Proper
<1>4. thread[t] # Blank
  BY <1>1 DEF Blank
<1>5. daemon = "up"
  BY <1>4 DEF Base, DaemonState
<1> QED
  BY <1>1, <1>2, <1>3, <1>4, <1>5 DEF Proper, Base, DaemonState

\* What is known of the calls that are left.
LEMMA RestKnows ==
  ASSUME Inv, Base, NEW t \in Threads, NEW name, At(t, name)
  PROVE  /\ Orderly(Rest(t)) /\ Rest(t) \in Seq(Calls)
         /\ CallsIn(thread[t].todo) = {Head(thread[t].todo)} \cup CallsIn(Rest(t))
         /\ Names(thread[t].todo) = {name} \cup Names(Rest(t))
         /\ \A other \in Names(Rest(t)) : Follows(name, other) /\ Meets(thread[t], other)
         /\ name = "DeactivateAllConnections" => "ReleaseSession" \in Names(Rest(t))
<1>1. /\ thread[t].todo # <<>> /\ thread[t].todo \in Seq(Calls)
      /\ Head(thread[t].todo).name = name
  BY AtKnows
<1>2. Proper(t, thread[t])
  BY DEF Base, ShapeInv
<1> QED
  BY <1>1, <1>2, OrderlyTail DEF Proper, Rest

\* A call that comes alone is the only one.
LEMMA AloneIsAll ==
  ASSUME Inv, Base, NEW t \in Threads, NEW name \in Alone \cup {"ActivateConnection", "timeoutCallback"},
         At(t, name)
  PROVE  /\ Names(Rest(t)) = {} /\ Names(thread[t].todo) = {name}
         /\ CallsIn(thread[t].todo) = {Head(thread[t].todo)}
<1>1. \A other \in Names(Rest(t)) : Follows(name, other)
  BY RestKnows
<1>2. Names(Rest(t)) = {}
  BY <1>1 DEF Follows
<1>3. CallsIn(Rest(t)) = {}
  BY <1>2 DEF Names
<1>4. CallsIn(thread[t].todo) = {Head(thread[t].todo)} \cup CallsIn(Rest(t))
  BY RestKnows
<1>5. Names(thread[t].todo) = {name} \cup Names(Rest(t))
  BY RestKnows
<1> QED
  BY <1>2, <1>3, <1>4, <1>5

LEMMA TodoOf ==
  ASSUME NEW th \in Thread, NEW todo
  PROVE  LET new == [th EXCEPT !.todo = todo]
         IN  /\ new.todo = todo /\ new.op = th.op /\ new.iqn = th.iqn /\ new.portal = th.portal
             /\ new.sid = th.sid /\ new.cid = th.cid /\ new.gen = th.gen /\ new.asOf = th.asOf
             /\ new.listed = th.listed /\ new.ids = th.ids /\ new.report = th.report
BY DEF Thread

LEMMA ContinueGo ==
  ASSUME Inv, NEW t \in Threads, NEW todo, Continue(t, todo)
  PROVE  Go(t, todo, thread[t]) /\ thread[t] \in Thread
<1>1. thread \in [Threads -> Thread]
  BY DEF Inv, ThreadsInv
<1> QED
  BY <1>1 DEF Continue, Go

LEMMA GoProper ==
  ASSUME NEW t, NEW th \in Thread, NEW todo, th.op # "none", Suits(t, th), Orderly(todo),
         \A name \in Names(todo) : Meets(th, name)
  PROVE  Proper(t, [th EXCEPT !.todo = todo])
<1> DEFINE new == [th EXCEPT !.todo = todo]
<1>1. /\ new.todo = todo /\ new.op = th.op /\ new.iqn = th.iqn
      /\ new.sid = th.sid /\ new.cid = th.cid /\ new.gen = th.gen /\ new.asOf = th.asOf
  BY TodoOf
<1> HIDE DEF new
<1>2. Proper(t, new)
  BY <1>1 DEF Proper, Suits, Meets
<1> QED
  BY <1>2 DEF new

\* The thread goes on with these calls, and no session is created.
LEMMA GoBase ==
  ASSUME Inv, Inv', Base, NEW t \in Threads, NEW name, At(t, name),
         daemon' = daemon, UNCHANGED <<client, notificationPort>>,
         Fades, reused' = reused, messages' = messages \/ \E s : Exists(s) /\ Told(s),
         NEW th \in Thread, NEW todo, Go(t, todo, th), th.op # "none", Suits(t, th), Orderly(todo),
         \A other \in Names(todo) : Meets(th, other), Sound(thread[t], th)
  PROVE  Base'
<1> DEFINE new == [th EXCEPT !.todo = todo]
<1>1. daemon = "up"
  BY AtKnows
<1>2. Proper(t, new) /\ thread' = [thread EXCEPT ![t] = new]
  BY GoProper DEF Go
<1>3. new.sid = th.sid /\ new.gen = th.gen /\ new.op = th.op
  BY TodoOf
<1> HIDE DEF new
<1>4. Sound(thread[t], new)
  BY <1>3 DEF Sound
<1> QED
  BY <1>1, <1>2, <1>4, ThreadBase

LEMMA ContinueBase ==
  ASSUME Inv, Inv', Base, NEW t \in Threads, NEW name, At(t, name),
         daemon' = daemon, UNCHANGED <<client, notificationPort>>,
         Fades, reused' = reused, messages' = messages \/ \E s : Exists(s) /\ Told(s),
         NEW todo, Continue(t, todo), Orderly(todo),
         \A other \in Names(todo) : Meets(thread[t], other)
  PROVE  Base'
<1>1. Go(t, todo, thread[t]) /\ thread[t] \in Thread
  BY ContinueGo
<1>2. thread[t].op # "none" /\ Suits(t, thread[t])
  BY AtKnows
<1>3. Sound(thread[t], thread[t])
  BY DEF Sound
<1> QED
  BY <1>1, <1>2, <1>3, GoBase

LEMMA RestBase ==
  ASSUME Inv, Inv', Base, NEW t \in Threads, NEW name, At(t, name),
         daemon' = daemon, UNCHANGED <<client, notificationPort>>,
         Fades, reused' = reused, messages' = messages \/ \E s : Exists(s) /\ Told(s),
         Continue(t, Rest(t))
  PROVE  Base'
<1>1. Orderly(Rest(t)) /\ \A other \in Names(Rest(t)) : Meets(thread[t], other)
  BY RestKnows
<1> QED
  BY <1>1, ContinueBase

\* What stays when only the thread or the table changes.
LEMMA OnlyThreadFades ==
  ASSUME Inv, Base, OnlyThread
  PROVE  /\ daemon' = daemon /\ UNCHANGED <<client, notificationPort>> /\ Fades
         /\ reused' = reused /\ messages' = messages
         /\ UNCHANGED tableVars /\ atStart' = atStart /\ activeTargets' = activeTargets
<1>1. /\ daemon' = daemon /\ UNCHANGED <<client, notificationPort>>
      /\ reused' = reused /\ messages' = messages /\ atStart' = atStart
      /\ UNCHANGED tableVars /\ activeTargets' = activeTargets
  BY DEF OnlyThread, kernelVars, clientVars, daemonVars
<1>2. \A s : (Exists(s)' <=> Exists(s)) /\ Gen(s)' = Gen(s)
  BY <1>1, SameSlots DEF tableVars
<1>3. Fades
  BY <1>1, <1>2, SameFades DEF Inv, KernelInv, Base, tableVars
<1> QED
  BY <1>1, <1>3

LEMMA TableFades ==
  ASSUME Inv, Base, UNCHANGED tableVars
  PROVE  Fades
<1>1. \A s : (Exists(s)' <=> Exists(s)) /\ Gen(s)' = Gen(s)
  BY SameSlots DEF tableVars
<1> QED
  BY <1>1, SameFades DEF Inv, KernelInv, Base, tableVars

LEMMA OnlyTableKeeps ==
  ASSUME OnlyTable
  PROVE  /\ daemon' = daemon /\ UNCHANGED <<client, notificationPort>>
         /\ reused' = reused /\ messages' = messages /\ atStart' = atStart
         /\ activeTargets' = activeTargets
BY DEF OnlyTable, clientVars, daemonVars

\* A thread that was doing nothing, or ends what it was doing.
LEMMA BeginBase ==
  ASSUME Inv, Inv', Base, daemon = "up", daemon' = daemon, UNCHANGED <<client, notificationPort>>,
         UNCHANGED tableVars, reused' = reused, messages' = messages,
         NEW t \in Threads, NEW new, thread' = [thread EXCEPT ![t] = new],
         new.sid = None, new.cid = None, new.gen = 0, new.asOf = 0,
         \/ new = Blank
         \/ /\ new.todo \in {<<>>, <<Call("GetSessionIds")>>} /\ new.op \in {"sleep", "listTargets", "wake"}
            /\ new.op \in Lists \/ new.todo = <<>>
         \/ new.todo = LookUpTarget /\ new.op \notin Lists \cup {"none", "discovery"}
            /\ (new.op \in Reports => new.iqn \in Targets)
         \/ new.todo = <<>> /\ new.op \notin Lists \cup Reports \cup {"none", "discovery"}
         \/ new.todo = <<Call("CreateSession")>> /\ new.op = "discovery"
            /\ t = Discovery /\ new.iqn = DiscoveryIQN
  PROVE  Base'
<1>1. Fades
  BY TableFades
<1>2. Sound(thread[t], new)
  BY NoNumber DEF Sound
<1>3. created \in Nat
  BY UserClientConstants DEF Inv, KernelInv, TableInv
<1>4. /\ Orderly(<<>>) /\ Names(<<>>) = {}
      /\ \A name \in {"GetSessionIds", "GetSessionIdForTargetIQN", "CreateSession"} :
            Orderly(<<Call(name)>>) /\ Names(<<Call(name)>>) = {name}
  BY OrderlyNone, OneCall
<1>5. Proper(t, new)
  <2>1. CASE new = Blank
    BY <1>3, <1>4, <2>1 DEF Blank, Proper, Suits, Lists, Reports
  <2>2. CASE new.todo \in {<<>>, <<Call("GetSessionIds")>>} /\ new.op \in {"sleep", "listTargets", "wake"}
             /\ (new.op \in Lists \/ new.todo = <<>>)
    <3>1. CASE new.todo = <<>>
      BY <1>3, <1>4, <2>2, <3>1 DEF Proper, Suits, Lists, Reports
    <3>2. CASE new.todo = <<Call("GetSessionIds")>> /\ new.op \in Lists
      BY <1>3, <1>4, <2>2, <3>2 DEF Proper, Suits, Meets, Lists, ListCalls, Reports, Talk, Sets
    <3> QED
      BY <2>2, <3>1, <3>2
  <2>3. CASE new.todo = LookUpTarget /\ new.op \notin Lists \cup {"none", "discovery"}
             /\ (new.op \in Reports => new.iqn \in Targets)
    BY <1>3, <1>4, <2>3 DEF LookUpTarget, Proper, Suits, Meets, Lists, Reports, ReportCalls, Talk, Sets
  <2>4. CASE new.todo = <<>> /\ new.op \notin Lists \cup Reports \cup {"none", "discovery"}
    BY <1>3, <1>4, <2>4 DEF Proper, Suits
  <2>5. CASE new.todo = <<Call("CreateSession")>> /\ new.op = "discovery"
             /\ t = Discovery /\ new.iqn = DiscoveryIQN
    BY <1>3, <1>4, <2>5 DEF Proper, Suits, Meets, Lists, Reports, Talk, Sets
  <2> QED
    BY <2>1, <2>2, <2>3, <2>4, <2>5
<1> QED
  BY <1>1, <1>2, <1>5, ThreadBase

LEMMA CrashBase ==
  ASSUME Inv, Inv', Base, Crash
  PROVE  Base'
<1>1. /\ client' = FALSE /\ notificationPort' = FALSE /\ messages' = <<>>
      /\ UNCHANGED tableVars /\ daemon' = "down" /\ thread' = [t \in Threads |-> Blank]
      /\ atStart' = created /\ reused' = reused
  BY DEF Crash, ClientDied, kernelVars
<1>2. TableInv /\ TableInv' /\ Fades /\ created' = created /\ created \in Nat
  BY <1>1, TableFades, UserClientConstants DEF Inv, KernelInv, TableInv, tableVars
<1>3. Proper(Main, Blank) /\ Proper(Discovery, Blank)
  BY <1>2, OrderlyNone DEF Blank, Proper, Suits, Lists, Reports
<1>4. ShapeInv'
  BY <1>1, <1>2, <1>3, ThreadNames DEF ShapeInv, Proper, Suits
<1>5. DaemonState'
  BY <1>1, <1>2 DEF DaemonState
<1>6. Sorted'
  BY <1>2, FadesSorted DEF Base
<1>7. \A s \in Slots : Exists(s)' => Gen(s)' # 0
  BY <1>2, ExistsGenAfter
<1>8. Blank.gen = 0 /\ Blank.sid = None
  BY DEF Blank
<1>9. PlacedInv'
  BY <1>1, <1>2, <1>7, <1>8 DEF PlacedInv, Placed
<1>10. ~Exists(None)'
  BY NoneIsNothing DEF Exists, Slots
<1>11. KnownInv'
  BY <1>1, <1>8, <1>10 DEF KnownInv, Known
<1> QED
  BY <1>4, <1>5, <1>6, <1>9, <1>11 DEF Base

-----------------------------------------------------------------------------
(* The calls keep what the threads know.                                   *)

LEMMA LookUpSessionBase ==
  ASSUME Inv, Inv', Base, NEW t \in Threads, LookUpSession(t)
  PROVE  Base'
<1> DEFINE sid == GetSessionIdForTargetIQN(thread[t].iqn)
           th == [thread[t] EXCEPT !.sid = sid, !.gen = Gen(sid)]
           todo == IF sid = None THEN Missing(thread[t].op) ELSE Found[thread[t].op]
<1>1. At(t, "GetSessionIdForTargetIQN") /\ Go(t, todo, th) /\ OnlyThread
  BY DEF LookUpSession
<1>2. /\ thread[t] \in Thread /\ Suits(t, thread[t]) /\ thread[t].cid = None
      /\ thread[t].op \in DOMAIN Found /\ thread[t].iqn \in IQNs /\ thread[t].op # "none"
  BY <1>1, AtKnows DEF Ready, Meets
<1>3. sid \in Slots \cup {None} /\ Gen(sid) \in 0 .. MaxCreated
  BY <1>2, GenType DEF Inv, KernelInv, TableInv, GetSessionIdForTargetIQN
<1> HIDE DEF sid
<1>4. /\ th \in Thread /\ th.op = thread[t].op /\ th.iqn = thread[t].iqn
      /\ th.sid = sid /\ th.gen = Gen(sid) /\ th.cid = None /\ th.asOf = thread[t].asOf
  BY <1>2, <1>3 DEF Thread
<1> HIDE DEF th
<1>5. th.op \notin Lists \cup {"none", "discovery"}
  BY <1>2, <1>4 DEF Found, Lists
<1>6. Suits(t, th)
  BY <1>2, <1>4, <1>5 DEF Suits
<1>7. Sound(thread[t], th)
  BY <1>4 DEF Sound
<1>8. Orderly(todo) /\ \A name \in Names(todo) : Meets(th, name)
  <2>1. CASE sid = None
    <3>1. todo = <<>> \/ (todo = <<Call("CreateSession")>> /\ LogsIn(th.op))
      BY <1>4, <2>1 DEF Missing
    <3>2. CASE todo = <<>>
      BY <3>2, OrderlyNone
    <3>3. CASE todo = <<Call("CreateSession")>> /\ LogsIn(th.op)
      <4>1. Orderly(todo) /\ Names(todo) = {"CreateSession"}
        BY <3>3, OneCall
      <4> QED
        BY <3>3, <4>1 DEF Meets, LogsIn, Talk, Sets, Reports, Lists
    <3> QED
      BY <3>1, <3>2, <3>3
  <2>2. CASE sid # None
    <3>1. todo = Found[th.op] /\ th.op \in DOMAIN Found
      BY <1>2, <1>4, <2>2
    <3>2. CASE th.op \in {"login", "wake", "connectionReport", "isPortalActive", "logoutPortal"}
      <4>1. todo = <<Call("GetConnectionIdForPortalAddress")>>
        BY <3>1, <3>2 DEF Found, LookUpPortal
      <4>2. Orderly(todo) /\ Names(todo) = {"GetConnectionIdForPortalAddress"}
        BY <4>1, OneCall
      <4> QED
        BY <1>5, <4>2 DEF Meets, Talk, Sets, ReportCalls
    <3>3. CASE th.op = "logout"
      <4>1. todo = <<Call("unmount")>>
        BY <3>1, <3>3 DEF Found
      <4>2. Orderly(todo) /\ Names(todo) = {"unmount"}
        BY <4>1, OneCall
      <4> QED
        BY <1>5, <3>3, <4>2 DEF Meets, Talk, Sets, Reports
    <3>4. CASE th.op = "isTargetActive"
      BY <3>1, <3>4, OrderlyNone DEF Found
    <3>5. CASE th.op = "sessionReport"
      <4>1. todo = SessionReads
        BY <3>1, <3>5 DEF Found
      <4> QED
        BY <1>5, <3>5, <4>1, ReadLists DEF Meets, Talk, Sets, ReportCalls
    <3>6. CASE th.op = "logoutComplete"
      <4>1. todo = LogoutCalls
        BY <3>1, <3>6 DEF Found
      <4> QED
        BY <1>5, <3>6, <4>1, LogoutList DEF Meets, Talk, Sets, Reports
    <3> QED
      BY <3>1, <3>2, <3>3, <3>4, <3>5, <3>6 DEF Found
  <2> QED
    BY <2>1, <2>2
<1> HIDE DEF todo
<1>9. th.op # "none"
  BY <1>5
<1> QED
  BY <1>1, <1>4, <1>6, <1>7, <1>8, <1>9, OnlyThreadFades, GoBase

LEMMA LookUpConnectionBase ==
  ASSUME Inv, Inv', Base, NEW t \in Threads, LookUpConnection(t)
  PROVE  Base'
<1> DEFINE cid == GetConnectionIdForPortalAddress(thread[t].sid, thread[t].portal)
           th == [thread[t] EXCEPT !.cid = cid]
           todo == IF cid = None THEN PortalMissing(thread[t].op) ELSE PortalFound[thread[t].op]
<1>1. At(t, "GetConnectionIdForPortalAddress") /\ Go(t, todo, th) /\ OnlyThread
  BY DEF LookUpConnection
<1>2. /\ thread[t] \in Thread /\ Suits(t, thread[t])
      /\ thread[t].op \in DOMAIN PortalFound /\ thread[t].op # "none"
  BY <1>1, AtKnows DEF Ready
<1>3. cid \in Cids \cup {None}
  <2>1. {c \in Connections(thread[t].sid) :
            sessionList[thread[t].sid].connections[c].portal = thread[t].portal} \subseteq Cids
    BY FirstOf
  <2> QED
    BY <2>1, Ids, MinOfIds DEF GetConnectionIdForPortalAddress
<1> HIDE DEF cid
<1>4. /\ th \in Thread /\ th.op = thread[t].op /\ th.iqn = thread[t].iqn
      /\ th.sid = thread[t].sid /\ th.gen = thread[t].gen /\ th.asOf = thread[t].asOf
  BY <1>2, <1>3 DEF Thread
<1> HIDE DEF th
<1>5. th.op \notin Lists \cup {"none", "discovery"}
  BY <1>2, <1>4 DEF PortalFound, Lists
<1>6. Suits(t, th)
  BY <1>2, <1>4, <1>5 DEF Suits
<1>7. Sound(thread[t], th)
  BY <1>4 DEF Sound
<1>8. Orderly(todo) /\ \A name \in Names(todo) : Meets(th, name)
  <2>1. CASE cid = None
    <3>1. todo = <<>> \/ (todo = <<Call("CreateConnection")>> /\ LogsIn(th.op))
      BY <1>4, <2>1 DEF PortalMissing
    <3>2. CASE todo = <<>>
      BY <3>2, OrderlyNone
    <3>3. CASE todo = <<Call("CreateConnection")>> /\ LogsIn(th.op)
      <4>1. Orderly(todo) /\ Names(todo) = {"CreateConnection"}
        BY <3>3, OneCall
      <4> QED
        BY <3>3, <4>1 DEF Meets, LogsIn, Talk, Sets, Reports, Lists
    <3> QED
      BY <3>1, <3>2, <3>3
  <2>2. CASE cid # None
    <3>1. todo = PortalFound[th.op] /\ th.op \in DOMAIN PortalFound
      BY <1>2, <1>4, <2>2
    <3>2. CASE th.op = "logoutPortal"
      <4>1. todo = <<Call("GetConnectionIds")>>
        BY <3>1, <3>2 DEF PortalFound
      <4>2. Orderly(todo) /\ Names(todo) = {"GetConnectionIds"}
        BY <4>1, OneCall
      <4> QED
        BY <1>5, <3>2, <4>2 DEF Meets, Talk, Sets, Reports
    <3>3. CASE th.op \in {"login", "wake", "isPortalActive"}
      BY <3>1, <3>3, OrderlyNone DEF PortalFound
    <3>4. CASE th.op = "connectionReport"
      <4>1. todo = ConnectionReads
        BY <3>1, <3>4 DEF PortalFound
      <4> QED
        BY <1>5, <3>4, <4>1, ReadLists DEF Meets, Talk, Sets, ReportCalls
    <3> QED
      BY <3>1, <3>2, <3>3, <3>4 DEF PortalFound
  <2> QED
    BY <2>1, <2>2
<1> HIDE DEF todo
<1>9. th.op # "none"
  BY <1>5
<1> QED
  BY <1>1, <1>4, <1>6, <1>7, <1>8, <1>9, OnlyThreadFades, GoBase

\* A thread that created a session sets it up or asks it.
LEMMA CreatedList ==
  ASSUME NEW t, NEW th, th.op \in {"login", "wake", "discovery"}, th.gen # 0,
         th.op = "discovery" <=> t = Discovery, t \in Threads
  PROVE  LET todo == IF t = Main THEN LoginCalls ELSE DiscoveryCalls
         IN  /\ todo \in Seq(Calls) /\ Orderly(todo) /\ \A name \in Names(todo) : Meets(th, name)
             /\ "ActivateConnection" \in Names(todo) \/ "ReleaseSession" \in Names(todo)
<1>1. CASE t = Main
  <2>1. LogsIn(th.op)
    BY <1>1, ThreadNames DEF LogsIn
  <2> QED
    BY <1>1, <2>1, LoginList DEF Meets, Talk, Sets, Reports, Lists
<1>2. CASE t # Main
  BY <1>2, DiscoveryList DEF Meets, Talk, Sets, Reports, Lists
<1> QED
  BY <1>1, <1>2

\* Who creates a session, and for which name.
LEMMA CreatesFor ==
  ASSUME Inv, Base, NEW t \in Threads, At(t, "CreateSession")
  PROVE  /\ thread[t].op \in {"login", "wake", "discovery"} /\ thread[t].portal \in Portals
         /\ thread[t].op = "discovery" <=> t = Discovery
         /\ t = Discovery => thread[t].iqn = DiscoveryIQN
<1>1. /\ thread[t].op \in {"login", "wake", "discovery"} /\ thread[t].portal \in Portals
      /\ Suits(t, thread[t])
  BY AtKnows DEF Meets, Ready
<1>2. t = Discovery => thread[t].op = "discovery"
  BY <1>1, ThreadNames DEF Inv, ThreadsInv
<1> QED
  BY <1>1, <1>2 DEF Suits

LEMMA MessageOf ==
  ASSUME Inv
  PROVE  \A i \in 1 .. Len(messages) : messages[i] \in Message /\ messages[i].gen \in Nat
                                       /\ messages[i].gen # 0 /\ messages[i].sid \in Slots
<1>1. \A i \in 1 .. Len(messages) : messages[i] \in Message
  BY DEF Inv, KernelInv
<1> QED
  BY <1>1, Ids DEF Message

\* What a thread has after it created a session.
LEMMA CreateMade ==
  ASSUME Inv, Base, NEW t \in Threads, Create(t)
  PROVE  \/ \E sid \in Slots : \E new \in Thread :
              /\ sid = NewSid /\ CreateSession(thread[t].iqn, thread[t].portal)
              /\ thread[t].portal \in Portals
              /\ thread' = [thread EXCEPT ![t] = new]
              /\ reused' = (reused \/ NumberInUse(t, sid))
              /\ new.todo = IF t = Main THEN LoginCalls ELSE DiscoveryCalls
              /\ new.op = thread[t].op /\ new.iqn = thread[t].iqn /\ new.asOf = thread[t].asOf
              /\ new.sid = sid /\ new.cid = 0 /\ new.gen = created + 1
         \/ /\ CreateSessionFails(thread[t].iqn) /\ Continue(t, <<>>) /\ reused' = reused
<1>1. CASE /\ CreateSession(thread[t].iqn, thread[t].portal)
           /\ Go(t, IF t = Main THEN LoginCalls ELSE DiscoveryCalls,
                 [thread[t] EXCEPT !.sid = NewSid, !.cid = 0, !.gen = created + 1])
           /\ reused' = (reused \/ NumberInUse(t, NewSid))
  <2> DEFINE th == [thread[t] EXCEPT !.sid = NewSid, !.cid = 0, !.gen = created + 1]
             todo == IF t = Main THEN LoginCalls ELSE DiscoveryCalls
             new == [th EXCEPT !.todo = todo]
  <2>1. thread[t] \in Thread /\ thread[t].portal \in Portals
    BY AtKnows, CreatesFor DEF Create
  <2>2. NewSid \in Slots /\ created + 1 \in 0 .. MaxCreated /\ 0 \in Cids
    <3>1. NewSid \in Slots /\ created + 1 \in 1 .. MaxCreated
      BY <1>1, <2>1, CreateSessionTable DEF Inv, KernelInv
    <3> QED
      BY <3>1, Ids
  <2>3. /\ th \in Thread /\ th.op = thread[t].op /\ th.iqn = thread[t].iqn
        /\ th.asOf = thread[t].asOf /\ th.sid = NewSid /\ th.cid = 0 /\ th.gen = created + 1
    BY <2>1, <2>2 DEF Thread
  <2>4. todo \in Seq(Calls)
    BY LoginList, DiscoveryList
  <2> HIDE DEF th, todo
  <2>5. new \in Thread /\ new.todo = todo /\ new.op = th.op /\ new.iqn = th.iqn
        /\ new.sid = th.sid /\ new.cid = th.cid /\ new.gen = th.gen /\ new.asOf = th.asOf
    BY <2>3, <2>4 DEF Thread
  <2>6. thread' = [thread EXCEPT ![t] = new]
    BY <1>1 DEF Go, th, todo
  <2> HIDE DEF new
  <2> QED
    BY <1>1, <2>1, <2>2, <2>3, <2>5, <2>6 DEF todo
<1>2. CASE CreateSessionFails(thread[t].iqn) /\ Continue(t, <<>>) /\ UNCHANGED reused
  BY <1>2
<1> QED
  BY <1>1, <1>2 DEF Create

LEMMA CreateBase ==
  ASSUME Inv, Inv', Base, NEW t \in Threads, Create(t)
  PROVE  Base'
<1>1. /\ At(t, "CreateSession") /\ messages' = messages /\ daemon' = daemon /\ atStart' = atStart
      /\ UNCHANGED <<client, notificationPort>>
  BY DEF Create, clientVars
<1>2. /\ daemon = "up" /\ thread[t].op \in {"login", "wake", "discovery"}
      /\ thread[t].op = "discovery" <=> t = Discovery
      /\ Suits(t, thread[t]) /\ TableInv /\ TableInv' /\ thread \in [Threads -> Thread]
  BY <1>1, AtKnows, CreatesFor DEF Inv, KernelInv, ThreadsInv
<1>3. ASSUME CreateSessionFails(thread[t].iqn), Continue(t, <<>>), reused' = reused
      PROVE  Base'
  <2>1. Fades
    BY <1>2, <1>3, CreateSessionFailsFades DEF Base
  <2> QED
    BY <1>1, <1>3, <2>1, OrderlyNone, ContinueBase
<1>4. ASSUME NEW sid \in Slots, NEW new \in Thread, sid = NewSid,
             CreateSession(thread[t].iqn, thread[t].portal), thread[t].portal \in Portals,
             thread' = [thread EXCEPT ![t] = new], reused' = (reused \/ NumberInUse(t, sid)),
             new.todo = IF t = Main THEN LoginCalls ELSE DiscoveryCalls,
             new.op = thread[t].op, new.iqn = thread[t].iqn, new.asOf = thread[t].asOf,
             new.sid = sid, new.cid = 0, new.gen = created + 1
      PROVE  Base'
  <2>1. /\ ~Exists(sid)
        /\ \A s \in Slots \ {sid} : sessionList'[s] = sessionList[s]
        /\ Exists(sid)' /\ Gen(sid)' = created + 1 /\ created' = created + 1
    BY <1>2, <1>4, CreateSessionEffect
  <2>2. \A s \in Slots \ {sid} : (Exists(s)' <=> Exists(s)) /\ Gen(s)' = Gen(s)
    BY <2>1, SameSlot
  <2>3. created \in Nat /\ \A s \in Slots : Gen(s) \in Nat /\ Gen(s) <= created
    BY <1>2, ExistsGen DEF TableInv, Base, Sorted
  <2>4. thread'[t] = new /\ \A other \in Threads \ {t} : thread'[other] = thread[other]
    BY <1>2, <1>4
  <2>5. Proper(t, new)
    <3>1. new.gen # 0
      BY <1>4, <2>3
    <3>2. Orderly(new.todo) /\ \A name \in Names(new.todo) : Meets(new, name)
      BY <1>2, <1>4, <3>1, CreatedList
    <3> QED
      BY <1>2, <1>4, <3>2 DEF Proper, Suits, Lists, Reports
  <2>6. ShapeInv'
    <3>1. ASSUME NEW th \in Thread, th.asOf <= created
          PROVE  th.asOf <= created'
      <4>1. th.asOf \in Nat
        BY <3>1 DEF Thread
      <4> QED
        BY <2>1, <2>3, <3>1, <4>1
    <3>2. \A other \in Threads : Proper(other, thread'[other]) /\ thread'[other] \in Thread
      BY <1>2, <2>4, <2>5 DEF Base, ShapeInv
    <3> QED
      BY <3>1, <3>2 DEF ShapeInv, Proper, Suits
  <2>7. DaemonState'
    BY <1>1, <1>2 DEF Base, DaemonState
  <2>8. Sorted'
    BY <1>2, <1>4, CreateSessionSorted DEF Base
  <2>9. ASSUME NEW x, Placed(x), x.gen \in Nat
        PROVE  Placed(x)'
    <3>1. x.gen <= created' /\ x.gen # created + 1
      BY <2>1, <2>3, <2>9 DEF Placed
    <3> QED
      BY <2>1, <2>2, <2>9, <3>1 DEF Placed
  <2>10. ASSUME Placed(new)'
         PROVE  PlacedInv'
    <3>1. \A i \in 1 .. Len(messages) : messages[i].gen \in Nat
      BY MessageOf
    <3>2. \A other \in Threads \ {t} : thread[other].gen \in Nat
      BY <1>2 DEF Thread
    <3>3. \A i \in 1 .. Len(messages) : Placed(messages[i])
          /\ (Placed(messages[i]) => messages[i].gen <= created'
              /\ \A s \in Slots : Exists(s)' /\ Gen(s)' = messages[i].gen => messages[i].sid = s)
      BY <2>9, <3>1 DEF Base, PlacedInv, Placed
    <3>4. \A other \in Threads \ {t} : thread[other].gen <= created'
              /\ \A s \in Slots : Exists(s)' /\ Gen(s)' = thread[other].gen => thread[other].sid = s
      BY <2>9, <3>2 DEF Base, PlacedInv, Placed
    <3> QED
      BY <1>1, <2>4, <2>10, <3>3, <3>4 DEF PlacedInv, Placed
  <2>11. new.gen <= created' /\ \A s \in Slots : Exists(s)' /\ Gen(s)' = new.gen => new.sid = s
    BY <1>4, <2>1, <2>2, <2>3
  <2>12. PlacedInv'
    BY <2>10, <2>11 DEF Placed
  <2>13. KnownInv'
    <3> SUFFICES ASSUME ~reused'
                 PROVE  /\ \A other \in Threads : thread'[other].op # "sleep" =>
                             (Exists(thread[other].sid)' => Gen(thread[other].sid)' = thread'[other].gen)
                        /\ \A i \in 1 .. Len(messages) :
                             (Exists(messages[i].sid)' => Gen(messages[i].sid)' = messages'[i].gen)
      BY <1>1 DEF KnownInv, Known
    <3>1. ~reused /\ ~NumberInUse(t, sid)
      BY <1>4
    <3>2. ASSUME NEW x, Known(x), x.sid # sid
          PROVE  \A s \in Slots : s = x.sid /\ Exists(s)' => Gen(s)' = x.gen
      BY <2>2, <3>2 DEF Known
    <3>3. ASSUME NEW other \in Threads \ {t}, thread[other].op # "sleep"
          PROVE  \A s \in Slots : s = thread[other].sid /\ Exists(s)' => Gen(s)' = thread[other].gen
      BY <3>1, <3>2, <3>3 DEF NumberInUse, Base, KnownInv
    <3>4. ASSUME NEW i \in 1 .. Len(messages)
          PROVE  \A s \in Slots : s = messages[i].sid /\ Exists(s)' => Gen(s)' = messages[i].gen
      BY <3>1, <3>2 DEF NumberInUse, Base, KnownInv
    <3>5. \A s : Exists(s)' => s \in Slots
      BY DEF Exists
    <3>6. \A s \in Slots : s = new.sid => Gen(s)' = new.gen
      BY <1>4, <2>1
    <3> QED
      BY <1>1, <2>4, <3>3, <3>4, <3>5, <3>6 DEF Exists
  <2> QED
    BY <2>6, <2>7, <2>8, <2>12, <2>13 DEF Base
<1>5. \/ \E sid \in Slots : \E new \in Thread :
           /\ sid = NewSid /\ CreateSession(thread[t].iqn, thread[t].portal)
           /\ thread[t].portal \in Portals
           /\ thread' = [thread EXCEPT ![t] = new]
           /\ reused' = (reused \/ NumberInUse(t, sid))
           /\ new.todo = IF t = Main THEN LoginCalls ELSE DiscoveryCalls
           /\ new.op = thread[t].op /\ new.iqn = thread[t].iqn /\ new.asOf = thread[t].asOf
           /\ new.sid = sid /\ new.cid = 0 /\ new.gen = created + 1
      \/ CreateSessionFails(thread[t].iqn) /\ Continue(t, <<>>) /\ reused' = reused
  BY CreateMade
<1> QED
  BY <1>3, <1>4, <1>5

\* A connection that is lost while the daemon is there.
LEMMA TimeoutFades ==
  ASSUME Inv, Base, daemon = "up", NEW sid, NEW cid \in Connections(sid),
         HandleConnectionTimeout(sid, cid)
  PROVE  Fades /\ Exists(sid) /\ Told(sid)
BY LostWithDaemon DEF Inv, Base, DaemonState, Told

LEMMA AddConnectionBase ==
  ASSUME Inv, Inv', Base, NEW t \in Threads, AddConnection(t)
  PROVE  Base'
<1>1. At(t, "CreateConnection") /\ OnlyTable
  BY DEF AddConnection
<1>2. /\ thread[t] \in Thread /\ Suits(t, thread[t]) /\ thread[t].op # "none"
      /\ LogsIn(thread[t].op) /\ thread[t].portal \in Portals
  BY <1>1, AtKnows DEF Ready
<1>3. TableInv /\ Sorted
  BY DEF Inv, KernelInv, Base
<1>4. CASE /\ CreateConnection(thread[t].sid, thread[t].portal)
           /\ Go(t, Tail(AddConnectionCalls), [thread[t] EXCEPT !.cid = NewCid(thread[t].sid)])
  <2> DEFINE th == [thread[t] EXCEPT !.cid = NewCid(thread[t].sid)]
  <2>1. PICK sid, cid : sid = thread[t].sid /\ cid = NewCid(sid)
    OBVIOUS
  <2>2. /\ cid \in Cids /\ \A s \in Slots \ {sid} : sessionList'[s] = sessionList[s]
        /\ Exists(sid) /\ Exists(sid)' /\ Gen(sid)' = Gen(sid)
        /\ targetList' = targetList /\ created' = created
    BY <1>2, <1>3, <1>4, <2>1, CreateConnectionEffect
  <2>3. \A s \in Slots : (Exists(s)' <=> Exists(s)) /\ Gen(s)' = Gen(s)
    BY <2>2, SameSlot
  <2>4. Fades
    BY <1>3, <2>2, <2>3, SameFades
  <2>5. /\ th \in Thread /\ th.op = thread[t].op /\ th.iqn = thread[t].iqn /\ th.cid = cid
        /\ th.sid = thread[t].sid /\ th.gen = thread[t].gen /\ th.asOf = thread[t].asOf
    BY <1>2, <2>1, <2>2 DEF Thread
  <2> HIDE DEF th
  <2>6. Suits(t, th) /\ Sound(thread[t], th)
    BY <1>2, <2>5 DEF Suits, Sound, LogsIn, Lists
  <2>7. Orderly(Tail(AddConnectionCalls))
        /\ \A name \in Names(Tail(AddConnectionCalls)) : Meets(th, name)
    BY <1>2, <2>5, AddConnectionList DEF Meets, LogsIn, Lists, Reports, Talk, Sets
  <2> QED
    BY <1>1, <1>2, <1>4, <2>4, <2>5, <2>6, <2>7, OnlyTableKeeps, GoBase DEF th
<1>5. CASE Continue(t, <<>>) /\ UNCHANGED tableVars
  BY <1>1, <1>5, TableFades, OrderlyNone, OnlyTableKeeps, ContinueBase
<1> QED
  BY <1>4, <1>5 DEF AddConnection

\* What a thread may do after it exchanged something.
LEMMA TalkersMeet ==
  ASSUME Inv, Base, NEW t \in Threads, NEW name \in {"exchange", "GetConnection"}, At(t, name)
  PROVE  \A other \in {"ReleaseSession", "query", "DeactivateAllConnections", "GetConnection"} :
            Meets(thread[t], other)
<1>1. Meets(thread[t], name)
  BY AtKnows
<1> QED
  BY <1>1 DEF Meets, ReportCalls, ListCalls, Talk, Sets

LEMMA ExchangeBase ==
  ASSUME Inv, Inv', Base, NEW t \in Threads, Exchange(t)
  PROVE  Base'
<1>1. /\ At(t, "exchange") /\ daemon' = daemon /\ UNCHANGED <<client, notificationPort>>
      /\ reused' = reused
  BY DEF Exchange, clientVars, daemonVars
<1>2. daemon = "up"
  BY <1>1, AtKnows
<1>3. CASE Continue(t, Rest(t)) /\ UNCHANGED <<kernelVars, messages>>
  BY <1>1, <1>3, TableFades, RestBase DEF kernelVars
<1>4. CASE Continue(t, Refused(t)) /\ UNCHANGED <<kernelVars, messages>>
  <2>1. \A other \in Names(Refused(t)) : Meets(thread[t], other)
    BY <1>1, RefusedList, TalkersMeet
  <2> QED
    BY <1>1, <1>4, <2>1, TableFades, RefusedList, ContinueBase DEF kernelVars
<1>5. CASE Continue(t, <<Call("ReleaseSession")>>) /\ Lost(t)
  <2>1. Orderly(<<Call("ReleaseSession")>>) /\ Names(<<Call("ReleaseSession")>>) = {"ReleaseSession"}
    BY OneCall
  <2>2. Fades /\ \E s : Exists(s) /\ Told(s)
    BY <1>2, <1>5, TimeoutFades DEF Lost
  <2>3. Meets(thread[t], "ReleaseSession")
    BY <1>1, TalkersMeet
  <2> QED
    BY <1>1, <1>5, <2>1, <2>2, <2>3, ContinueBase
<1> QED
  BY <1>3, <1>4, <1>5 DEF Exchange

LEMMA QueryBase ==
  ASSUME Inv, Inv', Base, NEW t \in Threads, Query(t)
  PROVE  Base'
<1>1. /\ At(t, "query") /\ daemon' = daemon /\ UNCHANGED <<client, notificationPort>>
      /\ reused' = reused /\ Continue(t, Rest(t))
      /\ (Lost(t) \/ UNCHANGED <<kernelVars, messages>>)
  BY DEF Query, clientVars, daemonVars
<1>2. daemon = "up"
  BY <1>1, AtKnows
<1>3. Fades /\ (messages' = messages \/ \E s : Exists(s) /\ Told(s))
  BY <1>1, <1>2, TimeoutFades, TableFades DEF Lost, kernelVars
<1> QED
  BY <1>1, <1>3, RestBase

\* The value that a thread sets has its session's number.
LEMMA SetsValue ==
  ASSUME Inv, Base, NEW t \in Threads, SetParameter(t)
  PROVE  \E name \in Sets, key \in Keys, value \in Value :
            /\ At(t, name) /\ Head(thread[t].todo).key = key
            /\ value = [key |-> key, gen |-> thread[t].gen] /\ value.key = key
            /\ Head(thread[t].todo) \in Calls
            /\ key \in SessionKeys => SetSessionParameter(thread[t].sid, value)
            /\ key \notin SessionKeys => SetConnectionParameter(thread[t].sid, thread[t].cid, value)
                                         /\ key \in ConnectionKeys
<1>1. PICK name \in Sets : At(t, name)
  BY DEF SetParameter, Sets
<1>2. thread[t] \in Thread /\ Head(thread[t].todo) \in Calls /\ Head(thread[t].todo).name = name
  BY <1>1, AtKnows
<1> DEFINE key == Head(thread[t].todo).key
           value == [key |-> key, gen |-> thread[t].gen]
<1>3. key \in Keys /\ (key \in SessionKeys \/ key \in ConnectionKeys)
  BY <1>2, KeyOfCall DEF Sets, Keys
<1>4. thread[t].gen \in 0 .. MaxCreated
  BY <1>2 DEF Thread
<1> HIDE DEF key
<1>5. value \in Value /\ value.key = key
  BY <1>3, <1>4 DEF Value
<1>6. IF value.key \in SessionKeys
        THEN SetSessionParameter(thread[t].sid, value)
        ELSE SetConnectionParameter(thread[t].sid, thread[t].cid, value)
  BY DEF SetParameter, key
<1> QED
  BY <1>1, <1>2, <1>3, <1>5, <1>6 DEF key

LEMMA SetParameterBase ==
  ASSUME Inv, Inv', Base, NEW t \in Threads, SetParameter(t)
  PROVE  Base'
<1>1. Continue(t, Rest(t)) /\ OnlyTable /\ TableInv /\ Sorted
  BY DEF SetParameter, Inv, KernelInv, Base
<1>2. PICK name \in Sets, key \in Keys, value \in Value :
            /\ At(t, name) /\ value.key = key
            /\ key \in SessionKeys => SetSessionParameter(thread[t].sid, value)
            /\ key \notin SessionKeys => SetConnectionParameter(thread[t].sid, thread[t].cid, value)
                                         /\ key \in ConnectionKeys
  BY SetsValue
<1>3. /\ \A s \in Slots : (Exists(s)' <=> Exists(s)) /\ Gen(s)' = Gen(s)
      /\ targetList' = targetList /\ created' = created
  BY <1>1, <1>2, SetSessionParameterEffect, SetConnectionParameterEffect
<1>4. Fades
  BY <1>1, <1>3, SameFades
<1> QED
  BY <1>1, <1>2, <1>4, OnlyTableKeeps, RestBase

LEMMA SetActiveFades ==
  ASSUME Inv, Base, NEW sid, NEW cids, NEW active \in BOOLEAN, SetActive(sid, cids, active)
  PROVE  Fades
BY SetActiveEffect, SameFades DEF Inv, KernelInv, Base

\* When the target is not mounted, the sessions stay as they are.
LEMMA MountFailsFades ==
  ASSUME Inv, Base, NEW sid, NEW cid, MountFails(sid, cid)
  PROVE  Fades
<1>1. sessionList' = sessionList /\ targetList' = targetList /\ created' = created
  BY DEF MountFails
<1>2. \A s : (Exists(s)' <=> Exists(s)) /\ Gen(s)' = Gen(s)
  BY <1>1, SameSlots
<1> QED
  BY <1>1, <1>2, SameFades DEF Inv, KernelInv, Base

LEMMA ActivateBase ==
  ASSUME Inv, Inv', Base, NEW t \in Threads, Activate(t)
  PROVE  Base'
<1>1. At(t, "ActivateConnection") /\ Continue(t, Rest(t)) /\ OnlyTable
      /\ \/ SetActive(thread[t].sid, {thread[t].cid}, TRUE)
         \/ MountFails(thread[t].sid, thread[t].cid)
  BY DEF Activate, ActivateConnection
<1> QED
  BY <1>1, SetActiveFades, MountFailsFades, OnlyTableKeeps, RestBase

LEMMA DeactivateBase ==
  ASSUME Inv, Inv', Base, NEW t \in Threads, Deactivate(t)
  PROVE  Base'
<1>1. At(t, "DeactivateAllConnections") /\ Continue(t, Rest(t)) /\ OnlyTable
      /\ SetActive(thread[t].sid, Cids, FALSE)
  BY DEF Deactivate, DeactivateAllConnections
<1> QED
  BY <1>1, SetActiveFades, OnlyTableKeeps, RestBase

\* The logout exchange comes before what is left.
LEMMA QueryFirst ==
  ASSUME Inv, Base, NEW t \in Threads, At(t, "GetConnection")
  PROVE  /\ <<Call("query")>> \o Rest(t) \in Seq(Calls) /\ Orderly(<<Call("query")>> \o Rest(t))
         /\ Names(<<Call("query")>> \o Rest(t)) = {"query"} \cup Names(Rest(t))
<1> DEFINE a == <<Call("query")>>
<1>1. a \in Seq(Calls) /\ Orderly(a) /\ Names(a) = {"query"}
  BY OneCall, CallOf DEF CallNames
<1>2. /\ Rest(t) \in Seq(Calls) /\ Orderly(Rest(t))
      /\ \A other \in Names(Rest(t)) : Follows("GetConnection", other)
  BY RestKnows
<1> HIDE DEF a
<1>3. \A x \in Names(a), y \in Names(Rest(t)) : Follows(x, y)
  BY <1>1, <1>2 DEF Follows, Alone, Talk, Sets
<1>4. a \o Rest(t) \in Seq(Calls) /\ Orderly(a \o Rest(t))
      /\ Names(a \o Rest(t)) = Names(a) \cup Names(Rest(t))
  BY <1>1, <1>2, <1>3, OrderlyConcat, CallsConcat, ConcatProperties
<1> QED
  BY <1>1, <1>4 DEF a

LEMMA LogoutExchangeBase ==
  ASSUME Inv, Inv', Base, NEW t \in Threads, LogoutExchange(t)
  PROVE  Base'
<1> DEFINE cid == GetConnection(thread[t].sid)
           th == [thread[t] EXCEPT !.cid = cid]
<1>1. At(t, "GetConnection") /\ OnlyThread
      /\ (IF cid = None THEN Continue(t, Rest(t)) ELSE Go(t, <<Call("query")>> \o Rest(t), th))
  BY DEF LogoutExchange
<1>2. CASE cid = None
  BY <1>1, <1>2, OnlyThreadFades, RestBase
<1>3. CASE cid # None
  <2>1. /\ thread[t] \in Thread /\ Suits(t, thread[t]) /\ thread[t].op # "none"
        /\ Meets(thread[t], "GetConnection")
    BY <1>1, AtKnows
  <2>2. cid \in Cids
    BY <1>3, FirstOf DEF Connections
  <2> HIDE DEF cid
  <2>3. /\ th \in Thread /\ th.op = thread[t].op /\ th.iqn = thread[t].iqn
        /\ th.sid = thread[t].sid /\ th.gen = thread[t].gen /\ th.asOf = thread[t].asOf
    BY <2>1, <2>2 DEF Thread
  <2> HIDE DEF th
  <2>4. th.op \notin Lists /\ th.op \notin Reports
    BY <2>1, <2>3 DEF Meets, ListCalls, ReportCalls
  <2>5. Suits(t, th) /\ Sound(thread[t], th)
    BY <2>1, <2>3, <2>4 DEF Suits, Sound
  <2>6. \A other \in Names(Rest(t)) : /\ other # "GetSessionIdForTargetIQN"
                                      /\ Meets(thread[t], other)
    BY <1>1, RestKnows DEF Follows, Alone
  <2>7. Meets(thread[t], "query")
    BY <1>1, TalkersMeet
  <2>8. \A other \in Names(<<Call("query")>> \o Rest(t)) : Meets(th, other)
    BY <1>1, <2>3, <2>6, <2>7, QueryFirst DEF Meets
  <2> QED
    BY <1>1, <1>3, <2>1, <2>3, <2>5, <2>8, QueryFirst, OnlyThreadFades, GoBase
<1> QED
  BY <1>2, <1>3

LEMMA ReleaseBase ==
  ASSUME Inv, Inv', Base, NEW t \in Threads, Release(t)
  PROVE  Base'
<1>1. Continue(t, Rest(t)) /\ OnlyTable /\ TableInv /\ Sorted
  BY DEF Release, Inv, KernelInv, Base
<1>2. CASE At(t, "ReleaseSession") /\ ReleaseSession(thread[t].sid)
  BY <1>1, <1>2, ReleaseSessionEffect, OnlyTableKeeps, RestBase
<1>3. CASE At(t, "ReleaseConnection") /\ ReleaseConnection(thread[t].sid, thread[t].cid)
  BY <1>1, <1>3, ReleaseConnectionEffect, OnlyTableKeeps, RestBase
<1> QED
  BY <1>2, <1>3 DEF Release

LEMMA LogoutUnmountsBase ==
  ASSUME Inv, Inv', Base, NEW t \in Threads, LogoutUnmounts(t)
  PROVE  Base'
<1>1. /\ At(t, "unmount") /\ thread' = [thread EXCEPT ![t] = Blank] /\ daemon' = daemon
      /\ UNCHANGED <<client, notificationPort>> /\ UNCHANGED tableVars /\ reused' = reused
      /\ messages' = messages
  BY DEF LogoutUnmounts, kernelVars, clientVars
<1>2. Blank.sid = None /\ Blank.cid = None /\ Blank.gen = 0 /\ Blank.asOf = 0
  BY DEF Blank
<1> QED
  BY <1>1, <1>2, AtKnows, BeginBase

LEMMA LogoutOfPortalBase ==
  ASSUME Inv, Inv', Base, NEW t \in Threads, LogoutOfPortal(t)
  PROVE  Base'
<1> DEFINE th == [thread[t] EXCEPT !.op = "logout"]
           todo == IF Cardinality(GetConnectionIds(thread[t].sid)) = 1 THEN <<Call("unmount")>>
                   ELSE RemoveConnectionCalls
<1>1. /\ At(t, "GetConnectionIds") /\ thread[t].op = "logoutPortal"
      /\ (IF ~Exists(thread[t].sid) THEN Crash ELSE Go(t, todo, th) /\ OnlyThread)
  BY DEF LogoutOfPortal
<1>2. CASE ~Exists(thread[t].sid)
  BY <1>1, <1>2, CrashBase
<1>3. CASE Exists(thread[t].sid)
  <2>1. thread[t] \in Thread /\ Suits(t, thread[t])
    BY <1>1, AtKnows
  <2>2. /\ th \in Thread /\ th.op = "logout"
        /\ th.sid = thread[t].sid /\ th.gen = thread[t].gen /\ th.asOf = thread[t].asOf
    BY <2>1 DEF Thread, Ops, OfTarget
  <2> HIDE DEF th
  <2>3. Suits(t, th) /\ Sound(thread[t], th)
    BY <1>1, <2>1, <2>2 DEF Suits, Sound, Lists, Reports
  <2>4. Orderly(todo) /\ \A name \in Names(todo) : Meets(th, name)
    <3>1. todo \in {<<>>, <<Call("unmount")>>}
      BY DEF RemoveConnectionCalls
    <3>2. Orderly(todo) /\ Names(todo) \subseteq {"unmount"}
      BY <3>1, OneCall, OrderlyNone
    <3> QED
      BY <2>2, <3>2 DEF Meets, Talk, Sets, Reports, Lists
  <2> HIDE DEF todo
  <2> QED
    BY <1>1, <1>3, <2>2, <2>3, <2>4, OnlyThreadFades, GoBase
<1> QED
  BY <1>2, <1>3

LEMMA ReadParameterBase ==
  ASSUME Inv, Inv', Base, NEW t \in Threads, ReadParameter(t)
  PROVE  Base'
<1> DEFINE c == Head(thread[t].todo)
           value == IF c.name = "GetSessionParameter" THEN GetSessionParameter(thread[t].sid, c.key)
                    ELSE GetConnectionParameter(thread[t].sid, thread[t].cid, c.key)
           th == [thread[t] EXCEPT !.report[c.key] = value]
<1>1. PICK name : At(t, name)
  BY DEF ReadParameter
<1>2. /\ Go(t, Rest(t), th) /\ daemon' = daemon /\ UNCHANGED <<client, notificationPort>>
      /\ UNCHANGED tableVars /\ reused' = reused /\ messages' = messages
  BY DEF ReadParameter, kernelVars, daemonVars, Rest
<1>3. /\ thread[t] \in Thread /\ Suits(t, thread[t]) /\ thread[t].op # "none"
  BY <1>1, AtKnows
<1> HIDE DEF value, c
<1> DEFINE new == [th EXCEPT !.todo = Rest(t)]
<1>4. /\ new.todo = Rest(t) /\ new.op = thread[t].op /\ new.iqn = thread[t].iqn
      /\ new.sid = thread[t].sid /\ new.cid = thread[t].cid /\ new.gen = thread[t].gen
      /\ new.asOf = thread[t].asOf
  BY <1>3 DEF Thread
<1>5. thread' = [thread EXCEPT ![t] = new]
  BY <1>2 DEF Go
<1> HIDE DEF new
<1>6. Orderly(Rest(t)) /\ \A other \in Names(Rest(t)) : Meets(thread[t], other)
  BY <1>1, RestKnows
<1>7. Proper(t, new) /\ Sound(thread[t], new)
  BY <1>3, <1>4, <1>6 DEF Proper, Suits, Meets, Sound
<1>8. Fades /\ daemon = "up"
  BY <1>1, <1>2, TableFades, AtKnows
<1> QED
  BY <1>2, <1>5, <1>7, <1>8, ThreadBase

LEMMA ListSessionsBase ==
  ASSUME Inv, Inv', Base, NEW t \in Threads, ListSessions(t)
  PROVE  Base'
<1>1. /\ At(t, "GetSessionIds") /\ daemon' = daemon /\ UNCHANGED <<client, notificationPort>>
      /\ UNCHANGED tableVars /\ reused' = reused /\ messages' = messages
  BY DEF ListSessions, kernelVars, clientVars
<1>2. PICK ids \in PointerArrays(GetSessionIds) :
         Go(t, IF ids = <<>> THEN <<>> ELSE ForEachSession,
            [thread[t] EXCEPT !.ids = ids, !.listed = Len(ids), !.asOf = created])
  BY DEF ListSessions
<1> DEFINE th == [thread[t] EXCEPT !.ids = ids, !.listed = Len(ids), !.asOf = created]
           todo == IF ids = <<>> THEN <<>> ELSE ForEachSession
           new == [th EXCEPT !.todo = todo]
<1>3. /\ thread[t] \in Thread /\ Suits(t, thread[t]) /\ thread[t].op \in Lists
      /\ created \in Nat /\ daemon = "up"
  BY <1>1, AtKnows, UserClientConstants DEF Ready, Lists, Inv, KernelInv, TableInv
<1>4. /\ new.todo = todo /\ new.op = thread[t].op /\ new.iqn = thread[t].iqn
      /\ new.sid = thread[t].sid /\ new.cid = thread[t].cid /\ new.gen = thread[t].gen
      /\ new.asOf = created
  BY <1>3 DEF Thread
<1>5. thread' = [thread EXCEPT ![t] = new]
  BY <1>2 DEF Go
<1> HIDE DEF new
<1>6. Orderly(todo) /\ Names(todo) \subseteq {"GetTargetIQNForSessionId"}
  BY OrderlyNone, OneCall DEF ForEachSession
<1> HIDE DEF todo
<1>7. \A name \in Names(todo) : Meets(new, name)
  BY <1>3, <1>4, <1>6 DEF Meets, Lists, ListCalls, Reports, Talk, Sets
<1>8. Proper(t, new) /\ Sound(thread[t], new)
  BY <1>3, <1>4, <1>6, <1>7 DEF Proper, Suits, Sound, Lists, Reports
<1>9. Fades
  BY <1>1, TableFades
<1> QED
  BY <1>1, <1>3, <1>5, <1>8, <1>9, ThreadBase

\* The lists of names keep nothing else of a session.
LEMMA ListGoes ==
  ASSUME Inv, Inv', Base, NEW t \in Threads, NEW name, At(t, name), thread[t].op \in Lists,
         daemon' = daemon, UNCHANGED <<client, notificationPort>>, UNCHANGED tableVars,
         reused' = reused, messages' = messages,
         NEW new, thread' = [thread EXCEPT ![t] = new],
         new.op = thread[t].op, new.gen = thread[t].gen, new.cid = thread[t].cid,
         new.asOf = thread[t].asOf, new.sid = thread[t].sid \/ new.op = "sleep",
         new.todo \in {<<>>, ForEachSession, <<Call("GetConnectionIds")>>}
  PROVE  Base'
<1>1. Suits(t, thread[t]) /\ daemon = "up"
  BY AtKnows
<1>2. Orderly(new.todo) /\ Names(new.todo) \subseteq {"GetTargetIQNForSessionId", "GetConnectionIds"}
  BY OrderlyNone, OneCall DEF ForEachSession
<1>3. \A other \in Names(new.todo) : Meets(new, other)
  BY <1>2 DEF Meets, Lists, ListCalls, Reports, Talk, Sets
<1>4. Proper(t, new)
  BY <1>1, <1>2, <1>3 DEF Proper, Suits, Lists, Reports
<1>5. Sound(thread[t], new)
  BY <1>1 DEF Sound, Suits
<1>6. Fades
  BY TableFades
<1> QED
  BY <1>1, <1>4, <1>5, <1>6, ThreadBase

LEMMA ListTargetBase ==
  ASSUME Inv, Inv', Base, NEW t \in Threads, ListTarget(t)
  PROVE  Base'
<1> DEFINE th == [thread[t] EXCEPT !.ids = Tail(@)]
           todo == IF Tail(thread[t].ids) = <<>> THEN <<>> ELSE ForEachSession
           new == [th EXCEPT !.todo = todo]
<1>1. /\ At(t, "GetTargetIQNForSessionId") /\ thread[t].op = "listTargets"
      /\ Crash \/ (Go(t, todo, th) /\ OnlyThread)
  BY DEF ListTarget
<1>2. CASE Go(t, todo, th) /\ OnlyThread
  <2>1. thread[t] \in Thread
    BY <1>1, AtKnows
  <2>2. /\ new.todo = todo /\ new.op = thread[t].op
        /\ new.sid = thread[t].sid /\ new.cid = thread[t].cid /\ new.gen = thread[t].gen
        /\ new.asOf = thread[t].asOf
    BY <2>1 DEF Thread
  <2>3. thread' = [thread EXCEPT ![t] = new]
    BY <1>2 DEF Go
  <2> HIDE DEF new
  <2>4. todo \in {<<>>, ForEachSession, <<Call("GetConnectionIds")>>} /\ thread[t].op \in Lists
    BY <1>1 DEF Lists
  <2> QED
    BY <1>1, <1>2, <2>2, <2>3, <2>4, OnlyThreadFades, ListGoes
<1> QED
  BY <1>1, <1>2, CrashBase

LEMMA SleepTargetBase ==
  ASSUME Inv, Inv', Base, NEW t \in Threads, SleepTarget(t)
  PROVE  Base'
<1>1. /\ At(t, "GetTargetIQNForSessionId") /\ thread[t].op = "sleep" /\ OnlyThread
  BY DEF SleepTarget
<1> DEFINE th == thread[t]
           sid == Head(th.ids)
<1>2. PICK iqn \in GetTargetIQNForSessionId(sid) :
          IF iqn = None
               THEN Go(t, IF Tail(th.ids) = <<>> THEN <<>> ELSE ForEachSession,
                       [th EXCEPT !.ids = Tail(@)])
               ELSE Go(t, <<Call("GetConnectionIds")>>,
                       [th EXCEPT !.ids = Tail(@), !.sid = sid, !.iqn = iqn])
  BY DEF SleepTarget
<1>3. th \in Thread /\ th.op \in Lists
  BY <1>1, AtKnows DEF Lists
<1>4. CASE iqn = None
  <2> DEFINE th2 == [th EXCEPT !.ids = Tail(@)]
             todo == IF Tail(th.ids) = <<>> THEN <<>> ELSE ForEachSession
             new == [th2 EXCEPT !.todo = todo]
  <2>1. /\ new.todo = todo /\ new.op = th.op
        /\ new.sid = th.sid /\ new.cid = th.cid /\ new.gen = th.gen /\ new.asOf = th.asOf
    BY <1>3 DEF Thread
  <2>2. thread' = [thread EXCEPT ![t] = new]
    BY <1>2, <1>4 DEF Go
  <2> HIDE DEF new
  <2>3. todo \in {<<>>, ForEachSession, <<Call("GetConnectionIds")>>}
    OBVIOUS
  <2> QED
    BY <1>1, <1>3, <2>1, <2>2, <2>3, OnlyThreadFades, ListGoes
<1>5. CASE iqn # None
  <2> DEFINE th2 == [th EXCEPT !.ids = Tail(@), !.sid = sid, !.iqn = iqn]
             new == [th2 EXCEPT !.todo = <<Call("GetConnectionIds")>>]
  <2>1. /\ new.todo = <<Call("GetConnectionIds")>> /\ new.op = th.op
        /\ new.cid = th.cid /\ new.gen = th.gen /\ new.asOf = th.asOf
    BY <1>3 DEF Thread
  <2>2. thread' = [thread EXCEPT ![t] = new]
    BY <1>2, <1>5 DEF Go
  <2> HIDE DEF new
  <2> QED
    BY <1>1, <1>3, <2>1, <2>2, OnlyThreadFades, ListGoes
<1> QED
  BY <1>4, <1>5

LEMMA SleepSessionBase ==
  ASSUME Inv, Inv', Base, NEW t \in Threads, SleepSession(t)
  PROVE  Base'
<1> DEFINE th == thread[t]
           todo == IF th.ids = <<>> THEN <<>> ELSE ForEachSession
           new == [th EXCEPT !.todo = todo]
<1>1. /\ At(t, "GetConnectionIds") /\ th.op = "sleep"
      /\ \/ Crash
         \/ /\ Continue(t, todo) /\ messages' = messages /\ daemon' = daemon /\ reused' = reused
            /\ UNCHANGED <<client, notificationPort>> /\ UNCHANGED tableVars
  BY DEF SleepSession, kernelVars, clientVars
<1>2. CASE /\ Continue(t, todo) /\ messages' = messages /\ daemon' = daemon /\ reused' = reused
           /\ UNCHANGED <<client, notificationPort>> /\ UNCHANGED tableVars
  <2>1. th \in Thread /\ th.op \in Lists
    BY <1>1, AtKnows DEF Lists
  <2>2. /\ new.todo = todo /\ new.op = th.op
        /\ new.sid = th.sid /\ new.cid = th.cid /\ new.gen = th.gen /\ new.asOf = th.asOf
    BY <2>1 DEF Thread
  <2>3. thread' = [thread EXCEPT ![t] = new]
    BY <1>2, ContinueGo DEF Go
  <2> HIDE DEF new
  <2>4. todo \in {<<>>, ForEachSession, <<Call("GetConnectionIds")>>}
    OBVIOUS
  <2> QED
    BY <1>1, <1>2, <2>1, <2>2, <2>3, <2>4, ListGoes
<1> QED
  BY <1>1, <1>2, CrashBase

LEMMA CopyTargetBase ==
  ASSUME Inv, Inv', Base, NEW t \in Threads, CopyTarget(t)
  PROVE  Base'
<1> DEFINE th == thread[t]
<1>1. At(t, "GetTargetIQNForSessionId")
  BY DEF CopyTarget
<1>2. PICK iqn \in GetTargetIQNForSessionId(th.sid) :
            \/ /\ th.op = "timeout"
               /\ Go(t, Rest(t), [th EXCEPT !.iqn = iqn])
               /\ OnlyThread
            \/ /\ LogsIn(th.op)
               /\ IF iqn = None THEN Crash ELSE Continue(t, Rest(t)) /\ OnlyThread
  BY DEF CopyTarget
<1>3. CASE th.op = "timeout" /\ Go(t, Rest(t), [th EXCEPT !.iqn = iqn]) /\ OnlyThread
  <2> DEFINE th2 == [th EXCEPT !.iqn = iqn]
  <2>1. th \in Thread /\ Suits(t, th)
    BY <1>1, AtKnows
  <2>2. iqn \in IQNs \cup {None}
    BY DEF GetTargetIQNForSessionId
  <2>3. /\ th2 \in Thread /\ th2.op = "timeout" /\ th2.sid = th.sid /\ th2.cid = th.cid
        /\ th2.gen = th.gen /\ th2.asOf = th.asOf
    BY <1>3, <2>1, <2>2 DEF Thread
  <2> HIDE DEF th2
  <2>4. Suits(t, th2) /\ Sound(th, th2)
    BY <1>3, <2>1, <2>3 DEF Suits, Sound, Lists, Reports
  <2>5. Orderly(Rest(t)) /\ \A other \in Names(Rest(t)) : Meets(th, other)
    BY <1>1, RestKnows
  <2>6. \A other \in Names(Rest(t)) : Meets(th2, other)
    BY <1>3, <2>3, <2>5 DEF Meets
  <2> QED
    BY <1>1, <1>3, <2>3, <2>4, <2>5, <2>6, OnlyThreadFades, GoBase DEF th2
<1>4. CASE Continue(t, Rest(t)) /\ OnlyThread
  BY <1>1, <1>4, OnlyThreadFades, RestBase
<1> QED
  BY <1>2, <1>3, <1>4, CrashBase

LEMMA CopyPortalBase ==
  ASSUME Inv, Inv', Base, NEW t \in Threads, CopyPortal(t)
  PROVE  Base'
<1> DEFINE th == thread[t]
           portal == GetPortalForConnectionId(th.sid, th.cid)
           th2 == [th EXCEPT !.portal = portal]
<1>1. At(t, "GetPortalForConnectionId") /\ Go(t, Rest(t), th2) /\ OnlyThread
  BY DEF CopyPortal
<1>2. th \in Thread /\ Suits(t, th) /\ th.op # "none"
  BY <1>1, AtKnows
<1>3. portal \in Portals \cup {None}
  BY ConnectionOf DEF GetPortalForConnectionId, Connection, Inv, KernelInv
<1> HIDE DEF portal
<1>4. /\ th2 \in Thread /\ th2.op = th.op /\ th2.iqn = th.iqn /\ th2.sid = th.sid
      /\ th2.cid = th.cid /\ th2.gen = th.gen /\ th2.asOf = th.asOf
  BY <1>2, <1>3 DEF Thread
<1> HIDE DEF th2
<1>5. Suits(t, th2) /\ Sound(th, th2)
  BY <1>2, <1>4 DEF Suits, Sound
<1>6. Orderly(Rest(t)) /\ \A other \in Names(Rest(t)) : Meets(th, other)
  BY <1>1, RestKnows
<1>7. \A other \in Names(Rest(t)) : Meets(th2, other)
  BY <1>4, <1>6 DEF Meets
<1> QED
  BY <1>1, <1>2, <1>4, <1>5, <1>6, <1>7, OnlyThreadFades, GoBase

LEMMA TimeoutCallbackBase ==
  ASSUME Inv, Inv', Base, NEW t \in Threads, TimeoutCallback(t)
  PROVE  Base'
<1> DEFINE th == thread[t]
           new == [Blank EXCEPT !.op = "login", !.todo = LookUpTarget,
                                !.iqn = th.iqn, !.portal = th.portal]
<1>1. /\ At(t, "timeoutCallback")
      /\ \/ Crash
         \/ Continue(t, <<>>) /\ OnlyThread
         \/ thread' = [thread EXCEPT ![t] = new] /\ OnlyThread
  BY DEF TimeoutCallback
<1>2. CASE Continue(t, <<>>) /\ OnlyThread
  BY <1>1, <1>2, OnlyThreadFades, OrderlyNone, ContinueBase
<1>3. CASE thread' = [thread EXCEPT ![t] = new] /\ OnlyThread
  <2>1. /\ new.op = "login" /\ new.todo = LookUpTarget /\ new.sid = None /\ new.cid = None
        /\ new.gen = 0 /\ new.asOf = 0
    BY DEF Blank
  <2> HIDE DEF new
  <2>2. daemon = "up"
    BY <1>1, AtKnows
  <2>3. new.op \notin Lists \cup {"none", "discovery"} /\ new.op \notin Reports
    BY <2>1 DEF Lists, Reports
  <2> QED
    BY <1>3, <2>1, <2>2, <2>3, OnlyThreadFades, BeginBase
<1> QED
  BY <1>1, <1>2, <1>3, CrashBase

LEMMA BusyUp ==
  ASSUME Base, NEW t \in Threads, Busy(t)
  PROVE  daemon = "up"
<1>1. thread[t] # Blank
  BY DEF Busy, Blank
<1> QED
  BY <1>1 DEF Base, DaemonState

LEMMA NextLoginBase ==
  ASSUME Inv, Inv', Base, NEW t \in Threads, NextLogin(t)
  PROVE  Base'
<1>1. /\ thread[t].op = "wake" /\ messages' = messages /\ daemon' = daemon /\ reused' = reused
      /\ UNCHANGED <<client, notificationPort>> /\ UNCHANGED tableVars
  BY DEF NextLogin, kernelVars, clientVars
<1>2. daemon = "up"
  BY <1>1, BusyUp DEF Busy
<1>3. CASE thread' = [thread EXCEPT ![t] = Blank]
  <2>1. Blank.sid = None /\ Blank.cid = None /\ Blank.gen = 0 /\ Blank.asOf = 0
    BY DEF Blank
  <2> QED
    BY <1>1, <1>2, <1>3, <2>1, BeginBase
<1>4. CASE \E iqn, portal :
              Go(t, LookUpTarget, [Blank EXCEPT !.op = "wake", !.iqn = iqn, !.portal = portal])
  <2>1. PICK iqn, portal :
              Go(t, LookUpTarget, [Blank EXCEPT !.op = "wake", !.iqn = iqn, !.portal = portal])
    BY <1>4
  <2> DEFINE new == [[Blank EXCEPT !.op = "wake", !.iqn = iqn, !.portal = portal]
                        EXCEPT !.todo = LookUpTarget]
  <2>2. /\ new.op = "wake" /\ new.todo = LookUpTarget /\ new.sid = None /\ new.cid = None
        /\ new.gen = 0 /\ new.asOf = 0
    BY DEF Blank
  <2>3. thread' = [thread EXCEPT ![t] = new]
    BY <2>1 DEF Go
  <2> HIDE DEF new
  <2>4. new.op \notin Lists \cup {"none", "discovery"} /\ new.op \notin Reports
    BY <2>2 DEF Lists, Reports
  <2> QED
    BY <1>1, <1>2, <2>2, <2>3, <2>4, BeginBase
<1> QED
  BY <1>3, <1>4 DEF NextLogin

LEMMA ReturnBase ==
  ASSUME Inv, Inv', Base, NEW t \in Threads, Return(t)
  PROVE  Base'
<1>1. Busy(t) /\ thread' = [thread EXCEPT ![t] = Blank] /\ OnlyThread
  BY DEF Return
<1>2. Blank.sid = None /\ Blank.cid = None /\ Blank.gen = 0 /\ Blank.asOf = 0
  BY DEF Blank
<1> QED
  BY <1>1, <1>2, BusyUp, OnlyThreadFades, BeginBase

\* The run loop's requests, and discovery.
LEMMA RequestBase ==
  ASSUME Inv, Inv', Base, NEW t \in Threads, NEW op, NEW todo, NEW iqn, NEW portal,
         Begin(t, op, todo, iqn, portal), OnlyThread,
         \/ todo = <<Call("GetSessionIds")>> /\ op \in Lists
         \/ todo = <<>> /\ op = "wake"
         \/ todo = LookUpTarget /\ op \in OfTarget \cup OfPortal /\ iqn \in Targets
         \/ todo = <<Call("CreateSession")>> /\ op = "discovery" /\ t = Discovery /\ iqn = DiscoveryIQN
  PROVE  Base'
<1> DEFINE new == [Blank EXCEPT !.op = op, !.todo = todo, !.iqn = iqn, !.portal = portal]
<1>1. /\ new.op = op /\ new.todo = todo /\ new.iqn = iqn /\ new.sid = None /\ new.cid = None
      /\ new.gen = 0 /\ new.asOf = 0
  BY DEF Blank
<1>2. daemon = "up" /\ thread' = [thread EXCEPT ![t] = new]
  BY DEF Begin
<1> HIDE DEF new
<1>3. op \in OfTarget \cup OfPortal => op \notin Lists \cup {"none", "discovery"}
  BY DEF OfTarget, OfPortal, Lists
<1>4. op \in Lists => op \in {"sleep", "listTargets", "wake"}
  BY DEF Lists
<1> QED
  BY <1>1, <1>2, <1>3, <1>4, OnlyThreadFades, BeginBase

LEMMA HandleNotificationBase ==
  ASSUME Inv, Inv', Base, HandleNotification
  PROVE  Base'
<1> DEFINE m == Head(messages)
           new == [Blank EXCEPT !.op = "timeout", !.todo = TimeoutCalls,
                                !.sid = m.sid, !.cid = m.cid, !.gen = m.gen]
<1>1. /\ daemon = "up" /\ messages # <<>> /\ thread' = [thread EXCEPT ![Main] = new]
      /\ messages' = Tail(messages) /\ daemon' = daemon /\ reused' = reused
      /\ UNCHANGED <<client, notificationPort>> /\ UNCHANGED tableVars
  BY DEF HandleNotification, kernelVars, clientVars, daemonVars
<1>2. messages \in Seq(Message) /\ messages[1] = m /\ 1 \in 1 .. Len(messages)
  BY <1>1 DEF Inv, KernelInv
<1>3. /\ new.op = "timeout" /\ new.todo = TimeoutCalls /\ new.sid = m.sid /\ new.gen = m.gen
      /\ new.asOf = 0
  BY DEF Blank
<1> HIDE DEF new
<1>4. m.gen # 0 /\ created \in Nat
  BY <1>2, MessageOf, UserClientConstants DEF Inv, KernelInv, TableInv
<1>5. Placed(m) /\ (~reused => Known(m))
  BY <1>2 DEF Base, PlacedInv, KnownInv
<1> HIDE DEF m
<1>6. Placed(new) /\ (~reused => Known(new))
  BY <1>3, <1>5 DEF Placed, Known
<1>7. \A name \in Names(TimeoutCalls) : Meets(new, name)
  BY <1>3, TimeoutList DEF Meets, Lists, Reports, Talk, Sets
<1>8. Proper(Main, new)
  BY <1>3, <1>4, <1>7, TimeoutList DEF Proper, Suits, Lists, Reports
<1>9. ASSUME NEW i \in 1 .. Len(messages')
      PROVE  Placed(messages'[i]) /\ (~reused => Known(messages'[i]))
  <2>1. messages'[i] = messages[i + 1] /\ i + 1 \in 1 .. Len(messages)
    BY <1>1, <1>2
  <2> QED
    BY <2>1 DEF Base, PlacedInv, KnownInv
<1>10. Fades /\ Main \in Threads
  BY <1>1, TableFades, ThreadNames
<1> QED
  BY <1>1, <1>6, <1>8, <1>9, <1>10, StepBase

LEMMA DiskUnmountCompleteBase ==
  ASSUME Inv, Inv', Base, DiskUnmountComplete
  PROVE  Base'
<1>1. /\ daemon = "up" /\ ~Busy(Main) /\ messages' = messages /\ daemon' = daemon
      /\ reused' = reused /\ UNCHANGED <<client, notificationPort>> /\ UNCHANGED tableVars
  BY DEF DiskUnmountComplete, kernelVars, clientVars
<1>2. PICK u \in unmounting :
           \/ /\ u.op = "logoutComplete"
              /\ \E todo \in {LookUpTarget, <<>>} :
                   thread' = [thread EXCEPT ![Main] =
                        [Blank EXCEPT !.op = u.op, !.todo = todo, !.iqn = u.iqn]]
           \/ /\ u.op = "sleepComplete"
              /\ thread' = [thread EXCEPT ![Main] =
                    [Blank EXCEPT !.op = u.op, !.todo = LogoutCalls, !.iqn = u.iqn,
                                  !.sid = u.sid, !.gen = Gen(u.sid)]]
  BY DEF DiskUnmountComplete
<1>3. Main \in Threads /\ created \in Nat
  BY ThreadNames, UserClientConstants DEF Inv, KernelInv, TableInv
<1>4. ASSUME NEW todo \in {LookUpTarget, <<>>}, u.op = "logoutComplete",
             thread' = [thread EXCEPT ![Main] =
                        [Blank EXCEPT !.op = u.op, !.todo = todo, !.iqn = u.iqn]]
      PROVE  Base'
  <2> DEFINE new == [Blank EXCEPT !.op = u.op, !.todo = todo, !.iqn = u.iqn]
  <2>1. /\ new.op = u.op /\ new.todo = todo /\ new.sid = None /\ new.cid = None
        /\ new.gen = 0 /\ new.asOf = 0
    BY DEF Blank
  <2>2. thread' = [thread EXCEPT ![Main] = new]
    BY <1>4
  <2> HIDE DEF new
  <2>3. new.op \notin Lists \cup {"none", "discovery"} /\ new.op \notin Reports
    BY <1>4, <2>1 DEF Lists, Reports
  <2>4. new.op \notin Lists \cup Reports \cup {"none", "discovery"}
    BY <2>3
  <2> QED
    BY <1>1, <1>3, <1>4, <2>1, <2>2, <2>3, <2>4, BeginBase
<1>5. ASSUME u.op = "sleepComplete",
             thread' = [thread EXCEPT ![Main] =
                    [Blank EXCEPT !.op = u.op, !.todo = LogoutCalls, !.iqn = u.iqn,
                                  !.sid = u.sid, !.gen = Gen(u.sid)]]
      PROVE  Base'
  <2> DEFINE new == [Blank EXCEPT !.op = u.op, !.todo = LogoutCalls, !.iqn = u.iqn,
                                  !.sid = u.sid, !.gen = Gen(u.sid)]
  <2>1. /\ new.op = u.op /\ new.todo = LogoutCalls /\ new.sid = u.sid /\ new.gen = Gen(u.sid)
        /\ new.asOf = 0
    BY DEF Blank
  <2>2. thread' = [thread EXCEPT ![Main] = new]
    BY <1>5
  <2> HIDE DEF new
  <2>3. \A name \in Names(LogoutCalls) : Meets(new, name)
    BY <1>5, <2>1, LogoutList DEF Meets, Lists, Reports, Talk, Sets
  <2>4. Proper(Main, new) /\ Sound(thread[Main], new)
    BY <1>3, <1>5, <2>1, <2>3, LogoutList DEF Proper, Suits, Sound, Lists, Reports
  <2> QED
    BY <1>1, <1>3, <2>2, <2>4, TableFades, ThreadBase
<1> QED
  BY <1>2, <1>4, <1>5

LEMMA RestartBase ==
  ASSUME Inv, Inv', Base, Restart
  PROVE  Base'
<1>1. /\ UNCHANGED tableVars /\ UNCHANGED <<messages, thread, atStart, reused>>
      /\ \/ daemon = "down" /\ daemon' = "opened" /\ client' = TRUE
            /\ notificationPort' = notificationPort
         \/ daemon = "opened" /\ daemon' = "up" /\ client' = client /\ notificationPort' = TRUE
  BY DEF Restart, OpenInitiator, RegisterNotificationPort, kernelVars
<1>2. Fades /\ TableInv /\ TableInv'
  BY <1>1, TableFades DEF Inv, KernelInv
<1>3. ShapeInv'
  BY <1>1 DEF Base, ShapeInv, Proper, Suits, tableVars
<1>4. DaemonState'
  BY <1>1 DEF Base, DaemonState, tableVars
<1>5. Sorted'
  BY <1>2, FadesSorted DEF Base
<1>6. \A s : (Exists(s)' <=> Exists(s)) /\ Gen(s)' = Gen(s)
  BY <1>1, SameSlots DEF tableVars
<1>7. PlacedInv' /\ KnownInv'
  BY <1>1, <1>6 DEF Base, PlacedInv, KnownInv, Placed, Known, Exists, Gen, tableVars
<1> QED
  BY <1>3, <1>4, <1>5, <1>7 DEF Base

\* The kernel's own steps.
LEMMA KernelStepBase ==
  ASSUME Inv, Inv', Base, ConnectionLost \/ SessionDropped, UNCHANGED thread, UNCHANGED daemonVars
  PROVE  Base' /\ Fades /\ UNCHANGED <<client, notificationPort>>
<1>1. /\ TableInv /\ TableInv' /\ Sorted /\ daemon' = daemon /\ atStart' = atStart
      /\ reused' = reused /\ UNCHANGED <<client, notificationPort>>
  BY DEF ConnectionLost, SessionDropped, Inv, KernelInv, Base, clientVars, daemonVars
<1>2. Fades /\ (messages' = messages \/ \E s : Exists(s) /\ Told(s))
  <2>1. CASE SessionDropped
    BY <1>1, <2>1, ReleaseSessionEffect DEF SessionDropped
  <2>2. CASE ConnectionLost
    <3>1. PICK sid \in Slots : \E cid \in Active(sid) : HandleConnectionTimeout(sid, cid)
      BY <2>2 DEF ConnectionLost
    <3>2. PICK cid \in Connections(sid) : HandleConnectionTimeout(sid, cid)
      BY <3>1 DEF Active
    <3>3. CASE client
      <4>1. Fades /\ Exists(sid)
        BY <1>1, <3>2, <3>3, SetActiveFades, ConnectionOf DEF HandleConnectionTimeout
      <4>2. Told(sid)
        BY <3>2, <3>3 DEF HandleConnectionTimeout, SendTimeoutMessage, Told
      <4> QED
        BY <4>1, <4>2
    <3>4. CASE ~client
      BY <1>1, <3>2, <3>4, ReleaseConnectionEffect DEF HandleConnectionTimeout
    <3> QED
      BY <3>3, <3>4
  <2> QED
    BY <2>1, <2>2
<1>3. \A i \in 1 .. Len(messages') : Placed(messages'[i]) /\ (~reused => Known(messages'[i]))
  BY <1>2, MessagesKnown DEF Base, PlacedInv, KnownInv
<1>4. created' = created
  BY <1>2 DEF Fades
<1>5. ShapeInv'
  BY <1>4 DEF Base, ShapeInv, Proper, Suits
<1>6. DaemonState'
  BY <1>1, <1>4 DEF Base, DaemonState
<1>7. Sorted'
  BY <1>1, <1>2, FadesSorted
<1>8. PlacedInv'
  BY <1>1, <1>2, <1>3, FadesKnown DEF Base, PlacedInv, Placed
<1>9. KnownInv'
  <2>1. ASSUME NEW x, Known(x), Exists(x.sid)'
        PROVE  Gen(x.sid)' = x.gen
    <3>1. x.sid \in Slots
      BY <2>1 DEF Exists
    <3> QED
      BY <1>1, <1>2, <2>1, <3>1, FadesKnown
  <2> QED
    BY <1>1, <1>3, <2>1 DEF Base, KnownInv, Known
<1> QED
  BY <1>1, <1>2, <1>5, <1>6, <1>7, <1>8, <1>9 DEF Base

-----------------------------------------------------------------------------
(* Every step keeps what the threads know.                                 *)

LEMMA InitBase == Init => Base
<1> SUFFICES ASSUME Init PROVE Base
  OBVIOUS
<1>1. /\ \A t \in Threads : thread[t] = Blank
      /\ messages = <<>> /\ created = 0 /\ daemon = "up" /\ client /\ notificationPort
      /\ \A s \in Slots : ~Exists(s)
      /\ \A iqn \in IQNs : targetList[iqn] = None
  BY DEF Init, UserClientInit, Exists
<1>2. \A s \in Slots : Gen(s) = 0
  BY <1>1 DEF Gen
<1>3. /\ Blank.todo = <<>> /\ Blank.op = "none" /\ Blank.sid = None /\ Blank.gen = 0
      /\ Blank.asOf = 0
  BY DEF Blank
<1>4. ShapeInv
  BY <1>1, <1>3, OrderlyNone DEF ShapeInv, Proper, Suits, Lists, Reports
<1>5. DaemonState
  BY <1>1 DEF DaemonState
<1>6. Sorted
  BY <1>1, <1>2 DEF Sorted
<1>7. PlacedInv /\ KnownInv
  BY <1>1, <1>3, NoNumber DEF PlacedInv, KnownInv, Placed, Known
<1> QED
  BY <1>4, <1>5, <1>6, <1>7 DEF Base

LEMMA ThreadStepBase ==
  ASSUME Inv, Inv', Base, NEW t \in Threads, ThreadStep(t)
  PROVE  Base'
<1>1. CASE LookUpSession(t)
  BY <1>1, LookUpSessionBase
<1>2. CASE LookUpConnection(t)
  BY <1>2, LookUpConnectionBase
<1>3. CASE Create(t)
  BY <1>3, CreateBase
<1>4. CASE AddConnection(t)
  BY <1>4, AddConnectionBase
<1>5. CASE Exchange(t)
  BY <1>5, ExchangeBase
<1>6. CASE Query(t)
  BY <1>6, QueryBase
<1>7. CASE SetParameter(t)
  BY <1>7, SetParameterBase
<1>8. CASE Activate(t)
  BY <1>8, ActivateBase
<1>9. CASE Deactivate(t)
  BY <1>9, DeactivateBase
<1>10. CASE LogoutExchange(t)
  BY <1>10, LogoutExchangeBase
<1>11. CASE Release(t)
  BY <1>11, ReleaseBase
<1>12. CASE LogoutUnmounts(t)
  BY <1>12, LogoutUnmountsBase
<1>13. CASE LogoutOfPortal(t)
  BY <1>13, LogoutOfPortalBase
<1>14. CASE ReadParameter(t)
  BY <1>14, ReadParameterBase
<1>15. CASE ListSessions(t)
  BY <1>15, ListSessionsBase
<1>16. CASE ListTarget(t)
  BY <1>16, ListTargetBase
<1>17. CASE SleepTarget(t)
  BY <1>17, SleepTargetBase
<1>18. CASE SleepSession(t)
  BY <1>18, SleepSessionBase
<1>19. CASE CopyTarget(t)
  BY <1>19, CopyTargetBase
<1>20. CASE CopyPortal(t)
  BY <1>20, CopyPortalBase
<1>21. CASE TimeoutCallback(t)
  BY <1>21, TimeoutCallbackBase
<1>22. CASE NextLogin(t)
  BY <1>22, NextLoginBase
<1>23. CASE Return(t)
  BY <1>23, ReturnBase
<1> QED
  BY <1>1, <1>2, <1>3, <1>4, <1>5, <1>6, <1>7, <1>8, <1>9, <1>10, <1>11, <1>12, <1>13, <1>14, <1>15, <1>16, <1>17, <1>18, <1>19, <1>20, <1>21, <1>22, <1>23 DEF ThreadStep

\* What the run loop and the discovery thread begin.
Begins ==
  \E t, op, todo, iqn, portal :
    /\ t \in Threads /\ Begin(t, op, todo, iqn, portal) /\ OnlyThread
    /\ \/ todo = <<Call("GetSessionIds")>> /\ op \in Lists /\ t = Main
       \/ todo = <<>> /\ op = "wake" /\ t = Main
       \/ todo = LookUpTarget /\ op \in OfTarget \cup OfPortal /\ iqn \in Targets /\ t = Main
       \/ todo = <<Call("CreateSession")>> /\ op = "discovery" /\ iqn = DiscoveryIQN /\ t = Discovery

LEMMA NextCases ==
  ASSUME [Next]_vars
  PROVE  \/ \E t \in Threads : ThreadStep(t)
         \/ Begins
         \/ HandleNotification
         \/ DiskUnmountComplete
         \/ Restart
         \/ (ConnectionLost \/ SessionDropped) /\ UNCHANGED thread /\ UNCHANGED daemonVars
         \/ UNCHANGED vars
<1>1. CASE \E op \in OfTarget, iqn \in Targets : Request(op, iqn, None)
  BY <1>1, ThreadNames DEF Request, Begins
<1>2. CASE \E op \in OfPortal, iqn \in Targets, portal \in Portals : Request(op, iqn, portal)
  BY <1>2, ThreadNames DEF Request, Begins
<1>3. CASE ListActiveTargets
  BY <1>3, ThreadNames DEF ListActiveTargets, Begins, Lists
<1>4. CASE Sleep
  BY <1>4, ThreadNames DEF Sleep, Begins, Lists
<1>5. CASE Wake
  BY <1>5, ThreadNames DEF Wake, Begins
<1>6. CASE Discover
  BY <1>6, ThreadNames DEF Discover, Begins
<1> QED
  BY <1>1, <1>2, <1>3, <1>4, <1>5, <1>6 DEF Next

LEMMA StepBaseKept == Inv /\ Base /\ [Next]_vars => Base'
<1> SUFFICES ASSUME Inv, Base, [Next]_vars PROVE Base'
  OBVIOUS
<1>1. Inv'
  BY StepInv
<1>2. CASE \E t \in Threads : ThreadStep(t)
  BY <1>1, <1>2, ThreadStepBase
<1>3. CASE Begins
  BY <1>1, <1>3, RequestBase DEF Begins
<1>4. CASE HandleNotification
  BY <1>1, <1>4, HandleNotificationBase
<1>5. CASE DiskUnmountComplete
  BY <1>1, <1>5, DiskUnmountCompleteBase
<1>6. CASE Restart
  BY <1>1, <1>6, RestartBase
<1>7. CASE (ConnectionLost \/ SessionDropped) /\ UNCHANGED thread /\ UNCHANGED daemonVars
  BY <1>1, <1>7, KernelStepBase
<1>8. CASE UNCHANGED vars
  BY <1>8 DEF vars, kernelVars, tableVars, clientVars, daemonVars, Base, ShapeInv, DaemonState,
     Sorted, PlacedInv, KnownInv, Proper, Suits, Placed, Known, Exists, Gen
<1> QED
  BY <1>2, <1>3, <1>4, <1>5, <1>6, <1>7, <1>8, NextCases

LEMMA AlwaysBase == Spec => [](Inv /\ Base)
<1>1. Init => Inv /\ Base
  BY InitInv, InitBase
<1>2. Inv /\ Base /\ [Next]_vars => (Inv /\ Base)'
  BY StepInv, StepBaseKept
<1> QED
  BY <1>1, <1>2, PTL DEF Spec

-----------------------------------------------------------------------------
(* Steps after which there is no more than before.                         *)

\* Sessions and connections go; those that stay keep their parameters, and none
\* becomes active.
Lessens ==
  /\ Fades
  /\ \A s \in Slots : Exists(s)' =>
       /\ Exists(s) /\ Gen(s)' = Gen(s)
       /\ sessionList'[s].parameters = sessionList[s].parameters
       /\ Connections(s)' \subseteq Connections(s) /\ Active(s)' \subseteq Active(s)
       /\ \A c \in Connections(s)' : sessionList'[s].connections[c].parameters
                                        = sessionList[s].connections[c].parameters

\* No session that stays loses a connection.
Keeps == Lessens /\ \A s \in Slots : Exists(s)' => Connections(s)' = Connections(s)

LEMMA SameKeeps ==
  ASSUME Fades, sessionList' = sessionList
  PROVE  Keeps
<1>1. \A s : /\ Exists(s)' <=> Exists(s)
             /\ Gen(s)' = Gen(s) /\ Connections(s)' = Connections(s) /\ Active(s)' = Active(s)
  BY SameSlots
<1> QED
  BY <1>1 DEF Keeps, Lessens

LEMMA DeactivatedKeeps ==
  ASSUME Inv, Base, NEW sid, NEW cids, SetActive(sid, cids, FALSE)
  PROVE  Keeps
<1>1. TableInv /\ Sorted
  BY DEF Inv, KernelInv, Base
<1>2. /\ \A s \in Slots \ {sid} : sessionList'[s] = sessionList[s]
      /\ \A s \in Slots : /\ Exists(s)' <=> Exists(s)
                          /\ Gen(s)' = Gen(s) /\ Connections(s)' = Connections(s)
                          /\ sessionList'[s].parameters = sessionList[s].parameters
                          /\ \A c \in Connections(s) :
                               sessionList'[s].connections[c].parameters =
                                  sessionList[s].connections[c].parameters
      /\ Active(sid)' = Active(sid) \ cids
  BY <1>1, SetActiveEffect
<1>3. Fades
  BY SetActiveFades
<1>4. \A s \in Slots \ {sid} : Active(s)' = Active(s)
  BY <1>2, SameSlot
<1> QED
  BY <1>2, <1>3, <1>4 DEF Keeps, Lessens

LEMMA ReleasedKeeps ==
  ASSUME Inv, Base, NEW sid, ReleaseSession(sid)
  PROVE  Keeps
<1>1. TableInv /\ Sorted
  BY DEF Inv, KernelInv, Base
<1>2. /\ \A s \in Slots \ {sid} : sessionList'[s] = sessionList[s]
      /\ ~Exists(sid)' /\ Fades
  BY <1>1, ReleaseSessionEffect
<1>3. \A s \in Slots \ {sid} :
        /\ Exists(s)' <=> Exists(s)
        /\ Gen(s)' = Gen(s) /\ Connections(s)' = Connections(s) /\ Active(s)' = Active(s)
  BY <1>2, SameSlot
<1> QED
  BY <1>2, <1>3 DEF Keeps, Lessens

LEMMA ConnectionReleasedLessens ==
  ASSUME Inv, Base, NEW sid, NEW cid, ReleaseConnection(sid, cid)
  PROVE  Lessens
<1>1. TableInv /\ Sorted
  BY DEF Inv, KernelInv, Base
<1>2. CASE Cardinality(Connections(sid)) = 1
  BY <1>2, ReleasedKeeps DEF ReleaseConnection, Keeps
<1>3. CASE Cardinality(Connections(sid)) # 1
  <2>1. /\ \A s \in Slots \ {sid} : sessionList'[s] = sessionList[s]
        /\ Exists(sid)' <=> Exists(sid)
        /\ Exists(sid) =>
             /\ Gen(sid)' = Gen(sid)
             /\ sessionList'[sid].parameters = sessionList[sid].parameters
             /\ Connections(sid)' = Connections(sid) \ {cid}
             /\ Active(sid)' = Active(sid) \ {cid}
             /\ \A c \in Connections(sid) \ {cid} :
                  sessionList'[sid].connections[c] = sessionList[sid].connections[c]
        /\ Fades
    BY <1>1, <1>3, ReleaseConnectionEffect
  <2>2. \A s \in Slots \ {sid} :
          /\ Exists(s)' <=> Exists(s)
          /\ Gen(s)' = Gen(s) /\ Connections(s)' = Connections(s) /\ Active(s)' = Active(s)
    BY <2>1, SameSlot
  <2> QED
    BY <2>1, <2>2 DEF Lessens
<1> QED
  BY <1>2, <1>3

\* A connection of a session is lost while the daemon is up: a message tells of it.
Loses(s) ==
  /\ Exists(s) /\ Keeps
  /\ \A r \in Slots \ {s} : sessionList'[r] = sessionList[r]
  /\ \E m : m.gen = Gen(s) /\ messages' = Append(messages, m)

LEMMA LossLoses ==
  ASSUME Inv, Base, daemon = "up", NEW sid, NEW cid \in Connections(sid),
         HandleConnectionTimeout(sid, cid)
  PROVE  Loses(sid)
<1>1. client /\ notificationPort /\ TableInv
  BY DEF Base, DaemonState, Inv, KernelInv
<1>2. PICK cids : SetActive(sid, cids, FALSE)
  BY <1>1 DEF HandleConnectionTimeout
<1>3. messages' = Append(messages, [sid |-> sid, cid |-> cid, gen |-> Gen(sid)])
  BY <1>1 DEF HandleConnectionTimeout, SendTimeoutMessage
<1>4. \A r \in Slots \ {sid} : sessionList'[r] = sessionList[r]
  BY <1>1, <1>2, SetActiveEffect
<1>5. Exists(sid)
  BY DEF Connections
<1>6. [sid |-> sid, cid |-> cid, gen |-> Gen(sid)].gen = Gen(sid)
  OBVIOUS
<1> QED
  BY <1>2, <1>3, <1>4, <1>5, <1>6, DeactivatedKeeps DEF Loses

\* The daemon is not up, or dies: nobody knows of anything.
Rests ==
  /\ Lessens /\ \A t \in Threads : thread'[t] = Blank
  /\ atStart' = created' /\ reused' = reused

LEMMA CrashRests ==
  ASSUME Inv, Base, Crash
  PROVE  Rests
<1>1. /\ UNCHANGED tableVars /\ thread' = [t \in Threads |-> Blank]
      /\ atStart' = created /\ reused' = reused
  BY DEF Crash, ClientDied, kernelVars
<1>2. Fades /\ sessionList' = sessionList /\ created' = created
  BY <1>1, TableFades DEF tableVars
<1> QED
  BY <1>1, <1>2, SameKeeps DEF Rests, Keeps

LEMMA RestartRests ==
  ASSUME Inv, Base, Restart
  PROVE  Rests
<1>1. /\ UNCHANGED tableVars /\ UNCHANGED <<thread, atStart, reused>> /\ daemon # "up"
  BY DEF Restart, OpenInitiator, RegisterNotificationPort, kernelVars
<1>2. Fades /\ sessionList' = sessionList /\ created' = created
  BY <1>1, TableFades DEF tableVars
<1>3. (\A t \in Threads : thread[t] = Blank) /\ atStart = created
  BY <1>1 DEF Base, DaemonState
<1> QED
  BY <1>1, <1>2, <1>3, SameKeeps DEF Rests, Keeps

\* The kernel's own steps: with a daemon, a message tells of a loss.
LEMMA KernelStepKinds ==
  ASSUME Inv, Base, ConnectionLost \/ SessionDropped, UNCHANGED thread, UNCHANGED daemonVars
  PROVE  /\ atStart' = atStart /\ reused' = reused /\ activeTargets' = activeTargets
         /\ \/ Rests
            \/ daemon = "up" /\ \E s : Loses(s)
            \/ daemon = "up" /\ messages' = messages /\ \E s : ReleaseSession(s)
<1>1. /\ atStart' = atStart /\ reused' = reused /\ activeTargets' = activeTargets
  BY DEF daemonVars
<1>2. (client <=> daemon # "down")
      /\ (daemon # "up" => (\A t \in Threads : thread[t] = Blank) /\ atStart = created)
  BY DEF Base, DaemonState
<1>3. Lessens /\ (daemon = "up" => \/ \E s : Loses(s)
                                   \/ messages' = messages /\ \E s : ReleaseSession(s))
  <2>1. CASE SessionDropped
    BY <2>1, ReleasedKeeps DEF SessionDropped, Keeps
  <2>2. CASE ConnectionLost
    <3>1. PICK sid \in Slots : \E cid \in Active(sid) : HandleConnectionTimeout(sid, cid)
      BY <2>2 DEF ConnectionLost
    <3>2. PICK cid \in Connections(sid) : HandleConnectionTimeout(sid, cid)
      BY <3>1 DEF Active
    <3>3. CASE daemon = "up"
      BY <3>2, <3>3, LossLoses DEF Loses, Keeps
    <3>4. CASE daemon # "up" /\ client
      <4>1. PICK cids : SetActive(sid, cids, FALSE)
        BY <3>2, <3>4 DEF HandleConnectionTimeout
      <4> QED
        BY <3>4, <4>1, DeactivatedKeeps DEF Keeps
    <3>5. CASE ~client
      BY <1>2, <3>2, <3>5, ConnectionReleasedLessens DEF HandleConnectionTimeout
    <3> QED
      BY <3>3, <3>4, <3>5
  <2> QED
    BY <2>1, <2>2
<1>4. created' = created
  BY <1>3 DEF Lessens, Fades
<1> QED
  BY <1>1, <1>2, <1>3, <1>4 DEF Rests

-----------------------------------------------------------------------------
(* Steps by which a thread only goes on.                                   *)

Talks(th) == Names(th.todo) \cap Talk # {}

\* The thread will see to it that its session becomes active or is released.
InCharge(th) == \/ Has(th, "ReleaseSession") \/ Has(th, "ActivateConnection")
                \/ (th.op = "timeout" /\ Has(th, "ReleaseConnection"))

\* A login has added a connection, which it will release.
Adding(th) == LogsIn(th.op) /\ Has(th, "ReleaseConnection")

\* Nothing is begun, and nothing that matters to others is over.
Calm(th, new) ==
  /\ ~Talks(new)
  /\ InCharge(th) => InCharge(new) /\ new.gen = th.gen
  /\ Adding(th) => Adding(new) /\ new.sid = th.sid /\ new.cid = th.cid
  /\ new.op \in Reports => new.sid = None
  /\ new.op = "sleep" => new.todo = <<Call("GetSessionIds")>>

Turns(t) ==
  \E new : /\ thread' = [thread EXCEPT ![t] = new] /\ Calm(thread[t], new)
           /\ sessionList' = sessionList /\ Fades /\ messages' = messages
           /\ atStart' = atStart /\ reused' = reused
           /\ t # Main => activeTargets' = activeTargets

\* A thread that has nothing in its hands.
LEMMA FreeCalm ==
  ASSUME NEW th, NEW new,
         Names(th.todo) \cap {"ReleaseSession", "ActivateConnection", "ReleaseConnection"} = {},
         ~Talks(new), new.op \in Reports => new.sid = None,
         new.op = "sleep" => new.todo = <<Call("GetSessionIds")>>
  PROVE  Calm(th, new)
<1>1. ~InCharge(th) /\ ~Adding(th)
  BY DEF InCharge, Adding, Has
<1> QED
  BY <1>1 DEF Calm

LEMMA AloneFree ==
  ASSUME Inv, Base, NEW t \in Threads, NEW name \in Alone \cup {"timeoutCallback"}, At(t, name)
  PROVE  Names(thread[t].todo) \cap {"ReleaseSession", "ActivateConnection", "ReleaseConnection"} = {}
<1>1. Names(thread[t].todo) = {name}
  BY AloneIsAll
<1> QED
  BY <1>1 DEF Alone

LEMMA QuietOf ==
  /\ ~Talks(Blank) /\ Blank.op \notin Reports /\ Blank.op # "sleep"
  /\ Names(Blank.todo) = {}
  /\ \A new : new.todo = <<>> => ~Talks(new)
  /\ \A new, name : new.todo = <<Call(name)>> /\ name \notin Talk => ~Talks(new)
<1>1. Blank.todo = <<>> /\ Blank.op = "none"
  BY DEF Blank
<1>2. Names(<<>>) = {}
  BY OrderlyNone
<1>3. \A new : new.todo = <<>> => ~Talks(new)
  BY <1>2 DEF Talks
<1>4. ASSUME NEW new, NEW name, new.todo = <<Call(name)>>, name \notin Talk
      PROVE  ~Talks(new)
  <2>1. Names(new.todo) = {name}
    BY <1>4, OneCall
  <2> QED
    BY <1>4, <2>1 DEF Talks
<1> QED
  BY <1>1, <1>2, <1>3, <1>4 DEF Reports

\* The thread goes on with what is left.
LEMMA RestCalm ==
  ASSUME Inv, Base, NEW t \in Threads, NEW name, At(t, name),
         name \notin Sets \cup {"exchange", "ReleaseSession", "ReleaseConnection", "ActivateConnection"},
         thread[t].op \notin Reports \cup {"sleep"},
         NEW new, Names(new.todo) = Names(Rest(t)) \/ Names(new.todo) = {"query"} \cup Names(Rest(t)),
         new.op = thread[t].op, new.gen = thread[t].gen, new.sid = thread[t].sid,
         new.cid = thread[t].cid \/ name = "GetConnection"
  PROVE  Calm(thread[t], new)
<1>1. /\ Names(thread[t].todo) = {name} \cup Names(Rest(t))
      /\ \A other \in Names(Rest(t)) : Follows(name, other)
  BY RestKnows
<1>2. ~Talks(new)
  BY <1>1 DEF Talks, Talk, Sets, Follows
<1>3. InCharge(thread[t]) => InCharge(new)
  BY <1>1 DEF InCharge, Has
<1>4. Adding(thread[t]) => Adding(new) /\ name # "GetConnection"
  BY <1>1 DEF Adding, Has, Follows
<1> QED
  BY <1>2, <1>3, <1>4 DEF Calm

LEMMA OnlyThreadTurns ==
  ASSUME Inv, Base, NEW t, NEW new, thread' = [thread EXCEPT ![t] = new], OnlyThread,
         Calm(thread[t], new)
  PROVE  Turns(t)
BY OnlyThreadFades DEF Turns, tableVars

LEMMA LogoutExchangeTurns ==
  ASSUME Inv, Base, NEW t \in Threads, LogoutExchange(t)
  PROVE  Turns(t)
<1> DEFINE cid == GetConnection(thread[t].sid)
           th == [thread[t] EXCEPT !.cid = cid]
<1>1. At(t, "GetConnection") /\ OnlyThread
      /\ (IF cid = None THEN Continue(t, Rest(t)) ELSE Go(t, <<Call("query")>> \o Rest(t), th))
  BY DEF LogoutExchange
<1>2. thread[t] \in Thread /\ Meets(thread[t], "GetConnection")
  BY <1>1, AtKnows
<1>3. thread[t].op \notin Reports \cup {"sleep"}
  BY <1>2 DEF Meets, ListCalls, ReportCalls, Lists
<1>4. "GetConnection" \notin Sets \cup {"exchange", "ReleaseSession", "ReleaseConnection", "ActivateConnection"}
  BY DEF Sets
<1> HIDE DEF cid
<1>5. CASE cid = None
  <2> DEFINE new == [thread[t] EXCEPT !.todo = Rest(t)]
  <2>1. new.todo = Rest(t) /\ new.op = thread[t].op /\ new.gen = thread[t].gen
        /\ new.sid = thread[t].sid /\ new.cid = thread[t].cid
    BY <1>2, TodoOf
  <2>2. thread' = [thread EXCEPT ![t] = new]
    BY <1>1, <1>5, ContinueGo DEF Go
  <2> HIDE DEF new
  <2>3. Calm(thread[t], new)
    BY <1>1, <1>3, <1>4, <2>1, RestCalm
  <2> QED
    BY <1>1, <2>2, <2>3, OnlyThreadTurns
<1>6. CASE cid # None
  <2> DEFINE new == [th EXCEPT !.todo = <<Call("query")>> \o Rest(t)]
  <2>1. new.todo = <<Call("query")>> \o Rest(t) /\ new.op = thread[t].op /\ new.gen = thread[t].gen
        /\ new.sid = thread[t].sid
    BY <1>2 DEF Thread
  <2>2. thread' = [thread EXCEPT ![t] = new]
    BY <1>1, <1>6 DEF Go
  <2> HIDE DEF new
  <2>3. Names(new.todo) = {"query"} \cup Names(Rest(t))
    BY <1>1, <2>1, QueryFirst
  <2>4. Calm(thread[t], new)
    BY <1>1, <1>3, <1>4, <2>1, <2>3, RestCalm
  <2> QED
    BY <1>1, <2>2, <2>4, OnlyThreadTurns
<1> QED
  BY <1>5, <1>6

LEMMA LogoutUnmountsTurns ==
  ASSUME Inv, Base, NEW t \in Threads, LogoutUnmounts(t)
  PROVE  Turns(t)
<1>1. /\ At(t, "unmount") /\ thread' = [thread EXCEPT ![t] = Blank]
      /\ UNCHANGED tableVars /\ reused' = reused /\ messages' = messages
      /\ activeTargets' = activeTargets /\ atStart' = atStart
  BY DEF LogoutUnmounts, kernelVars
<1>2. "unmount" \in Alone
  BY DEF Alone
<1>3. Calm(thread[t], Blank)
  BY <1>1, <1>2, AloneFree, QuietOf, FreeCalm
<1> QED
  BY <1>1, <1>3, TableFades DEF Turns, tableVars

LEMMA LogoutOfPortalTurns ==
  ASSUME Inv, Base, NEW t \in Threads, LogoutOfPortal(t)
  PROVE  Turns(t) \/ Crash
<1> DEFINE th == [thread[t] EXCEPT !.op = "logout"]
           todo == IF Cardinality(GetConnectionIds(thread[t].sid)) = 1 THEN <<Call("unmount")>>
                   ELSE RemoveConnectionCalls
           new == [th EXCEPT !.todo = todo]
<1>1. /\ At(t, "GetConnectionIds")
      /\ Crash \/ (Go(t, todo, th) /\ OnlyThread)
  BY DEF LogoutOfPortal
<1>2. CASE Go(t, todo, th) /\ OnlyThread
  <2>1. thread[t] \in Thread
    BY <1>1, AtKnows
  <2>2. new.todo = todo /\ new.op = "logout"
    BY <2>1 DEF Thread
  <2>3. thread' = [thread EXCEPT ![t] = new]
    BY <1>2 DEF Go
  <2>4. todo \in {<<>>, <<Call("unmount")>>}
    BY DEF RemoveConnectionCalls
  <2> HIDE DEF new, todo
  <2>5. ~Talks(new)
    BY <2>2, <2>4, QuietOf DEF Talk, Sets
  <2>6. Calm(thread[t], new)
    BY <1>1, <2>2, <2>5, AloneFree, FreeCalm DEF Alone, Reports
  <2> QED
    BY <1>2, <2>3, <2>6, OnlyThreadTurns
<1> QED
  BY <1>1, <1>2

LEMMA ListTargetTurns ==
  ASSUME Inv, Base, NEW t \in Threads, ListTarget(t)
  PROVE  Turns(t) \/ Crash
<1> DEFINE th == [thread[t] EXCEPT !.ids = Tail(@)]
           todo == IF Tail(thread[t].ids) = <<>> THEN <<>> ELSE ForEachSession
           new == [th EXCEPT !.todo = todo]
<1>1. /\ At(t, "GetTargetIQNForSessionId") /\ thread[t].op = "listTargets"
      /\ Crash \/ (Go(t, todo, th) /\ OnlyThread)
  BY DEF ListTarget
<1>2. CASE Go(t, todo, th) /\ OnlyThread
  <2>1. thread[t] \in Thread
    BY <1>1, AtKnows
  <2>2. new.todo = todo /\ new.op = "listTargets"
    BY <1>1, <2>1 DEF Thread
  <2>3. thread' = [thread EXCEPT ![t] = new]
    BY <1>2 DEF Go
  <2>4. todo \in {<<>>, <<Call("GetTargetIQNForSessionId")>>}
    BY DEF ForEachSession
  <2> HIDE DEF new, todo
  <2>5. ~Talks(new)
    BY <2>2, <2>4, QuietOf DEF Talk, Sets
  <2>6. \A name \in Names(thread[t].todo) : name \in ListCalls
    BY <1>1 DEF Base, ShapeInv, Proper, Meets, Lists
  <2>7. Names(thread[t].todo) \cap {"ReleaseSession", "ActivateConnection", "ReleaseConnection"} = {}
    BY <2>6 DEF ListCalls
  <2>8. Calm(thread[t], new)
    BY <2>2, <2>5, <2>7, FreeCalm DEF Reports
  <2> QED
    BY <1>2, <2>3, <2>8, OnlyThreadTurns
<1> QED
  BY <1>1, <1>2

LEMMA CopyTargetTurns ==
  ASSUME Inv, Base, NEW t \in Threads, CopyTarget(t)
  PROVE  Turns(t) \/ Crash
<1> DEFINE th == thread[t]
<1>1. At(t, "GetTargetIQNForSessionId")
  BY DEF CopyTarget
<1>2. PICK iqn : \/ th.op = "timeout" /\ Go(t, Rest(t), [th EXCEPT !.iqn = iqn]) /\ OnlyThread
                 \/ LogsIn(th.op) /\ (Crash \/ (Continue(t, Rest(t)) /\ OnlyThread))
  BY DEF CopyTarget
<1>3. th \in Thread
  BY <1>1, AtKnows
<1>4. th.op \notin Reports \cup {"sleep"}
  BY <1>2 DEF LogsIn, Reports
<1>5. "GetTargetIQNForSessionId" \notin
         Sets \cup {"exchange", "ReleaseSession", "ReleaseConnection", "ActivateConnection"}
  BY DEF Sets
<1>6. CASE Go(t, Rest(t), [th EXCEPT !.iqn = iqn]) /\ OnlyThread
  <2> DEFINE new == [[th EXCEPT !.iqn = iqn] EXCEPT !.todo = Rest(t)]
  <2>1. new.todo = Rest(t) /\ new.op = th.op /\ new.gen = th.gen
        /\ new.sid = th.sid /\ new.cid = th.cid
    BY <1>3 DEF Thread
  <2>2. thread' = [thread EXCEPT ![t] = new]
    BY <1>6 DEF Go
  <2> HIDE DEF new
  <2>3. Calm(th, new)
    BY <1>1, <1>4, <1>5, <2>1, RestCalm
  <2> QED
    BY <1>6, <2>2, <2>3, OnlyThreadTurns
<1>7. CASE Continue(t, Rest(t)) /\ OnlyThread
  <2> DEFINE new == [th EXCEPT !.todo = Rest(t)]
  <2>1. new.todo = Rest(t) /\ new.op = th.op /\ new.gen = th.gen
        /\ new.sid = th.sid /\ new.cid = th.cid
    BY <1>3, TodoOf
  <2>2. thread' = [thread EXCEPT ![t] = new]
    BY <1>7, ContinueGo DEF Go
  <2> HIDE DEF new
  <2>3. Calm(th, new)
    BY <1>1, <1>4, <1>5, <2>1, RestCalm
  <2> QED
    BY <1>7, <2>2, <2>3, OnlyThreadTurns
<1> QED
  BY <1>2, <1>6, <1>7

LEMMA CopyPortalTurns ==
  ASSUME Inv, Base, NEW t \in Threads, CopyPortal(t)
  PROVE  Turns(t)
<1> DEFINE th == thread[t]
           portal == GetPortalForConnectionId(th.sid, th.cid)
           new == [[th EXCEPT !.portal = portal] EXCEPT !.todo = Rest(t)]
<1>1. /\ At(t, "GetPortalForConnectionId") /\ Go(t, Rest(t), [th EXCEPT !.portal = portal])
      /\ OnlyThread
  BY DEF CopyPortal
<1>2. th \in Thread /\ th.op = "timeout"
  BY <1>1, AtKnows DEF Ready
<1> HIDE DEF portal
<1>3. /\ new.todo = Rest(t) /\ new.op = th.op /\ new.gen = th.gen
      /\ new.sid = th.sid /\ new.cid = th.cid
  BY <1>2 DEF Thread
<1>4. thread' = [thread EXCEPT ![t] = new]
  BY <1>1 DEF Go
<1> HIDE DEF new
<1>5. Calm(th, new)
  BY <1>1, <1>2, <1>3, RestCalm DEF Sets, Reports
<1> QED
  BY <1>1, <1>4, <1>5, OnlyThreadTurns

LEMMA TimeoutCallbackTurns ==
  ASSUME Inv, Base, NEW t \in Threads, TimeoutCallback(t)
  PROVE  Turns(t) \/ Crash
<1> DEFINE th == thread[t]
           login == [Blank EXCEPT !.op = "login", !.todo = LookUpTarget,
                                  !.iqn = th.iqn, !.portal = th.portal]
           done == [th EXCEPT !.todo = <<>>]
<1>1. /\ At(t, "timeoutCallback")
      /\ \/ Crash
         \/ Continue(t, <<>>) /\ OnlyThread
         \/ thread' = [thread EXCEPT ![t] = login] /\ OnlyThread
  BY DEF TimeoutCallback
<1>2. /\ Names(th.todo) \cap {"ReleaseSession", "ActivateConnection", "ReleaseConnection"} = {}
      /\ th \in Thread /\ th.op = "timeout"
  BY <1>1, AloneFree, AtKnows DEF Ready
<1>3. done.todo = <<>> /\ done.op = "timeout"
  BY <1>2, TodoOf
<1>4. Continue(t, <<>>) => thread' = [thread EXCEPT ![t] = done]
  BY ContinueGo DEF Go
<1>5. login.todo = <<Call("GetSessionIdForTargetIQN")>> /\ login.op = "login"
  BY DEF Blank, LookUpTarget
<1> HIDE DEF login, done
<1>6. Calm(th, done)
  BY <1>2, <1>3, QuietOf, FreeCalm DEF Reports
<1>7. Calm(th, login)
  <2>1. ~Talks(login)
    BY <1>5, QuietOf DEF Talk, Sets
  <2> QED
    BY <1>2, <1>5, <2>1, FreeCalm DEF Reports
<1> QED
  BY <1>1, <1>4, <1>6, <1>7, OnlyThreadTurns

LEMMA NextLoginTurns ==
  ASSUME Inv, Base, NEW t \in Threads, NextLogin(t)
  PROVE  Turns(t)
<1>1. /\ thread[t].op = "wake" /\ thread[t].todo = <<>>
      /\ messages' = messages /\ reused' = reused /\ atStart' = atStart /\ UNCHANGED tableVars
  BY DEF NextLogin, kernelVars
<1>2. t = Main
  BY <1>1, ThreadNames DEF Inv, ThreadsInv
<1>3. Names(thread[t].todo) = {}
  BY <1>1, OrderlyNone
<1>4. Fades /\ sessionList' = sessionList
  BY <1>1, TableFades DEF tableVars
<1>5. CASE thread' = [thread EXCEPT ![t] = Blank]
  <2>1. Calm(thread[t], Blank)
    BY <1>3, QuietOf, FreeCalm
  <2> QED
    BY <1>1, <1>2, <1>4, <1>5, <2>1 DEF Turns
<1>6. CASE \E iqn, portal :
              Go(t, LookUpTarget, [Blank EXCEPT !.op = "wake", !.iqn = iqn, !.portal = portal])
  <2>1. PICK iqn, portal :
              Go(t, LookUpTarget, [Blank EXCEPT !.op = "wake", !.iqn = iqn, !.portal = portal])
    BY <1>6
  <2> DEFINE new == [[Blank EXCEPT !.op = "wake", !.iqn = iqn, !.portal = portal]
                        EXCEPT !.todo = LookUpTarget]
  <2>2. new.op = "wake" /\ new.todo = <<Call("GetSessionIdForTargetIQN")>>
    BY DEF Blank, LookUpTarget
  <2>3. thread' = [thread EXCEPT ![t] = new]
    BY <2>1 DEF Go
  <2> HIDE DEF new
  <2>4. ~Talks(new)
    BY <2>2, QuietOf DEF Talk, Sets
  <2>5. Calm(thread[t], new)
    BY <1>3, <2>2, <2>4, FreeCalm DEF Reports
  <2> QED
    BY <1>1, <1>2, <1>4, <2>3, <2>5 DEF Turns
<1> QED
  BY <1>5, <1>6 DEF NextLogin

LEMMA ReturnTurns ==
  ASSUME Inv, Base, NEW t \in Threads, Return(t)
  PROVE  Turns(t)
<1>1. thread[t].todo = <<>> /\ thread' = [thread EXCEPT ![t] = Blank] /\ OnlyThread
  BY DEF Return
<1>2. Names(thread[t].todo) = {}
  BY <1>1, OrderlyNone
<1>3. Calm(thread[t], Blank)
  BY <1>2, QuietOf, FreeCalm
<1> QED
  BY <1>1, <1>3, OnlyThreadTurns

LEMMA IdleNames ==
  ASSUME Base, NEW t \in Threads, ~Busy(t)
  PROVE  thread[t] = Blank /\ Names(thread[t].todo) = {}
<1>1. thread[t] = Blank
  BY DEF Base, ShapeInv, Proper, Busy
<1> QED
  BY <1>1, QuietOf

LEMMA BeginsTurns ==
  ASSUME Inv, Base, Begins
  PROVE  \E t \in Threads : Turns(t)
<1>1. PICK t, op, todo, iqn, portal :
          /\ t \in Threads /\ Begin(t, op, todo, iqn, portal) /\ OnlyThread
          /\ \/ todo = <<Call("GetSessionIds")>> /\ op \in Lists
             \/ todo = <<>> /\ op = "wake"
             \/ todo = <<Call("GetSessionIdForTargetIQN")>> /\ op \in OfTarget \cup OfPortal
             \/ todo = <<Call("CreateSession")>> /\ op = "discovery"
  BY DEF Begins, LookUpTarget
<1> DEFINE new == [Blank EXCEPT !.op = op, !.todo = todo, !.iqn = iqn, !.portal = portal]
<1>2. new.op = op /\ new.todo = todo /\ new.sid = None
  BY DEF Blank
<1>3. thread' = [thread EXCEPT ![t] = new] /\ ~Busy(t)
  BY <1>1 DEF Begin
<1> HIDE DEF new
<1>4. ~Talks(new)
  BY <1>1, <1>2, QuietOf DEF Talk, Sets
<1>5. op = "sleep" => todo = <<Call("GetSessionIds")>>
  BY <1>1 DEF OfTarget, OfPortal
<1>6. Calm(thread[t], new)
  BY <1>1, <1>2, <1>3, <1>4, <1>5, IdleNames, FreeCalm
<1> QED
  BY <1>1, <1>3, <1>6, OnlyThreadTurns

LEMMA DiskUnmountCompleteTurns ==
  ASSUME Inv, Base, DiskUnmountComplete
  PROVE  Turns(Main)
<1>1. /\ ~Busy(Main) /\ UNCHANGED tableVars /\ messages' = messages
      /\ atStart' = atStart /\ reused' = reused
  BY DEF DiskUnmountComplete, kernelVars
<1>2. Names(thread[Main].todo) = {} /\ Fades /\ sessionList' = sessionList
  BY <1>1, ThreadNames, IdleNames, TableFades DEF tableVars
<1>3. PICK new :
        /\ thread' = [thread EXCEPT ![Main] = new]
        /\ new.op \in {"logoutComplete", "sleepComplete"}
        /\ new.todo \in {LookUpTarget, <<>>, LogoutCalls}
  <2>1. PICK u \in unmounting :
          \/ /\ u.op = "logoutComplete"
             /\ \E todo \in {LookUpTarget, <<>>} :
                   thread' = [thread EXCEPT ![Main] =
                        [Blank EXCEPT !.op = u.op, !.todo = todo, !.iqn = u.iqn]]
          \/ /\ u.op = "sleepComplete"
             /\ thread' = [thread EXCEPT ![Main] =
                    [Blank EXCEPT !.op = u.op, !.todo = LogoutCalls, !.iqn = u.iqn,
                                  !.sid = u.sid, !.gen = Gen(u.sid)]]
    BY DEF DiskUnmountComplete
  <2> DEFINE a(todo) == [Blank EXCEPT !.op = u.op, !.todo = todo, !.iqn = u.iqn]
             b == [Blank EXCEPT !.op = u.op, !.todo = LogoutCalls, !.iqn = u.iqn,
                                !.sid = u.sid, !.gen = Gen(u.sid)]
  <2>2. /\ \A todo : a(todo).op = u.op /\ a(todo).todo = todo
        /\ b.op = u.op /\ b.todo = LogoutCalls
    BY DEF Blank
  <2> QED
    BY <2>1, <2>2
<1>4. ~Talks(new)
  <2>1. Names(LookUpTarget) = {"GetSessionIdForTargetIQN"} /\ Names(<<>>) = {}
    BY OneCall, OrderlyNone DEF LookUpTarget
  <2> QED
    BY <1>3, <2>1, LogoutList DEF Talks, Talk, Sets
<1>5. Calm(thread[Main], new)
  BY <1>2, <1>3, <1>4, FreeCalm DEF Reports
<1> QED
  BY <1>1, <1>2, <1>3, <1>5 DEF Turns

-----------------------------------------------------------------------------
(* The other steps, in what matters to other threads.                      *)

\* As Calm, for a thread that goes on with a report or a list.
Quiet(th, new) ==
  /\ ~Talks(new)
  /\ InCharge(th) => InCharge(new) /\ new.gen = th.gen
  /\ Adding(th) => Adding(new) /\ new.sid = th.sid /\ new.cid = th.cid

\* The thread goes on while a connection is lost.
TurnsLosing(t) ==
  \E new, s : /\ thread' = [thread EXCEPT ![t] = new] /\ Calm(thread[t], new) /\ Loses(s)
              /\ atStart' = atStart /\ reused' = reused /\ activeTargets' = activeTargets

\* The thread goes on with the rest of its calls.
GoesOn(t, name, new) ==
  /\ At(t, name) /\ thread[t].op \notin Reports \cup Lists
  /\ thread' = [thread EXCEPT ![t] = new]
  /\ new.todo = Rest(t) /\ new.op = thread[t].op /\ new.iqn = thread[t].iqn
  /\ new.sid = thread[t].sid /\ new.cid = thread[t].cid /\ new.gen = thread[t].gen
  /\ CallsIn(thread[t].todo) = {Head(thread[t].todo)} \cup CallsIn(new.todo)
  /\ Names(thread[t].todo) = {name} \cup Names(new.todo)
  /\ \A other \in Names(new.todo) : Follows(name, other)

LEMMA RestGoesOn ==
  ASSUME Inv, Base, NEW t \in Threads, NEW name, At(t, name), Continue(t, Rest(t)),
         name \notin ReportCalls \cup ListCalls
  PROVE  \E new : GoesOn(t, name, new)
<1> DEFINE new == [thread[t] EXCEPT !.todo = Rest(t)]
<1>1. thread[t] \in Thread /\ Meets(thread[t], name)
  BY AtKnows
<1>2. thread[t].op \notin Reports \cup Lists
  BY <1>1 DEF Meets
<1>3. /\ new.todo = Rest(t) /\ new.op = thread[t].op /\ new.iqn = thread[t].iqn
      /\ new.sid = thread[t].sid /\ new.cid = thread[t].cid /\ new.gen = thread[t].gen
  BY <1>1, TodoOf
<1>4. thread' = [thread EXCEPT ![t] = new]
  BY ContinueGo DEF Go
<1> HIDE DEF new
<1>5. GoesOn(t, name, new)
  BY <1>2, <1>3, <1>4, RestKnows DEF GoesOn
<1> QED
  BY <1>5

LEMMA QueryKinds ==
  ASSUME Inv, Base, NEW t \in Threads, Query(t)
  PROVE  Turns(t) \/ TurnsLosing(t)
<1>1. /\ At(t, "query") /\ Continue(t, Rest(t)) /\ (Lost(t) \/ UNCHANGED <<kernelVars, messages>>)
      /\ atStart' = atStart /\ reused' = reused /\ activeTargets' = activeTargets
  BY DEF Query, daemonVars
<1>2. PICK new : GoesOn(t, "query", new)
  BY <1>1, RestGoesOn DEF ReportCalls, ListCalls
<1>3. Calm(thread[t], new)
  BY <1>1, <1>2, RestCalm DEF GoesOn, Sets, Lists
<1>4. CASE UNCHANGED <<kernelVars, messages>>
  BY <1>1, <1>2, <1>3, <1>4, TableFades DEF Turns, GoesOn, kernelVars, tableVars
<1>5. CASE Lost(t)
  <2>1. Loses(thread[t].sid)
    BY <1>1, <1>5, AtKnows, LossLoses DEF Lost
  <2> QED
    BY <1>1, <1>2, <1>3, <2>1 DEF TurnsLosing, GoesOn
<1> QED
  BY <1>1, <1>4, <1>5

LEMMA ExchangeKinds ==
  ASSUME Inv, Base, NEW t \in Threads, Exchange(t)
  PROVE  \/ Turns(t) \/ TurnsLosing(t)
         \/ /\ \E new : GoesOn(t, "exchange", new)
            /\ Fades /\ sessionList' = sessionList /\ messages' = messages
            /\ atStart' = atStart /\ reused' = reused /\ activeTargets' = activeTargets
<1>1. /\ At(t, "exchange")
      /\ atStart' = atStart /\ reused' = reused /\ activeTargets' = activeTargets
  BY DEF Exchange, daemonVars
<1>2. thread[t] \in Thread /\ Meets(thread[t], "exchange")
  BY <1>1, AtKnows
<1>3. thread[t].op \notin Reports \cup Lists
  BY <1>2 DEF Meets, ReportCalls, ListCalls
<1>4. CASE Continue(t, Rest(t)) /\ UNCHANGED <<kernelVars, messages>>
  BY <1>1, <1>4, RestGoesOn, TableFades DEF ReportCalls, ListCalls, kernelVars, tableVars
<1>5. ASSUME NEW todo, Continue(t, todo), "ReleaseSession" \in Names(todo), Names(todo) \cap Talk = {}
      PROVE  \E new : thread' = [thread EXCEPT ![t] = new] /\ Calm(thread[t], new)
  <2> DEFINE new == [thread[t] EXCEPT !.todo = todo]
  <2>1. new.todo = todo /\ new.op = thread[t].op /\ new.gen = thread[t].gen
    BY <1>2, TodoOf
  <2>2. thread' = [thread EXCEPT ![t] = new]
    BY <1>5, ContinueGo DEF Go
  <2> HIDE DEF new
  <2>3. ~Adding(thread[t])
    <3>1. /\ Names(thread[t].todo) = {"exchange"} \cup Names(Rest(t))
          /\ \A other \in Names(Rest(t)) : Follows("exchange", other)
      BY <1>1, RestKnows
    <3> QED
      BY <3>1 DEF Adding, Has, Follows
  <2>4. Calm(thread[t], new)
    BY <1>3, <1>5, <2>1, <2>3 DEF Calm, Talks, InCharge, Has, Lists
  <2> QED
    BY <2>2, <2>4
<1>6. CASE Continue(t, Refused(t)) /\ UNCHANGED <<kernelVars, messages>>
  <2>1. Names(Refused(t)) \cap Talk = {} /\ "ReleaseSession" \in Names(Refused(t))
    BY RefusedList DEF Talk, Sets
  <2>2. PICK new : thread' = [thread EXCEPT ![t] = new] /\ Calm(thread[t], new)
    BY <1>5, <1>6, <2>1
  <2> QED
    BY <1>1, <1>6, <2>2, TableFades DEF Turns, kernelVars, tableVars
<1>7. CASE Continue(t, <<Call("ReleaseSession")>>) /\ Lost(t)
  <2>1. Names(<<Call("ReleaseSession")>>) = {"ReleaseSession"}
    BY OneCall
  <2>2. PICK new : thread' = [thread EXCEPT ![t] = new] /\ Calm(thread[t], new)
    BY <1>5, <1>7, <2>1 DEF Talk, Sets
  <2>3. Loses(thread[t].sid)
    BY <1>1, <1>7, AtKnows, LossLoses DEF Lost
  <2> QED
    BY <1>1, <2>2, <2>3 DEF TurnsLosing
<1> QED
  BY <1>4, <1>6, <1>7 DEF Exchange

\* A call that comes alone ends in nothing.
LEMMA EndsTurns ==
  ASSUME Inv, Base, NEW t \in Threads, NEW name \in Alone, At(t, name), Continue(t, <<>>),
         sessionList' = sessionList, Fades, messages' = messages, atStart' = atStart,
         reused' = reused, activeTargets' = activeTargets,
         thread[t].op \notin Reports \cup Lists
  PROVE  Turns(t)
<1> DEFINE new == [thread[t] EXCEPT !.todo = <<>>]
<1>1. new.todo = <<>> /\ new.op = thread[t].op
  BY AtKnows, TodoOf
<1>2. thread' = [thread EXCEPT ![t] = new]
  BY ContinueGo DEF Go
<1> HIDE DEF new
<1>3. Calm(thread[t], new)
  BY <1>1, AloneFree, QuietOf, FreeCalm DEF Lists
<1> QED
  BY <1>2, <1>3 DEF Turns

\* A session is created, for the run loop or for discovery.
Creates(t, sid, new) ==
  /\ At(t, "CreateSession")
  /\ sid \in Slots /\ sid = NewSid /\ CreateSession(thread[t].iqn, thread[t].portal) /\ thread[t].portal \in Portals
  /\ thread' = [thread EXCEPT ![t] = new]
  /\ reused' = (reused \/ NumberInUse(t, sid))
  /\ new.todo = IF t = Main THEN LoginCalls ELSE DiscoveryCalls
  /\ new.op = thread[t].op /\ new.op \notin Reports \cup Lists
  /\ new.sid = sid /\ new.cid = 0 /\ new.gen = created + 1
  /\ messages' = messages /\ atStart' = atStart /\ activeTargets' = activeTargets
  /\ t = Discovery => thread[t].iqn = DiscoveryIQN

LEMMA CreateKinds ==
  ASSUME Inv, Base, NEW t \in Threads, Create(t)
  PROVE  Turns(t) \/ \E sid, new : Creates(t, sid, new)
<1>1. /\ At(t, "CreateSession") /\ messages' = messages /\ atStart' = atStart
      /\ activeTargets' = activeTargets
  BY DEF Create
<1>2. /\ thread[t].op \notin Reports \cup Lists
      /\ t = Discovery => thread[t].iqn = DiscoveryIQN
  BY <1>1, CreatesFor DEF Reports, Lists
<1>3. CASE CreateSessionFails(thread[t].iqn) /\ Continue(t, <<>>) /\ reused' = reused
  <2>1. Fades /\ sessionList' = sessionList
    BY <1>3, CreateSessionFailsFades DEF Inv, KernelInv, Base
  <2> QED
    BY <1>1, <1>2, <1>3, <2>1, EndsTurns DEF Alone
<1>4. ASSUME NEW sid \in Slots, NEW new,
              sid = NewSid, CreateSession(thread[t].iqn, thread[t].portal),
              thread[t].portal \in Portals,
              thread' = [thread EXCEPT ![t] = new],
              reused' = (reused \/ NumberInUse(t, sid)),
              new.todo = IF t = Main THEN LoginCalls ELSE DiscoveryCalls,
              new.op = thread[t].op, new.sid = sid, new.cid = 0, new.gen = created + 1
      PROVE  Creates(t, sid, new)
  BY <1>1, <1>2, <1>4 DEF Creates
<1> QED
  BY <1>3, <1>4, CreateMade

\* A connection is added to a session.
AddsConnection(t, sid, cid, new) ==
  /\ t = Main /\ At(t, "CreateConnection")
  /\ CreateConnection(sid, thread[t].portal) /\ thread[t].portal \in Portals /\ cid = NewCid(sid)
  /\ thread' = [thread EXCEPT ![t] = new]
  /\ new.op = thread[t].op /\ LogsIn(new.op) /\ new.sid = sid /\ new.cid = cid
  /\ new.gen = thread[t].gen
  /\ Names(new.todo) = {"GetTargetIQNForSessionId", "ReleaseConnection"}
  /\ messages' = messages /\ atStart' = atStart /\ reused' = reused /\ activeTargets' = activeTargets

LEMMA AddConnectionKinds ==
  ASSUME Inv, Base, NEW t \in Threads, AddConnection(t)
  PROVE  Turns(t) \/ \E sid, cid, new : AddsConnection(t, sid, cid, new)
<1>1. /\ At(t, "CreateConnection") /\ messages' = messages /\ atStart' = atStart
      /\ reused' = reused /\ activeTargets' = activeTargets
  BY OnlyTableKeeps DEF AddConnection
<1>2. thread[t] \in Thread /\ LogsIn(thread[t].op) /\ thread[t].portal \in Portals
  BY <1>1, AtKnows DEF Ready
<1>3. t = Main /\ thread[t].op \notin Reports \cup Lists
  BY <1>2, ThreadNames DEF Inv, ThreadsInv, LogsIn, Reports, Lists
<1>4. CASE Continue(t, <<>>) /\ UNCHANGED tableVars
  BY <1>1, <1>3, <1>4, TableFades, EndsTurns DEF Alone, tableVars
<1>5. CASE /\ CreateConnection(thread[t].sid, thread[t].portal)
           /\ Go(t, Tail(AddConnectionCalls), [thread[t] EXCEPT !.cid = NewCid(thread[t].sid)])
  <2>1. PICK sid, cid : sid = thread[t].sid /\ cid = NewCid(sid)
    OBVIOUS
  <2> DEFINE th == [thread[t] EXCEPT !.cid = cid]
             new == [th EXCEPT !.todo = Tail(AddConnectionCalls)]
  <2>2. /\ new.todo = Tail(AddConnectionCalls) /\ new.op = thread[t].op /\ new.sid = sid
        /\ new.cid = cid /\ new.gen = thread[t].gen
    BY <1>2, <2>1 DEF Thread
  <2>3. thread' = [thread EXCEPT ![t] = new]
    BY <1>5, <2>1 DEF Go
  <2> HIDE DEF new
  <2>4. AddsConnection(t, sid, cid, new)
    BY <1>1, <1>2, <1>3, <1>5, <2>1, <2>2, <2>3, AddConnectionList DEF AddsConnection
  <2> QED
    BY <2>4
<1> QED
  BY <1>4, <1>5 DEF AddConnection

\* Nothing changes that two threads share.
Still == /\ sessionList' = sessionList /\ targetList' = targetList /\ Fades
         /\ messages' = messages /\ atStart' = atStart /\ reused' = reused

LEMMA OnlyThreadStill ==
  ASSUME Inv, Base, OnlyThread
  PROVE  Still /\ activeTargets' = activeTargets
BY OnlyThreadFades DEF Still, tableVars

LEMMA FreeQuiet ==
  ASSUME NEW th, NEW new, ~Talks(new),
         Names(th.todo) \cap {"ReleaseSession", "ActivateConnection", "ReleaseConnection"} = {}
  PROVE  Quiet(th, new)
BY DEF Quiet, InCharge, Adding, Has

LEMMA LookUpSessionIs ==
  ASSUME Inv, Base, NEW t \in Threads, LookUpSession(t)
  PROVE  \E new :
           /\ thread' = [thread EXCEPT ![t] = new] /\ Quiet(thread[t], new)
           /\ new.op = thread[t].op /\ new.op \notin Lists
           /\ new.op \in Reports => thread[t].iqn \in Targets
           /\ thread[t].iqn \in IQNs
           /\ new.sid = targetList[thread[t].iqn] /\ new.cid = None
           /\ new.op = "sessionReport" /\ new.sid # None =>
                \A key \in SessionKeys : Get(key) \in CallsIn(new.todo)
<1> DEFINE sid == GetSessionIdForTargetIQN(thread[t].iqn)
           th == [thread[t] EXCEPT !.sid = sid, !.gen = Gen(sid)]
           todo == IF sid = None THEN Missing(thread[t].op) ELSE Found[thread[t].op]
           new == [th EXCEPT !.todo = todo]
<1>1. At(t, "GetSessionIdForTargetIQN") /\ Go(t, todo, th)
  BY DEF LookUpSession
<1>2. /\ thread[t] \in Thread /\ Suits(t, thread[t]) /\ thread[t].cid = None
      /\ thread[t].op \in DOMAIN Found /\ thread[t].iqn \in IQNs
  BY <1>1, AtKnows DEF Ready, Meets
<1>3. sid = targetList[thread[t].iqn]
  BY DEF GetSessionIdForTargetIQN
<1> HIDE DEF sid
<1>4. new.todo = todo /\ new.op = thread[t].op /\ new.sid = sid /\ new.cid = None
  BY <1>2 DEF Thread
<1>5. thread' = [thread EXCEPT ![t] = new]
  BY <1>1 DEF Go
<1> HIDE DEF new
<1>6. new.op \notin Lists /\ (new.op \in Reports => thread[t].iqn \in Targets)
  BY <1>2, <1>4 DEF Found, Lists, Suits
<1>7. /\ Names(todo) \cap Talk = {}
      /\ new.op = "sessionReport" /\ new.sid # None =>
                \A key \in SessionKeys : Get(key) \in CallsIn(todo)
  <2>1. CASE sid = None
    <3>1. todo \in {<<>>, <<Call("CreateSession")>>}
      BY <2>1 DEF Missing
    <3>2. Names(todo) \subseteq {"CreateSession"}
      BY <3>1, OneCall, OrderlyNone
    <3> QED
      BY <1>4, <2>1, <3>2 DEF Talk, Sets
  <2>2. CASE sid # None
    <3>1. \/ thread[t].op = "sessionReport" /\ todo = SessionReads
          \/ thread[t].op # "sessionReport" /\ todo = LogoutCalls
          \/ thread[t].op # "sessionReport" /\ todo = <<>>
          \/ thread[t].op # "sessionReport" /\ todo = <<Call("unmount")>>
          \/ thread[t].op # "sessionReport" /\ todo = <<Call("GetConnectionIdForPortalAddress")>>
      BY <1>2, <2>2 DEF Found, LookUpPortal
    <3> HIDE DEF todo
    <3>2. \/ thread[t].op = "sessionReport" /\ todo = SessionReads
          \/ /\ thread[t].op # "sessionReport"
             /\ \/ Names(todo) \subseteq {"unmount", "GetConnectionIdForPortalAddress"}
                \/ todo = LogoutCalls
      BY <3>1, OneCall, OrderlyNone
    <3> QED
      BY <1>4, <3>2, ReadLists, LogoutList DEF Talk, Sets
  <2> QED
    BY <2>1, <2>2
<1> HIDE DEF todo
<1>8. Quiet(thread[t], new)
  BY <1>1, <1>4, <1>7, AloneFree, FreeQuiet DEF Talks, Alone
<1> QED
  BY <1>2, <1>3, <1>4, <1>5, <1>6, <1>7, <1>8

LEMMA LookUpConnectionIs ==
  ASSUME Inv, Base, NEW t \in Threads, LookUpConnection(t)
  PROVE  \E new :
           /\ thread' = [thread EXCEPT ![t] = new] /\ Quiet(thread[t], new)
           /\ new.op = thread[t].op /\ new.op \notin Lists \cup {"sessionReport"}
           /\ new.sid = thread[t].sid
           /\ new.cid # None => new.cid \in Connections(new.sid)
           /\ new.op = "connectionReport" /\ new.cid # None =>
                \A key \in ConnectionKeys : Get(key) \in CallsIn(new.todo)
<1> DEFINE cid == GetConnectionIdForPortalAddress(thread[t].sid, thread[t].portal)
           th == [thread[t] EXCEPT !.cid = cid]
           todo == IF cid = None THEN PortalMissing(thread[t].op) ELSE PortalFound[thread[t].op]
           new == [th EXCEPT !.todo = todo]
<1>1. At(t, "GetConnectionIdForPortalAddress") /\ Go(t, todo, th)
  BY DEF LookUpConnection
<1>2. thread[t] \in Thread /\ thread[t].op \in DOMAIN PortalFound
  BY <1>1, AtKnows DEF Ready
<1>3. cid # None => cid \in Connections(thread[t].sid)
  <2> DEFINE found == {c \in Connections(thread[t].sid) :
                          sessionList[thread[t].sid].connections[c].portal = thread[t].portal}
  <2>1. found \subseteq Nat /\ cid = IF found = {} THEN None ELSE Min(found)
    BY Ids DEF GetConnectionIdForPortalAddress, Connections
  <2>2. found # {} => Min(found) \in found
    BY <2>1, MinOfIds
  <2> QED
    BY <2>1, <2>2
<1> HIDE DEF cid
<1>4. new.todo = todo /\ new.op = thread[t].op /\ new.sid = thread[t].sid /\ new.cid = cid
  BY <1>2 DEF Thread
<1>5. thread' = [thread EXCEPT ![t] = new]
  BY <1>1 DEF Go
<1> HIDE DEF new
<1>6. new.op \notin Lists \cup {"sessionReport"}
  BY <1>2, <1>4 DEF PortalFound, Lists
<1>7. /\ Names(todo) \cap Talk = {}
      /\ new.op = "connectionReport" /\ new.cid # None =>
                \A key \in ConnectionKeys : Get(key) \in CallsIn(todo)
  <2>1. CASE cid = None
    <3>1. todo \in {<<>>, <<Call("CreateConnection")>>}
      BY <2>1 DEF PortalMissing
    <3>2. Names(todo) \subseteq {"CreateConnection"}
      BY <3>1, OneCall, OrderlyNone
    <3> QED
      BY <1>4, <2>1, <3>2 DEF Talk, Sets
  <2>2. CASE cid # None
    <3>1. \/ thread[t].op = "connectionReport" /\ todo = ConnectionReads
          \/ thread[t].op # "connectionReport" /\ todo = <<>>
          \/ thread[t].op # "connectionReport" /\ todo = <<Call("GetConnectionIds")>>
      BY <1>2, <2>2 DEF PortalFound
    <3> HIDE DEF todo
    <3>2. \/ thread[t].op = "connectionReport" /\ todo = ConnectionReads
          \/ thread[t].op # "connectionReport" /\ Names(todo) \subseteq {"GetConnectionIds"}
      BY <3>1, OneCall, OrderlyNone
    <3> QED
      BY <1>4, <3>2, ReadLists DEF Talk, Sets
  <2> QED
    BY <2>1, <2>2
<1> HIDE DEF todo
<1>8. Quiet(thread[t], new)
  BY <1>1, <1>4, <1>7, AloneFree, FreeQuiet DEF Talks, Alone
<1> QED
  BY <1>3, <1>4, <1>5, <1>6, <1>7, <1>8

\* A value goes into the report, as the kernel has it.
LEMMA ReadParameterIs ==
  ASSUME Inv, Base, NEW t \in Threads, ReadParameter(t)
  PROVE  /\ Still /\ activeTargets' = activeTargets
         /\ \E new : \E key \in Keys :
             /\ thread' = [thread EXCEPT ![t] = new] /\ Quiet(thread[t], new)
             /\ new.op = thread[t].op /\ new.op \in Reports
             /\ new.sid = thread[t].sid /\ new.cid = thread[t].cid
             /\ CallsIn(thread[t].todo) = {Get(key)} \cup CallsIn(new.todo)
             /\ \A other \in Keys \ {key} : new.report[other] = thread[t].report[other]
             /\ new.op = "sessionReport" => key \in SessionKeys
             /\ new.op = "connectionReport" => key \in ConnectionKeys
             /\ key \in SessionKeys /\ Exists(new.sid) =>
                  new.report[key] = sessionList[new.sid].parameters[key]
             /\ key \in ConnectionKeys /\ new.cid \in Connections(new.sid) =>
                  new.report[key] = sessionList[new.sid].connections[new.cid].parameters[key]
<1> DEFINE c == Head(thread[t].todo)
           value == IF c.name = "GetSessionParameter" THEN GetSessionParameter(thread[t].sid, c.key)
                    ELSE GetConnectionParameter(thread[t].sid, thread[t].cid, c.key)
           th == [thread[t] EXCEPT !.report[c.key] = value]
           new == [th EXCEPT !.todo = Rest(t)]
<1>1. PICK name \in {"GetSessionParameter", "GetConnectionParameter"} : At(t, name)
  BY DEF ReadParameter
<1>2. /\ Go(t, Rest(t), th) /\ UNCHANGED tableVars /\ reused' = reused /\ messages' = messages
      /\ atStart' = atStart /\ activeTargets' = activeTargets
  BY DEF ReadParameter, kernelVars, daemonVars, Rest
<1>3. Still
  BY <1>2, TableFades DEF Still, tableVars
<1>4. /\ thread[t] \in Thread /\ c \in Calls /\ c.name = name /\ Meets(thread[t], name)
  BY <1>1, AtKnows
<1>5. /\ c.key \in Keys /\ c = Get(c.key)
      /\ name = "GetSessionParameter" <=> c.key \in SessionKeys
      /\ name = "GetConnectionParameter" <=> c.key \in ConnectionKeys
  BY <1>1, <1>4, KeyOfCall, CallName DEF Keys, SessionKeys, ConnectionKeys, Calls, Call, CallNames, Get, Set
<1>6. value = IF c.key \in SessionKeys THEN GetSessionParameter(thread[t].sid, c.key)
              ELSE GetConnectionParameter(thread[t].sid, thread[t].cid, c.key)
  BY <1>1, <1>4, <1>5
<1> HIDE DEF value
<1>7. PICK key \in Keys : key = c.key
  BY <1>5
<1>8. /\ new.todo = Rest(t) /\ new.op = thread[t].op
      /\ new.sid = thread[t].sid /\ new.cid = thread[t].cid
      /\ new.report = [thread[t].report EXCEPT ![key] = value]
  BY <1>4, <1>7 DEF Thread
<1>9. /\ new.report[key] = value
      /\ \A other \in Keys \ {key} : new.report[other] = thread[t].report[other]
  BY <1>4, <1>8 DEF Thread
<1>10. thread' = [thread EXCEPT ![t] = new]
  BY <1>2 DEF Go
<1> HIDE DEF new, c
<1>11. /\ new.op \in Reports /\ (new.op = "sessionReport" => key \in SessionKeys)
       /\ new.op = "connectionReport" => key \in ConnectionKeys
  BY <1>1, <1>4, <1>5, <1>7, <1>8 DEF Meets, Reports
<1>12. /\ CallsIn(thread[t].todo) = {Get(key)} \cup CallsIn(new.todo)
       /\ Names(thread[t].todo) = {name} \cup Names(new.todo)
       /\ \A other \in Names(new.todo) : Follows(name, other)
  BY <1>1, <1>5, <1>7, <1>8, RestKnows DEF c
<1>13. \A other \in Names(thread[t].todo) : other \in ReportCalls
  BY <1>8, <1>11 DEF Base, ShapeInv, Proper, Meets
<1>14. Quiet(thread[t], new)
  <2>1. ~Talks(new)
    BY <1>12, <1>13 DEF Talks, Talk, Sets, ReportCalls
  <2> QED
    BY <1>13, <2>1, FreeQuiet DEF ReportCalls
<1>15. key \in SessionKeys /\ Exists(new.sid) =>
          new.report[key] = sessionList[new.sid].parameters[key]
  BY <1>6, <1>7, <1>8, <1>9 DEF GetSessionParameter
<1>16. key \in ConnectionKeys /\ new.cid \in Connections(new.sid) =>
          new.report[key] = sessionList[new.sid].connections[new.cid].parameters[key]
  BY <1>6, <1>7, <1>8, <1>9 DEF GetConnectionParameter, SessionKeys, ConnectionKeys
<1> QED
  BY <1>2, <1>3, <1>8, <1>9, <1>10, <1>11, <1>12, <1>14, <1>15, <1>16

\* Lists are the run loop's, and have nothing in hand.
LEMMA ListsFree ==
  ASSUME Inv, Base, NEW t \in Threads, thread[t].op \in Lists
  PROVE  /\ t = Main
         /\ Names(thread[t].todo) \cap {"ReleaseSession", "ActivateConnection", "ReleaseConnection"} = {}
<1>1. t = Main
  BY ThreadNames DEF Inv, ThreadsInv, Lists
<1>2. \A name \in Names(thread[t].todo) : name \in ListCalls
  BY DEF Base, ShapeInv, Proper, Meets
<1> QED
  BY <1>1, <1>2 DEF ListCalls

LEMMA ListsQuiet ==
  ASSUME Inv, Base, NEW t \in Threads, thread[t].op \in Lists, NEW new,
         new.todo \in {<<>>, ForEachSession, <<Call("GetConnectionIds")>>}
  PROVE  Quiet(thread[t], new)
<1>1. ~Talks(new)
  BY QuietOf DEF ForEachSession, Talk, Sets
<1> QED
  BY <1>1, ListsFree, FreeQuiet

LEMMA ListSessionsIs ==
  ASSUME Inv, Base, NEW t \in Threads, ListSessions(t)
  PROVE  /\ Still /\ t = Main
         /\ \E new, ids :
              /\ thread' = [thread EXCEPT ![t] = new] /\ Quiet(thread[t], new)
              /\ new.op \in Lists
              /\ ids \in PointerArrays(GetSessionIds) /\ new.ids = ids /\ new.listed = Len(ids)
              /\ new.asOf = created
              /\ new.todo = IF ids = <<>> THEN <<>> ELSE ForEachSession
<1>1. /\ At(t, "GetSessionIds") /\ UNCHANGED tableVars /\ reused' = reused
      /\ messages' = messages /\ atStart' = atStart
  BY DEF ListSessions, kernelVars
<1>2. PICK ids \in PointerArrays(GetSessionIds) :
         Go(t, IF ids = <<>> THEN <<>> ELSE ForEachSession,
            [thread[t] EXCEPT !.ids = ids, !.listed = Len(ids), !.asOf = created])
  BY DEF ListSessions
<1> DEFINE th == [thread[t] EXCEPT !.ids = ids, !.listed = Len(ids), !.asOf = created]
           todo == IF ids = <<>> THEN <<>> ELSE ForEachSession
           new == [th EXCEPT !.todo = todo]
<1>3. thread[t] \in Thread /\ thread[t].op \in Lists
  BY <1>1, AtKnows DEF Ready, Lists
<1>4. /\ new.todo = todo /\ new.op = thread[t].op /\ new.ids = ids /\ new.listed = Len(ids)
      /\ new.asOf = created
  BY <1>3 DEF Thread
<1>5. thread' = [thread EXCEPT ![t] = new]
  BY <1>2 DEF Go
<1> HIDE DEF new
<1>6. Quiet(thread[t], new)
  BY <1>3, <1>4, ListsQuiet
<1>7. Still
  BY <1>1, TableFades DEF Still, tableVars
<1> QED
  BY <1>3, <1>4, <1>5, <1>6, <1>7, ListsFree

LEMMA SleepTargetIs ==
  ASSUME Inv, Base, NEW t \in Threads, SleepTarget(t)
  PROVE  /\ Still /\ activeTargets' = activeTargets /\ t = Main
         /\ At(t, "GetTargetIQNForSessionId") /\ thread[t].op = "sleep"
         /\ \E new, iqn :
              /\ thread' = [thread EXCEPT ![t] = new] /\ Quiet(thread[t], new)
              /\ new.op = "sleep" /\ new.listed = thread[t].listed /\ new.asOf = thread[t].asOf
              /\ new.ids = Tail(thread[t].ids)
              /\ iqn \in GetTargetIQNForSessionId(Head(thread[t].ids))
              /\ iqn = None => new.todo = IF new.ids = <<>> THEN <<>> ELSE ForEachSession
              /\ iqn # None => new.todo = <<Call("GetConnectionIds")>> /\ new.iqn = iqn
<1>1. /\ At(t, "GetTargetIQNForSessionId") /\ thread[t].op = "sleep" /\ OnlyThread
  BY DEF SleepTarget
<1> DEFINE th == thread[t]
           sid == Head(th.ids)
<1>2. PICK iqn \in GetTargetIQNForSessionId(sid) :
          IF iqn = None
               THEN Go(t, IF Tail(th.ids) = <<>> THEN <<>> ELSE ForEachSession,
                       [th EXCEPT !.ids = Tail(@)])
               ELSE Go(t, <<Call("GetConnectionIds")>>,
                       [th EXCEPT !.ids = Tail(@), !.sid = sid, !.iqn = iqn])
  BY DEF SleepTarget
<1>3. th \in Thread /\ th.op \in Lists
  BY <1>1, AtKnows DEF Lists
<1>4. PICK new :
        /\ thread' = [thread EXCEPT ![t] = new]
        /\ new.op = "sleep" /\ new.listed = th.listed /\ new.asOf = th.asOf
        /\ new.ids = Tail(th.ids)
        /\ iqn = None => new.todo = IF new.ids = <<>> THEN <<>> ELSE ForEachSession
        /\ iqn # None => new.todo = <<Call("GetConnectionIds")>> /\ new.iqn = iqn
  <2>1. CASE iqn = None
    <3> DEFINE todo == IF Tail(th.ids) = <<>> THEN <<>> ELSE ForEachSession
               new == [[th EXCEPT !.ids = Tail(@)] EXCEPT !.todo = todo]
    <3>1. /\ new.todo = todo /\ new.op = "sleep" /\ new.listed = th.listed /\ new.asOf = th.asOf
          /\ new.ids = Tail(th.ids)
      BY <1>1, <1>3 DEF Thread
    <3>2. thread' = [thread EXCEPT ![t] = new]
      BY <1>2, <2>1 DEF Go
    <3> HIDE DEF new
    <3> QED
      BY <2>1, <3>1, <3>2
  <2>2. CASE iqn # None
    <3> DEFINE new == [[th EXCEPT !.ids = Tail(@), !.sid = sid, !.iqn = iqn]
                          EXCEPT !.todo = <<Call("GetConnectionIds")>>]
    <3>1. /\ new.todo = <<Call("GetConnectionIds")>> /\ new.op = "sleep"
          /\ new.listed = th.listed /\ new.asOf = th.asOf
          /\ new.ids = Tail(th.ids) /\ new.iqn = iqn
      BY <1>1, <1>3 DEF Thread
    <3>2. thread' = [thread EXCEPT ![t] = new]
      BY <1>2, <2>2 DEF Go
    <3> HIDE DEF new
    <3> QED
      BY <2>2, <3>1, <3>2
  <2> QED
    BY <2>1, <2>2
<1>5. new.todo \in {<<>>, ForEachSession, <<Call("GetConnectionIds")>>}
  BY <1>4
<1>6. Quiet(thread[t], new)
  BY <1>3, <1>5, ListsQuiet
<1> QED
  BY <1>1, <1>2, <1>3, <1>4, <1>6, ListsFree, OnlyThreadStill

LEMMA SleepSessionIs ==
  ASSUME Inv, Base, NEW t \in Threads, SleepSession(t)
  PROVE  \/ Crash
         \/ /\ Still /\ t = Main /\ At(t, "GetConnectionIds") /\ thread[t].op = "sleep"
            /\ thread[t].iqn \in IQNs /\ activeTargets \in [IQNs -> SUBSET Portals]
            /\ \E x : activeTargets' = [activeTargets EXCEPT ![thread[t].iqn] = {x}]
            /\ \E new :
                 /\ thread' = [thread EXCEPT ![t] = new] /\ Quiet(thread[t], new)
                 /\ new.op = "sleep" /\ new.listed = thread[t].listed /\ new.asOf = thread[t].asOf
                 /\ new.ids = thread[t].ids
                 /\ new.todo = IF new.ids = <<>> THEN <<>> ELSE ForEachSession
<1> DEFINE th == thread[t]
           todo == IF th.ids = <<>> THEN <<>> ELSE ForEachSession
           new == [th EXCEPT !.todo = todo]
<1>1. /\ At(t, "GetConnectionIds") /\ th.op = "sleep"
      /\ \/ Crash
         \/ /\ Continue(t, todo) /\ messages' = messages /\ reused' = reused
            /\ atStart' = atStart /\ UNCHANGED tableVars
            /\ \E x : activeTargets' = [activeTargets EXCEPT ![thread[t].iqn] = {x}]
  BY DEF SleepSession, kernelVars
<1>2. CASE /\ Continue(t, todo) /\ messages' = messages /\ reused' = reused
           /\ atStart' = atStart /\ UNCHANGED tableVars
           /\ \E x : activeTargets' = [activeTargets EXCEPT ![thread[t].iqn] = {x}]
  <2>1. th \in Thread /\ th.op \in Lists /\ th.iqn \in IQNs /\ th.todo # <<>>
        /\ Head(th.todo).name = "GetConnectionIds"
    BY <1>1, AtKnows DEF Lists, Ready
  <2>2. /\ new.todo = todo /\ new.op = th.op /\ new.listed = th.listed /\ new.asOf = th.asOf
        /\ new.ids = th.ids
    BY <2>1, TodoOf
  <2>3. thread' = [thread EXCEPT ![t] = new]
    BY <1>2, ContinueGo DEF Go
  <2> HIDE DEF new
  <2>4. new.todo \in {<<>>, ForEachSession, <<Call("GetConnectionIds")>>}
    BY <2>2
  <2>5. Quiet(thread[t], new)
    BY <2>1, <2>4, ListsQuiet
  <2>6. Still /\ t = Main
    BY <1>2, <2>1, TableFades, ListsFree DEF Still, tableVars
  <2>7. activeTargets \in [IQNs -> SUBSET Portals]
    BY <1>1, <2>1, <2>6 DEF Inv, Saved
  <2>8. new.todo = IF new.ids = <<>> THEN <<>> ELSE ForEachSession
    BY <2>2
  <2> HIDE DEF todo
  <2>9. \E n : /\ thread' = [thread EXCEPT ![t] = n] /\ Quiet(thread[t], n)
              /\ n.op = "sleep" /\ n.listed = thread[t].listed /\ n.asOf = thread[t].asOf
              /\ n.ids = thread[t].ids
              /\ n.todo = IF n.ids = <<>> THEN <<>> ELSE ForEachSession
    BY <1>1, <2>2, <2>3, <2>5, <2>8
  <2> QED
    BY <1>1, <1>2, <2>1, <2>6, <2>7, <2>9
<1> QED
  BY <1>1, <1>2

\* The run loop takes a message: its thread is in charge of the session that is meant.
LEMMA HandleNotificationIs ==
  ASSUME Inv, Base, HandleNotification
  PROVE  /\ sessionList' = sessionList /\ targetList' = targetList /\ Fades
         /\ atStart' = atStart /\ reused' = reused /\ activeTargets' = activeTargets
         /\ messages # <<>> /\ messages' = Tail(messages)
         /\ \E new : /\ thread' = [thread EXCEPT ![Main] = new] /\ Calm(thread[Main], new)
                     /\ InCharge(new) /\ new.gen = Head(messages).gen
<1> DEFINE m == Head(messages)
           new == [Blank EXCEPT !.op = "timeout", !.todo = TimeoutCalls,
                                !.sid = m.sid, !.cid = m.cid, !.gen = m.gen]
<1>1. /\ ~Busy(Main) /\ messages # <<>> /\ thread' = [thread EXCEPT ![Main] = new]
      /\ messages' = Tail(messages) /\ reused' = reused /\ UNCHANGED tableVars
      /\ atStart' = atStart /\ activeTargets' = activeTargets
  BY DEF HandleNotification, kernelVars, daemonVars
<1>2. new.op = "timeout" /\ new.todo = TimeoutCalls /\ new.gen = m.gen
  BY DEF Blank
<1> HIDE DEF new
<1>3. ~Talks(new) /\ InCharge(new)
  BY <1>2, TimeoutList DEF Talks, InCharge, Has, Talk, Sets
<1>4. Calm(thread[Main], new)
  BY <1>1, <1>2, <1>3, ThreadNames, IdleNames, FreeCalm DEF Reports
<1>5. Fades
  BY <1>1, TableFades
<1> QED
  BY <1>1, <1>2, <1>3, <1>4, <1>5 DEF tableVars

-----------------------------------------------------------------------------
(* An active session has every parameter as its login agreed on it: the    *)
(* thread that will activate it has set every parameter that it is not     *)
(* going to set before it does.                                            *)

IsSet(th, key) ==
  IF key \in SessionKeys
    THEN sessionList[th.sid].parameters[key] = [key |-> key, gen |-> th.gen]
    ELSE th.cid \in Connections(th.sid) =>
           sessionList[th.sid].connections[th.cid].parameters[key] = [key |-> key, gen |-> th.gen]

Ahead(th) ==
  Has(th, "ActivateConnection") /\ Exists(th.sid) =>
     \A key \in Keys : Set(key) \in CallsIn(th.todo) \/ IsSet(th, key)

SetUpInv == ~reused => Ahead(thread[Main])
SetUp == SetUpInv /\ ActiveIsSetUp

LEMMA ExistsAfter ==
  ASSUME NEW s
  PROVE  /\ Active(s)' # {} => Exists(s)'
         /\ \A c \in Active(s)' : c \in Connections(s)'
         /\ \A c \in Connections(s)' : Exists(s)' /\ c \in Cids
BY DEF Active, Connections

LEMMA AheadLessens ==
  ASSUME Lessens, NEW x, Ahead(x), Has(x, "ActivateConnection"), Exists(x.sid)', NEW key \in Keys,
         Set(key) \notin CallsIn(x.todo)
  PROVE  IF key \in SessionKeys
           THEN sessionList'[x.sid].parameters[key] = [key |-> key, gen |-> x.gen]
           ELSE x.cid \in Connections(x.sid)' =>
                  sessionList'[x.sid].connections[x.cid].parameters[key] = [key |-> key, gen |-> x.gen]
<1>1. x.sid \in Slots
  BY DEF Exists
<1>2. /\ Exists(x.sid)
      /\ sessionList'[x.sid].parameters = sessionList[x.sid].parameters
      /\ Connections(x.sid)' \subseteq Connections(x.sid)
      /\ \A c \in Connections(x.sid)' : sessionList'[x.sid].connections[c].parameters
                                           = sessionList[x.sid].connections[c].parameters
  BY <1>1 DEF Lessens
<1>3. IsSet(x, key)
  BY <1>2 DEF Ahead
<1> QED
  BY <1>2, <1>3 DEF IsSet

LEMMA SetUpKept ==
  ASSUME SetUp, Lessens, reused' = reused, Ahead(thread[Main]) => Ahead(thread'[Main])
  PROVE  SetUp'
<1>1. CASE reused
  BY <1>1 DEF SetUp, SetUpInv, ActiveIsSetUp
<1>2. CASE ~reused
  <2>1. Ahead(thread'[Main])
    BY <1>2 DEF SetUp, SetUpInv
  <2>2. SetUpInv'
    <3>0. PICK x : x = thread'[Main]
      OBVIOUS
    <3>1. Ahead(x)
      BY <2>1, <3>0
    <3>2. Has(x, "ActivateConnection") /\ Exists(x.sid)' =>
            \A key \in Keys : \/ Set(key) \in CallsIn(x.todo)
                              \/ IF key \in SessionKeys
                                   THEN sessionList'[x.sid].parameters[key] = [key |-> key, gen |-> x.gen]
                                   ELSE x.cid \in Connections(x.sid)' =>
                                          sessionList'[x.sid].connections[x.cid].parameters[key]
                                             = [key |-> key, gen |-> x.gen]
      BY <3>1, AheadLessens
    <3> QED
      BY <3>0, <3>2 DEF SetUpInv, Ahead, IsSet, Has
  <2>3. ActiveIsSetUp'
    <3>1. ASSUME NEW sid \in Slots, Active(sid)' # {}
          PROVE  /\ \A key \in SessionKeys :
                      sessionList'[sid].parameters[key] = [key |-> key, gen |-> sessionList'[sid].gen]
                 /\ \A cid \in Active(sid)', key \in ConnectionKeys :
                      sessionList'[sid].connections[cid].parameters[key]
                         = [key |-> key, gen |-> sessionList'[sid].gen]
      <4>1. Exists(sid)'
        BY <3>1, ExistsAfter
      <4>2. /\ Exists(sid) /\ Gen(sid)' = Gen(sid)
            /\ sessionList'[sid].parameters = sessionList[sid].parameters
            /\ Active(sid)' \subseteq Active(sid)
            /\ \A c \in Connections(sid)' : sessionList'[sid].connections[c].parameters
                                              = sessionList[sid].connections[c].parameters
        BY <4>1 DEF Lessens
      <4>3. sessionList'[sid].gen = sessionList[sid].gen
        BY <4>1, <4>2 DEF Gen
      <4>4. \A c \in Active(sid)' : c \in Active(sid) /\ c \in Connections(sid)'
        BY <4>2, ExistsAfter
      <4>5. Active(sid) # {}
        BY <3>1, <4>2
      <4> QED
        BY <1>2, <4>2, <4>3, <4>4, <4>5 DEF SetUp, ActiveIsSetUp
    <3> QED
      BY <3>1 DEF ActiveIsSetUp
  <2> QED
    BY <2>2, <2>3 DEF SetUp
<1> QED
  BY <1>1, <1>2

\* A thread that has nothing to activate is not ahead of anything.
LEMMA QuietSetUp ==
  ASSUME Inv, SetUp, Lessens, reused' = reused, NEW t \in Threads, NEW new,
         thread' = [thread EXCEPT ![t] = new], ~Talks(new)
  PROVE  SetUp'
<1>1. thread'[Main] = thread[Main] \/ thread'[Main] = new
  BY ThreadNames DEF Inv, ThreadsInv
<1>2. Ahead(new)
  BY DEF Ahead, Has, Talks, Talk
<1> QED
  BY <1>1, <1>2, SetUpKept

LEMMA KeepsLessens == Keeps => Lessens
BY DEF Keeps

LEMMA StillSetUp ==
  ASSUME Inv, SetUp, Still, NEW t \in Threads, NEW new, thread' = [thread EXCEPT ![t] = new],
         Quiet(thread[t], new)
  PROVE  SetUp'
BY SameKeeps, KeepsLessens, QuietSetUp DEF Still, Quiet

LEMMA TurnsSetUp ==
  ASSUME Inv, SetUp, NEW t \in Threads, Turns(t) \/ TurnsLosing(t)
  PROVE  SetUp'
<1>1. CASE Turns(t)
  BY <1>1, SameKeeps, KeepsLessens, QuietSetUp DEF Turns, Calm
<1>2. CASE TurnsLosing(t)
  BY <1>2, KeepsLessens, QuietSetUp DEF TurnsLosing, Loses, Calm
<1> QED
  BY <1>1, <1>2

LEMMA RestsSetUp ==
  ASSUME SetUp, Rests
  PROVE  SetUp'
<1>1. ~Talks(Blank) /\ thread'[Main] = Blank
  BY ThreadNames, QuietOf DEF Rests
<1>2. Ahead(thread'[Main])
  BY <1>1 DEF Ahead, Has, Talks, Talk
<1> QED
  BY <1>2, SetUpKept DEF Rests

LEMMA AheadGoesOn ==
  ASSUME Inv, Base, NEW t \in Threads, NEW name, NEW new, GoesOn(t, name, new), name \notin Sets,
         Ahead(thread[t])
  PROVE  Ahead(new)
<1> DEFINE th == thread[t]
<1>1. /\ CallsIn(th.todo) = {Head(th.todo)} \cup CallsIn(new.todo)
      /\ Names(th.todo) = {name} \cup Names(new.todo)
      /\ new.sid = th.sid /\ new.cid = th.cid /\ new.gen = th.gen
  BY DEF GoesOn
<1>2. Head(th.todo).name = name
  BY AtKnows DEF GoesOn
<1>3. \A key \in Keys : Set(key) \in CallsIn(th.todo) => Set(key) \in CallsIn(new.todo)
  BY <1>1, <1>2, CallName
<1> HIDE DEF th
<1>4. \A key : IsSet(th, key) => IsSet(new, key)
  BY <1>1 DEF IsSet
<1> QED
  BY <1>1, <1>3, <1>4 DEF Ahead, Has, th

LEMMA ExchangeSetUp ==
  ASSUME Inv, Base, SetUp, NEW t \in Threads, Exchange(t)
  PROVE  SetUp'
<1>1. ASSUME NEW new, GoesOn(t, "exchange", new), Fades, sessionList' = sessionList, reused' = reused
      PROVE  SetUp'
  <2>1. thread'[Main] = thread[Main] \/ (t = Main /\ thread'[Main] = new)
    BY <1>1, ThreadNames DEF GoesOn, Inv, ThreadsInv
  <2>2. Ahead(thread[Main]) => Ahead(thread'[Main])
    BY <1>1, <2>1, AheadGoesOn DEF Sets
  <2> QED
    BY <1>1, <2>2, SameKeeps, KeepsLessens, SetUpKept
<1> QED
  BY <1>1, ExchangeKinds, TurnsSetUp

LEMMA DeactivateSetUp ==
  ASSUME Inv, Base, SetUp, NEW t \in Threads, Deactivate(t)
  PROVE  SetUp'
<1>1. /\ At(t, "DeactivateAllConnections") /\ SetActive(thread[t].sid, Cids, FALSE)
      /\ Continue(t, Rest(t)) /\ reused' = reused
  BY OnlyTableKeeps DEF Deactivate, DeactivateAllConnections
<1>2. PICK new : GoesOn(t, "DeactivateAllConnections", new)
  BY <1>1, RestGoesOn DEF ReportCalls, ListCalls
<1>3. ~Talks(new)
  BY <1>2 DEF GoesOn, Talks, Talk, Sets, Follows
<1> QED
  BY <1>1, <1>2, <1>3, DeactivatedKeeps, KeepsLessens, QuietSetUp DEF GoesOn

LEMMA ReleaseSetUp ==
  ASSUME Inv, Base, SetUp, NEW t \in Threads, Release(t)
  PROVE  SetUp'
<1>1. /\ Continue(t, Rest(t)) /\ reused' = reused
      /\ \/ At(t, "ReleaseSession") /\ ReleaseSession(thread[t].sid)
         \/ At(t, "ReleaseConnection") /\ ReleaseConnection(thread[t].sid, thread[t].cid)
  BY OnlyTableKeeps DEF Release
<1>2. PICK name \in {"ReleaseSession", "ReleaseConnection"} : At(t, name)
  BY <1>1
<1>3. PICK new : GoesOn(t, name, new)
  BY <1>1, <1>2, RestGoesOn DEF ReportCalls, ListCalls
<1>4. ~Talks(new)
  BY <1>3 DEF GoesOn, Talks, Talk, Sets, Follows
<1>5. Lessens
  BY <1>1, ReleasedKeeps, KeepsLessens, ConnectionReleasedLessens
<1> QED
  BY <1>1, <1>3, <1>4, <1>5, QuietSetUp DEF GoesOn

\* A new session has nothing active, and the thread that created it has every
\* parameter still to set.
LEMMA CreateSetUp ==
  ASSUME Inv, Inv', Base, SetUp, NEW t \in Threads, Create(t)
  PROVE  SetUp'
<1>1. ASSUME NEW sid, NEW new, Creates(t, sid, new)
      PROVE  SetUp'
  <2>1. /\ sid = NewSid /\ CreateSession(thread[t].iqn, thread[t].portal)
        /\ thread[t].portal \in Portals /\ sid \in Slots
        /\ thread' = [thread EXCEPT ![t] = new] /\ reused' = (reused \/ NumberInUse(t, sid))
        /\ new.todo = IF t = Main THEN LoginCalls ELSE DiscoveryCalls
    BY <1>1 DEF Creates
  <2>2. /\ \A s \in Slots \ {sid} : sessionList'[s] = sessionList[s]
        /\ Active(sid)' = {}
    BY <2>1, CreateSessionEffect DEF Inv, KernelInv
  <2>3. \A s \in Slots \ {sid} :
          /\ Exists(s)' <=> Exists(s)
          /\ Connections(s)' = Connections(s) /\ Active(s)' = Active(s)
    BY <2>2, SameSlot
  <2>4. CASE reused'
    BY <2>4 DEF SetUp, SetUpInv, ActiveIsSetUp
  <2>5. CASE ~reused'
    <3>1. ~reused /\ ~NumberInUse(t, sid)
      BY <2>1, <2>5
    <3>2. ActiveIsSetUp'
      BY <2>2, <2>3, <3>1 DEF SetUp, ActiveIsSetUp
    <3>3. SetUpInv'
      <4>1. CASE t = Main
        <5>1. thread'[Main] = new /\ new.todo = LoginCalls
          BY <2>1, <4>1 DEF Inv, ThreadsInv
        <5> QED
          BY <5>1, LoginList DEF SetUpInv, Ahead
      <4>2. CASE t # Main
        <5>1. thread'[Main] = thread[Main] /\ thread[Main].sid # sid
          BY <2>1, <3>1, <4>2, ThreadNames DEF Inv, ThreadsInv, NumberInUse
        <5>2. PICK x : x = thread[Main]
          OBVIOUS
        <5>3. Ahead(x)
          BY <3>1, <5>2 DEF SetUp, SetUpInv
        <5>4. CASE ~Exists(x.sid)'
          BY <5>1, <5>2, <5>4 DEF SetUpInv, Ahead
        <5>5. CASE Exists(x.sid)'
          <6>1. x.sid \in Slots \ {sid}
            BY <5>1, <5>2, <5>5 DEF Exists
          <6>2. /\ sessionList'[x.sid] = sessionList[x.sid] /\ Exists(x.sid)
                /\ Connections(x.sid)' = Connections(x.sid)
            BY <2>2, <2>3, <5>5, <6>1
          <6> QED
            BY <5>1, <5>2, <5>3, <6>2 DEF SetUpInv, Ahead, IsSet
        <5> QED
          BY <5>4, <5>5
      <4> QED
        BY <4>1, <4>2
    <3> QED
      BY <3>2, <3>3 DEF SetUp
  <2> QED
    BY <2>4, <2>5
<1> QED
  BY <1>1, CreateKinds, TurnsSetUp

LEMMA AddConnectionSetUp ==
  ASSUME Inv, Base, SetUp, NEW t \in Threads, AddConnection(t)
  PROVE  SetUp'
<1>1. ASSUME NEW sid, NEW cid, NEW new, AddsConnection(t, sid, cid, new)
      PROVE  SetUp'
  <2>1. /\ CreateConnection(sid, thread[t].portal) /\ thread[t].portal \in Portals
        /\ cid = NewCid(sid) /\ t = Main
        /\ thread' = [thread EXCEPT ![t] = new] /\ reused' = reused
        /\ Names(new.todo) = {"GetTargetIQNForSessionId", "ReleaseConnection"}
    BY <1>1 DEF AddsConnection
  <2>2. /\ Exists(sid) /\ \A s \in Slots \ {sid} : sessionList'[s] = sessionList[s]
        /\ Exists(sid)' /\ Gen(sid)' = Gen(sid)
        /\ sessionList'[sid].parameters = sessionList[sid].parameters
        /\ Active(sid)' = Active(sid)
        /\ \A c \in Connections(sid) :
               sessionList'[sid].connections[c] = sessionList[sid].connections[c]
    BY <2>1, CreateConnectionEffect DEF Inv, KernelInv
  <2>3. \A s \in Slots \ {sid} : Active(s)' = Active(s)
    BY <2>2, SameSlot
  <2>4. sessionList'[sid].gen = sessionList[sid].gen
    BY <2>2 DEF Gen
  <2>5. \A c \in Active(sid) : sessionList'[sid].connections[c] = sessionList[sid].connections[c]
    BY <2>2 DEF Active
  <2>6. ActiveIsSetUp'
    BY <2>1, <2>2, <2>3, <2>4, <2>5 DEF SetUp, ActiveIsSetUp
  <2>7. thread'[Main] = new
    BY <2>1, ThreadNames DEF Inv, ThreadsInv
  <2>8. SetUpInv'
    BY <2>1, <2>7 DEF SetUpInv, Ahead, Has
  <2> QED
    BY <2>6, <2>8 DEF SetUp
<1> QED
  BY <1>1, AddConnectionKinds, TurnsSetUp

\* What a thread sets is one parameter of its own session or connection.
SetsParameter(t, key, new) ==
  LET th == thread[t]
      value == [key |-> key, gen |-> th.gen]
  IN  /\ \E name \in Sets : GoesOn(t, name, new)
      /\ Head(th.todo) = Set(key)
      /\ \A s \in Slots : /\ Exists(s)' <=> Exists(s)
                          /\ Gen(s)' = Gen(s) /\ Connections(s)' = Connections(s)
                          /\ Active(s)' = Active(s)
      /\ \A s \in Slots, k \in SessionKeys : Exists(s) =>
           sessionList'[s].parameters[k] =
              IF s = th.sid /\ k = key THEN value ELSE sessionList[s].parameters[k]
      /\ \A s \in Slots, k \in ConnectionKeys : \A c \in Connections(s) :
           sessionList'[s].connections[c].parameters[k] =
              IF s = th.sid /\ c = th.cid /\ k = key THEN value
              ELSE sessionList[s].connections[c].parameters[k]
      /\ targetList' = targetList /\ created' = created
      /\ messages' = messages /\ reused' = reused /\ atStart' = atStart
      /\ activeTargets' = activeTargets

LEMMA SetParameterIs ==
  ASSUME Inv, Base, NEW t \in Threads, SetParameter(t)
  PROVE  \E key \in Keys : \E new : SetsParameter(t, key, new)
<1> DEFINE th == thread[t]
<1>1. PICK name \in Sets, key \in Keys, value \in Value :
         /\ At(t, name) /\ Head(th.todo).key = key
         /\ value = [key |-> key, gen |-> th.gen] /\ value.key = key
         /\ Head(th.todo) \in Calls
         /\ key \in SessionKeys => SetSessionParameter(th.sid, value)
         /\ key \notin SessionKeys => SetConnectionParameter(th.sid, th.cid, value)
                                      /\ key \in ConnectionKeys
  BY SetsValue
<1>2. /\ Continue(t, Rest(t)) /\ messages' = messages /\ reused' = reused /\ atStart' = atStart
      /\ activeTargets' = activeTargets
  BY OnlyTableKeeps DEF SetParameter
<1>3. PICK new : GoesOn(t, name, new)
  BY <1>1, <1>2, RestGoesOn DEF Sets, ReportCalls, ListCalls
<1>4. Head(th.todo) = Set(key)
  <2>1. PICK c : c = Head(th.todo)
    OBVIOUS
  <2>2. c \in Calls /\ c.name \in Sets /\ c.key = key
    BY <1>1, <2>1, AtKnows
  <2>3. c \in {Set(k) : k \in Keys}
    BY <2>2 DEF Calls, Call, CallNames, Get, Sets
  <2> QED
    BY <2>1, <2>2, <2>3, CallName
<1>5. TableInv
  BY DEF Inv, KernelInv
<1>6. CASE key \in SessionKeys
  <2>1. /\ \A s \in Slots \ {th.sid} : sessionList'[s] = sessionList[s]
        /\ \A s \in Slots : /\ Exists(s)' <=> Exists(s)
                            /\ Gen(s)' = Gen(s) /\ Connections(s)' = Connections(s)
                            /\ Active(s)' = Active(s)
                            /\ Exists(s) => sessionList'[s].connections = sessionList[s].connections
        /\ Exists(th.sid) => \A k \in SessionKeys :
              sessionList'[th.sid].parameters[k] =
                 IF k = key THEN value ELSE sessionList[th.sid].parameters[k]
        /\ targetList' = targetList /\ created' = created
    BY <1>1, <1>5, <1>6, SetSessionParameterEffect
  <2>2. \A k \in ConnectionKeys : k # key
    BY <1>6 DEF SessionKeys, ConnectionKeys
  <2>3. \A s : Connections(s) # {} => Exists(s)
    BY DEF Connections
  <2>4. \A s \in Slots, k \in ConnectionKeys : \A c \in Connections(s) :
           sessionList'[s].connections[c].parameters[k] =
              sessionList[s].connections[c].parameters[k]
    BY <2>1, <2>3
  <2> HIDE DEF th
  <2>5. \A s \in Slots, k \in SessionKeys : Exists(s) =>
           sessionList'[s].parameters[k] =
              IF s = th.sid /\ k = key THEN value ELSE sessionList[s].parameters[k]
    BY <2>1
  <2>6. SetsParameter(t, key, new)
    BY <1>1, <1>2, <1>3, <1>4, <2>1, <2>2, <2>4, <2>5 DEF SetsParameter, th
  <2> QED
    BY <2>6
<1>7. CASE key \notin SessionKeys
  <2>1. /\ \A s \in Slots \ {th.sid} : sessionList'[s] = sessionList[s]
        /\ \A s \in Slots : /\ Exists(s)' <=> Exists(s)
                            /\ Gen(s)' = Gen(s) /\ Connections(s)' = Connections(s)
                            /\ Active(s)' = Active(s)
                            /\ sessionList'[s].parameters = sessionList[s].parameters
        /\ \A c \in Connections(th.sid), k \in ConnectionKeys :
              sessionList'[th.sid].connections[c].parameters[k] =
                 IF c = th.cid /\ k = key THEN value
                 ELSE sessionList[th.sid].connections[c].parameters[k]
        /\ targetList' = targetList /\ created' = created
    BY <1>1, <1>5, <1>7, SetConnectionParameterEffect
  <2> HIDE DEF th
  <2>2. \A s \in Slots, k \in ConnectionKeys : \A c \in Connections(s) :
           sessionList'[s].connections[c].parameters[k] =
              IF s = th.sid /\ c = th.cid /\ k = key THEN value
              ELSE sessionList[s].connections[c].parameters[k]
    BY <2>1
  <2>3. \A s \in Slots, k \in SessionKeys : Exists(s) =>
           sessionList'[s].parameters[k] =
              IF s = th.sid /\ k = key THEN value ELSE sessionList[s].parameters[k]
    BY <1>7, <2>1
  <2>4. SetsParameter(t, key, new)
    BY <1>1, <1>2, <1>3, <1>4, <2>1, <2>2, <2>3 DEF SetsParameter, th
  <2> QED
    BY <2>4
<1> QED
  BY <1>6, <1>7

LEMMA KnownOf ==
  ASSUME Base, ~reused, NEW t \in Threads, thread[t].op # "sleep", Exists(thread[t].sid)
  PROVE  Gen(thread[t].sid) = thread[t].gen
BY DEF Base, KnownInv, Known

LEMMA SetParameterSetUp ==
  ASSUME Inv, Base, SetUp, NEW t \in Threads, SetParameter(t)
  PROVE  SetUp'
<1>0. PICK key \in Keys : \E new : SetsParameter(t, key, new)
  BY SetParameterIs
<1>1. PICK new : SetsParameter(t, key, new)
  BY <1>0
<1> DEFINE th == thread[t]
<1>2. PICK value : value = [key |-> key, gen |-> th.gen]
  OBVIOUS
<1>3. /\ \A s \in Slots : /\ Exists(s)' <=> Exists(s)
                          /\ Gen(s)' = Gen(s) /\ Connections(s)' = Connections(s)
                          /\ Active(s)' = Active(s)
      /\ \A s \in Slots, k \in SessionKeys : Exists(s) =>
           sessionList'[s].parameters[k] =
              IF s = th.sid /\ k = key THEN value ELSE sessionList[s].parameters[k]
      /\ \A s \in Slots, k \in ConnectionKeys : \A c \in Connections(s) :
           sessionList'[s].connections[c].parameters[k] =
              IF s = th.sid /\ c = th.cid /\ k = key THEN value
              ELSE sessionList[s].connections[c].parameters[k]
      /\ reused' = reused
  BY <1>1, <1>2 DEF SetsParameter
<1>4. PICK name \in Sets : GoesOn(t, name, new)
  BY <1>1 DEF SetsParameter
<1>5. th.op # "sleep" /\ Head(th.todo) = Set(key) /\ thread' = [thread EXCEPT ![t] = new]
  BY <1>1, <1>4 DEF GoesOn, SetsParameter, Lists
<1>6. CASE reused
  BY <1>3, <1>6 DEF SetUp, SetUpInv, ActiveIsSetUp
<1>7. CASE ~reused
  <2> HIDE DEF th
  <2>1. ActiveIsSetUp'
    <3>1. ASSUME NEW sid \in Slots, Active(sid)' # {}
          PROVE  /\ \A k \in SessionKeys :
                      sessionList'[sid].parameters[k] = [key |-> k, gen |-> sessionList'[sid].gen]
                 /\ \A cid \in Active(sid)', k \in ConnectionKeys :
                      sessionList'[sid].connections[cid].parameters[k]
                         = [key |-> k, gen |-> sessionList'[sid].gen]
      <4>1. /\ Active(sid)' = Active(sid) /\ Active(sid) # {} /\ Exists(sid) /\ Exists(sid)'
            /\ \A cid \in Active(sid) : cid \in Connections(sid)
        BY <1>3, <3>1, ExistsAfter DEF Active
      <4>2. sessionList'[sid].gen = sessionList[sid].gen
        BY <1>3, <4>1 DEF Gen
      <4>3. sid = th.sid => th.gen = sessionList[sid].gen
        BY <1>5, <1>7, <4>1, KnownOf DEF Gen, th
      <4>4. /\ \A k \in SessionKeys :
                 sessionList[sid].parameters[k] = [key |-> k, gen |-> sessionList[sid].gen]
            /\ \A cid \in Active(sid), k \in ConnectionKeys :
                 sessionList[sid].connections[cid].parameters[k]
                    = [key |-> k, gen |-> sessionList[sid].gen]
        BY <1>7, <4>1 DEF SetUp, ActiveIsSetUp
      <4>5. ASSUME NEW k \in SessionKeys
            PROVE  sessionList'[sid].parameters[k] = [key |-> k, gen |-> sessionList'[sid].gen]
        BY <1>2, <1>3, <4>1, <4>2, <4>3, <4>4
      <4>6. ASSUME NEW cid \in Active(sid)', NEW k \in ConnectionKeys
            PROVE  sessionList'[sid].connections[cid].parameters[k]
                         = [key |-> k, gen |-> sessionList'[sid].gen]
        BY <1>2, <1>3, <4>1, <4>2, <4>3, <4>4
      <4> QED
        BY <4>5, <4>6
    <3> QED
      BY <3>1 DEF ActiveIsSetUp
  <2>2. SetUpInv'
    <3>1. PICK x : x = thread'[Main]
      OBVIOUS
    <3>2. SUFFICES ASSUME Has(x, "ActivateConnection"), Exists(x.sid)', NEW k \in Keys,
                          Set(k) \notin CallsIn(x.todo)
                   PROVE  IF k \in SessionKeys
                            THEN sessionList'[x.sid].parameters[k] = [key |-> k, gen |-> x.gen]
                            ELSE x.cid \in Connections(x.sid)' =>
                                   sessionList'[x.sid].connections[x.cid].parameters[k]
                                      = [key |-> k, gen |-> x.gen]
      BY <3>1 DEF SetUpInv, Ahead, IsSet, Has
    <3>3. x.sid \in Slots /\ Exists(x.sid) /\ Connections(x.sid)' = Connections(x.sid)
      BY <1>3, <3>2 DEF Exists
    <3>4. \/ t = Main /\ x = new
          \/ t # Main /\ x = thread[Main]
      BY <1>5, <3>1, ThreadNames DEF Inv, ThreadsInv
    <3>5. Ahead(thread[Main])
      BY <1>7 DEF SetUp, SetUpInv
    <3>6. IF t = Main /\ k = key THEN x.sid = th.sid /\ x.cid = th.cid /\ x.gen = th.gen
                                 ELSE IsSet(x, k)
      <4>1. CASE t = Main
        <5>1. /\ CallsIn(th.todo) = {Head(th.todo)} \cup CallsIn(x.todo)
              /\ Names(th.todo) = {name} \cup Names(x.todo)
              /\ x.sid = th.sid /\ x.cid = th.cid /\ x.gen = th.gen
          BY <1>4, <3>4, <4>1 DEF GoesOn, th
        <5>2. CASE k # key
          <6>1. Set(k) # Set(key)
            BY <5>2, CallName
          <6>2. IsSet(th, k)
            BY <1>5, <3>2, <3>3, <3>5, <4>1, <5>1, <6>1 DEF Ahead, Has, th
          <6> QED
            BY <5>1, <5>2, <6>2 DEF IsSet
        <5> QED
          BY <4>1, <5>1, <5>2
      <4>2. CASE t # Main
        BY <3>2, <3>3, <3>4, <3>5, <4>2 DEF Ahead
      <4> QED
        BY <4>1, <4>2
    <3>7. x.sid = th.sid => x.gen = th.gen
      <4>1. CASE t = Main
        BY <1>4, <3>4, <4>1 DEF GoesOn, th
      <4>2. CASE t # Main
        <5>1. Main \in Threads /\ x = thread[Main]
          BY <3>4, <4>2, ThreadNames
        <5>2. x.op # "sleep"
          BY <3>2, <5>1 DEF Base, ShapeInv, Proper, Meets, LogsIn, Has
        <5>3. Gen(x.sid) = x.gen
          BY <1>7, <3>3, <5>1, <5>2, KnownOf
        <5> QED
          BY <1>5, <1>7, <3>3, <5>3, KnownOf DEF th
      <4> QED
        BY <4>1, <4>2
    <3>8. CASE k \in SessionKeys
      <4>1. sessionList'[x.sid].parameters[k] =
              IF x.sid = th.sid /\ k = key THEN value ELSE sessionList[x.sid].parameters[k]
        BY <1>3, <3>3, <3>8
      <4> QED
        BY <1>2, <3>6, <3>7, <3>8, <4>1 DEF IsSet
    <3>9. CASE k \notin SessionKeys
      <4>1. SUFFICES ASSUME x.cid \in Connections(x.sid)
                     PROVE sessionList'[x.sid].connections[x.cid].parameters[k]
                              = [key |-> k, gen |-> x.gen]
        BY <3>3, <3>9
      <4>2. sessionList'[x.sid].connections[x.cid].parameters[k] =
              IF x.sid = th.sid /\ x.cid = th.cid /\ k = key THEN value
              ELSE sessionList[x.sid].connections[x.cid].parameters[k]
        BY <1>3, <3>3, <3>9, <4>1 DEF Keys
      <4> QED
        BY <1>2, <3>6, <3>7, <3>9, <4>1, <4>2 DEF IsSet
    <3> QED
      BY <3>8, <3>9
  <2> QED
    BY <2>1, <2>2 DEF SetUp
<1> QED
  BY <1>6, <1>7

\* A connection is activated when it is the last thing to do, or else the target is
\* not mounted.
Activates(t, new) ==
  LET th == thread[t]
  IN  /\ t = Main /\ At(t, "ActivateConnection") /\ GoesOn(t, "ActivateConnection", new)
      /\ LogsIn(th.op) /\ CallsIn(th.todo) = {Call("ActivateConnection")} /\ Names(new.todo) = {}
      /\ Fades
      /\ \A s \in Slots : /\ Exists(s)' <=> Exists(s)
                          /\ Gen(s)' = Gen(s) /\ Connections(s)' = Connections(s)
                          /\ sessionList'[s].parameters = sessionList[s].parameters
                          /\ \A c \in Connections(s) :
                               sessionList'[s].connections[c].parameters =
                                  sessionList[s].connections[c].parameters
      /\ \A s \in Slots : /\ Active(s) \subseteq Active(s)'
                          /\ Active(s)' \subseteq Active(s) \cup
                               (IF s = th.sid THEN {th.cid} \cap Connections(s) ELSE {})
                          /\ s = th.sid /\ th.cid \in Connections(s) =>
                               th.cid \in Active(s)' \/ Gen(s) \in notMounted'
      /\ messages' = messages /\ reused' = reused /\ atStart' = atStart
      /\ activeTargets' = activeTargets

LEMMA ActivateIs ==
  ASSUME Inv, Base, NEW t \in Threads, Activate(t)
  PROVE  \E new : Activates(t, new)
<1> DEFINE th == thread[t]
<1>1. /\ At(t, "ActivateConnection") /\ Continue(t, Rest(t))
      /\ SetActive(th.sid, {th.cid}, TRUE) \/ MountFails(th.sid, th.cid)
      /\ messages' = messages /\ reused' = reused /\ atStart' = atStart
      /\ activeTargets' = activeTargets
  BY OnlyTableKeeps DEF Activate, ActivateConnection
<1>2. PICK new : GoesOn(t, "ActivateConnection", new)
  BY <1>1, RestGoesOn DEF ReportCalls, ListCalls
<1>3. LogsIn(th.op) /\ Head(th.todo).name = "ActivateConnection" /\ Head(th.todo) \in Calls
  BY <1>1, AtKnows DEF Meets
<1>4. t = Main
  BY <1>3, ThreadNames DEF Inv, ThreadsInv, LogsIn
<1>5. Head(th.todo) = Call("ActivateConnection")
  <2>1. PICK c : c = Head(th.todo)
    OBVIOUS
  <2>2. c \in {Call(name) : name \in CallNames}
    BY <1>3, <2>1 DEF Calls, Set, Get
  <2> QED
    BY <1>3, <2>1, <2>2, CallName
<1>6. Names(Rest(t)) = {} /\ CallsIn(th.todo) = {Head(th.todo)}
  BY <1>1, AloneIsAll
<1>7. Names(new.todo) = {} /\ CallsIn(th.todo) = {Call("ActivateConnection")}
  BY <1>2, <1>5, <1>6 DEF GoesOn
<1>0. PICK sid : sid = th.sid
  OBVIOUS
<1>8. /\ \A s \in Slots \ {sid} : sessionList'[s] = sessionList[s]
      /\ \A s \in Slots : /\ Exists(s)' <=> Exists(s)
                          /\ Gen(s)' = Gen(s) /\ Connections(s)' = Connections(s)
                          /\ sessionList'[s].parameters = sessionList[s].parameters
                          /\ \A c \in Connections(s) :
                               sessionList'[s].connections[c].parameters =
                                  sessionList[s].connections[c].parameters
      /\ \/ Active(sid)' = Active(sid) \cup ({th.cid} \cap Connections(sid))
         \/ Active(sid)' = Active(sid) /\ Gen(sid) \in notMounted'
  <2>1. CASE SetActive(th.sid, {th.cid}, TRUE)
    BY <1>0, <2>1, SetActiveEffect DEF Inv, KernelInv
  <2>2. CASE MountFails(th.sid, th.cid)
    <3>1. sessionList' = sessionList /\ Gen(sid) \in notMounted'
      BY <1>0, <2>2 DEF MountFails
    <3> QED
      BY <3>1, SameSlots
  <2> QED
    BY <1>1, <2>1, <2>2
<1>9. Fades
  BY <1>1, SetActiveFades, MountFailsFades
<1>10. ASSUME NEW s \in Slots
       PROVE  /\ Active(s) \subseteq Active(s)'
              /\ Active(s)' \subseteq Active(s) \cup
                   (IF s = th.sid THEN {th.cid} \cap Connections(s) ELSE {})
              /\ s = th.sid /\ th.cid \in Connections(s) =>
                   th.cid \in Active(s)' \/ Gen(s) \in notMounted'
  <2>1. CASE s = sid
    BY <1>0, <1>8, <2>1
  <2>2. CASE s # sid
    <3>1. sessionList'[s] = sessionList[s]
      BY <1>8, <2>2
    <3>2. Active(s)' = Active(s)
      BY <3>1, SameSlot
    <3> QED
      BY <1>0, <2>2, <3>2
  <2> QED
    BY <2>1, <2>2
<1> HIDE DEF th
<1>11. Activates(t, new)
  BY <1>1, <1>2, <1>3, <1>4, <1>7, <1>8, <1>9, <1>10 DEF Activates, th
<1> QED
  BY <1>11

LEMMA ActivateSetUp ==
  ASSUME Inv, Base, SetUp, NEW t \in Threads, Activate(t)
  PROVE  SetUp'
<1>1. PICK new : Activates(t, new)
  BY ActivateIs
<1>2. PICK th : th = thread[t]
  OBVIOUS
<1>3. /\ t = Main /\ GoesOn(t, "ActivateConnection", new)
      /\ LogsIn(th.op) /\ CallsIn(th.todo) = {Call("ActivateConnection")} /\ Names(new.todo) = {}
      /\ \A s \in Slots : /\ Exists(s)' <=> Exists(s)
                          /\ Gen(s)' = Gen(s) /\ Connections(s)' = Connections(s)
                          /\ sessionList'[s].parameters = sessionList[s].parameters
                          /\ \A c \in Connections(s) :
                               sessionList'[s].connections[c].parameters =
                                  sessionList[s].connections[c].parameters
      /\ \A s \in Slots : Active(s)' \subseteq Active(s) \cup
           (IF s = th.sid THEN {th.cid} \cap Connections(s) ELSE {})
      /\ reused' = reused
  BY <1>1, <1>2 DEF Activates
<1>4. thread'[Main] = new
  BY <1>3, ThreadNames DEF GoesOn, Inv, ThreadsInv
<1>5. SetUpInv'
  BY <1>3, <1>4 DEF SetUpInv, Ahead, Has
<1>6. CASE reused
  BY <1>3, <1>6 DEF SetUp, SetUpInv, ActiveIsSetUp
<1>7. CASE ~reused
  <2>1. ASSUME NEW sid \in Slots, Active(sid)' # {}
        PROVE  /\ \A k \in SessionKeys :
                    sessionList'[sid].parameters[k] = [key |-> k, gen |-> sessionList'[sid].gen]
               /\ \A cid \in Active(sid)', k \in ConnectionKeys :
                    sessionList'[sid].connections[cid].parameters[k]
                       = [key |-> k, gen |-> sessionList'[sid].gen]
    <3>1. /\ Exists(sid) /\ Exists(sid)' /\ Gen(sid)' = Gen(sid)
          /\ sessionList'[sid].parameters = sessionList[sid].parameters
          /\ \A c \in Connections(sid) :
                sessionList'[sid].connections[c].parameters =
                   sessionList[sid].connections[c].parameters
          /\ Active(sid)' \subseteq Active(sid) \cup
               (IF sid = th.sid THEN {th.cid} \cap Connections(sid) ELSE {})
      BY <1>3, <2>1, ExistsAfter
    <3>2. sessionList'[sid].gen = sessionList[sid].gen
      BY <3>1 DEF Gen
    <3>3. \A c \in Active(sid) : c \in Connections(sid)
      BY DEF Active
    <3>4. ASSUME sid = th.sid, th.cid \in Connections(sid)
          PROVE  /\ \A k \in SessionKeys :
                      sessionList[sid].parameters[k] = [key |-> k, gen |-> sessionList[sid].gen]
                 /\ \A k \in ConnectionKeys :
                      sessionList[sid].connections[th.cid].parameters[k]
                         = [key |-> k, gen |-> sessionList[sid].gen]
      <4>1. th.op # "sleep" /\ Main \in Threads
        BY <1>3, ThreadNames DEF LogsIn
      <4>2. th.gen = sessionList[sid].gen
        BY <1>2, <1>3, <1>7, <3>1, <3>4, <4>1, KnownOf DEF Gen
      <4>3. Has(th, "ActivateConnection")
        BY <1>3, CallName DEF Has, Names
      <4>4. \A k \in Keys : Set(k) \notin CallsIn(th.todo)
        BY <1>3, CallName DEF Sets
      <4>5. Ahead(th)
        BY <1>2, <1>3, <1>7 DEF SetUp, SetUpInv
      <4>6. \A k \in Keys : IsSet(th, k)
        BY <3>1, <3>4, <4>3, <4>4, <4>5 DEF Ahead
      <4>7. \A k \in ConnectionKeys : k \in Keys /\ k \notin SessionKeys
        BY DEF Keys, ConnectionKeys, SessionKeys
      <4> QED
        BY <3>4, <4>2, <4>6, <4>7 DEF IsSet, Keys
    <3>5. Active(sid) # {} =>
            /\ \A k \in SessionKeys :
                 sessionList[sid].parameters[k] = [key |-> k, gen |-> sessionList[sid].gen]
            /\ \A cid \in Active(sid), k \in ConnectionKeys :
                 sessionList[sid].connections[cid].parameters[k]
                    = [key |-> k, gen |-> sessionList[sid].gen]
      BY <1>7 DEF SetUp, ActiveIsSetUp
    <3>6. \A k \in SessionKeys :
                    sessionList'[sid].parameters[k] = [key |-> k, gen |-> sessionList'[sid].gen]
      BY <2>1, <3>1, <3>2, <3>4, <3>5
    <3>7. ASSUME NEW cid \in Active(sid)', NEW k \in ConnectionKeys
          PROVE  sessionList'[sid].connections[cid].parameters[k]
                       = [key |-> k, gen |-> sessionList'[sid].gen]
      <4>1. CASE cid \in Active(sid)
        BY <3>1, <3>2, <3>3, <3>5, <4>1
      <4>2. CASE sid = th.sid /\ cid = th.cid /\ cid \in Connections(sid)
        BY <3>1, <3>2, <3>4, <4>2
      <4> QED
        BY <3>1, <3>7, <4>1, <4>2
    <3> QED
      BY <3>6, <3>7
  <2>2. ActiveIsSetUp'
    BY <2>1 DEF ActiveIsSetUp
  <2> QED
    BY <1>5, <2>2 DEF SetUp
<1> QED
  BY <1>6, <1>7

\* The kernel's own steps, and those in which nothing changes.
LEMMA KernelStepSetUp ==
  ASSUME Inv, Base, SetUp, ConnectionLost \/ SessionDropped, UNCHANGED thread, UNCHANGED daemonVars
  PROVE  SetUp'
<1>1. /\ reused' = reused
      /\ Rests \/ (\E s : Loses(s)) \/ \E s : ReleaseSession(s)
  BY KernelStepKinds
<1>2. CASE Rests
  BY <1>2, RestsSetUp
<1>3. ASSUME Lessens
      PROVE  SetUp'
  BY <1>1, <1>3, SetUpKept
<1> QED
  BY <1>1, <1>2, <1>3, ReleasedKeeps, KeepsLessens DEF Loses

LEMMA ThreadStepSetUp ==
  ASSUME Inv, Inv', Base, SetUp, NEW t \in Threads, ThreadStep(t)
  PROVE  SetUp'
<1>1. CASE LookUpSession(t)
  BY <1>1, LookUpSessionIs, OnlyThreadStill, StillSetUp DEF LookUpSession
<1>2. CASE LookUpConnection(t)
  BY <1>2, LookUpConnectionIs, OnlyThreadStill, StillSetUp DEF LookUpConnection
<1>3. CASE Create(t)
  BY <1>3, CreateSetUp
<1>4. CASE AddConnection(t)
  BY <1>4, AddConnectionSetUp
<1>5. CASE Exchange(t)
  BY <1>5, ExchangeSetUp
<1>6. CASE Query(t)
  BY <1>6, QueryKinds, TurnsSetUp
<1>7. CASE SetParameter(t)
  BY <1>7, SetParameterSetUp
<1>8. CASE Activate(t)
  BY <1>8, ActivateSetUp
<1>9. CASE Deactivate(t)
  BY <1>9, DeactivateSetUp
<1>10. CASE LogoutExchange(t)
  BY <1>10, LogoutExchangeTurns, TurnsSetUp
<1>11. CASE Release(t)
  BY <1>11, ReleaseSetUp
<1>12. CASE LogoutUnmounts(t)
  BY <1>12, LogoutUnmountsTurns, TurnsSetUp
<1>13. CASE LogoutOfPortal(t)
  BY <1>13, LogoutOfPortalTurns, TurnsSetUp, CrashRests, RestsSetUp
<1>14. CASE ReadParameter(t)
  BY <1>14, ReadParameterIs, StillSetUp
<1>15. CASE ListSessions(t)
  BY <1>15, ListSessionsIs, StillSetUp
<1>16. CASE ListTarget(t)
  BY <1>16, ListTargetTurns, TurnsSetUp, CrashRests, RestsSetUp
<1>17. CASE SleepTarget(t)
  BY <1>17, SleepTargetIs, StillSetUp
<1>18. CASE SleepSession(t)
  BY <1>18, SleepSessionIs, StillSetUp, CrashRests, RestsSetUp
<1>19. CASE CopyTarget(t)
  BY <1>19, CopyTargetTurns, TurnsSetUp, CrashRests, RestsSetUp
<1>20. CASE CopyPortal(t)
  BY <1>20, CopyPortalTurns, TurnsSetUp
<1>21. CASE TimeoutCallback(t)
  BY <1>21, TimeoutCallbackTurns, TurnsSetUp, CrashRests, RestsSetUp
<1>22. CASE NextLogin(t)
  BY <1>22, NextLoginTurns, TurnsSetUp
<1>23. CASE Return(t)
  BY <1>23, ReturnTurns, TurnsSetUp
<1> QED
  BY <1>1, <1>2, <1>3, <1>4, <1>5, <1>6, <1>7, <1>8, <1>9, <1>10, <1>11, <1>12, <1>13, <1>14,
     <1>15, <1>16, <1>17, <1>18, <1>19, <1>20, <1>21, <1>22, <1>23 DEF ThreadStep

LEMMA HandleNotificationSetUp ==
  ASSUME Inv, Base, SetUp, HandleNotification
  PROVE  SetUp'
<1>1. PICK new : /\ thread' = [thread EXCEPT ![Main] = new] /\ ~Talks(new)
                 /\ sessionList' = sessionList /\ Fades /\ reused' = reused
  BY HandleNotificationIs DEF Calm
<1> QED
  BY <1>1, SameKeeps, KeepsLessens, QuietSetUp, ThreadNames

LEMMA InitSetUp == Init => SetUp
<1> SUFFICES ASSUME Init PROVE SetUp
  OBVIOUS
<1>1. \A s : ~Exists(s)
  BY DEF Init, UserClientInit, Exists
<1> QED
  BY <1>1, NoSession DEF SetUp, SetUpInv, ActiveIsSetUp, Ahead

LEMMA StepSetUp == Inv /\ Inv' /\ Base /\ SetUp /\ [Next]_vars => SetUp'
<1> SUFFICES ASSUME Inv, Inv', Base, SetUp, [Next]_vars PROVE SetUp'
  OBVIOUS
<1>1. CASE \E t \in Threads : ThreadStep(t)
  BY <1>1, ThreadStepSetUp
<1>2. CASE Begins
  BY <1>2, BeginsTurns, TurnsSetUp
<1>3. CASE HandleNotification
  BY <1>3, HandleNotificationSetUp
<1>4. CASE DiskUnmountComplete
  BY <1>4, DiskUnmountCompleteTurns, TurnsSetUp, ThreadNames
<1>5. CASE Restart
  BY <1>5, RestartRests, RestsSetUp
<1>6. CASE (ConnectionLost \/ SessionDropped) /\ UNCHANGED thread /\ UNCHANGED daemonVars
  BY <1>6, KernelStepSetUp
<1>7. CASE UNCHANGED vars
  <2>1. /\ sessionList' = sessionList /\ thread' = thread /\ reused' = reused
        /\ UNCHANGED tableVars
    BY <1>7 DEF vars, kernelVars, tableVars, daemonVars
  <2> QED
    BY <2>1, TableFades, SameKeeps, KeepsLessens, SetUpKept
<1> QED
  BY <1>1, <1>2, <1>3, <1>4, <1>5, <1>6, <1>7, NextCases

\* An active session has every parameter as its own login agreed on it, for any number
\* of sessions, connections and names, as long as no slot is filled whose number is
\* still in use: iSCSISessionLogin sets them all before it activates the connection, and
\* neither the other thread nor a loss of the connection comes between.
THEOREM ActiveSetUp == Spec => []ActiveIsSetUp
<1>1. Init => SetUp
  BY InitSetUp
<1>2. Inv /\ Inv' /\ Base /\ SetUp /\ [Next]_vars => SetUp'
  BY StepSetUp
<1>3. SetUp => ActiveIsSetUp
  BY DEF SetUp
<1> QED
  BY <1>1, <1>2, <1>3, AlwaysBase, PTL DEF Spec

-----------------------------------------------------------------------------
(* A report is of the session it was asked for: what has been read into it *)
(* is as the kernel has it, and the discovery thread, which sets           *)
(* parameters at the same time, sets those of another session.             *)

Apart == ~reused =>
  LET d == thread[Discovery]
      m == thread[Main]
  IN  Talks(d) /\ Exists(d.sid) => /\ \A iqn \in Targets : targetList[iqn] # d.sid
                                   /\ m.op \in Reports => m.sid # d.sid
Holds(th) == Has(th, "ActivateConnection") \/ (th.op = "connectionReport" /\ th.cid # None)
Read(th, key, value) == Get(key) \in CallsIn(th.todo) \/ th.report[key] = value
ReportInv == ~reused =>
  LET th == thread[Main]
  IN  Exists(th.sid) =>
        /\ Holds(th) => th.cid \in Connections(th.sid)
        /\ th.op = "sessionReport" =>
             \A key \in SessionKeys : Read(th, key, sessionList[th.sid].parameters[key])
        /\ th.op = "connectionReport" /\ th.cid # None =>
             \A key \in ConnectionKeys :
                Read(th, key, sessionList[th.sid].connections[th.cid].parameters[key])
Reported == Apart /\ ReportInv

\* What has to be shown of the run loop's thread.
LEMMA ReportIs ==
  ASSUME NEW m, m = thread'[Main],
         \A s : s = m.sid /\ Exists(s)' =>
            /\ Holds(m) => m.cid \in Connections(s)'
            /\ m.op = "sessionReport" =>
                 \A key \in SessionKeys : Read(m, key, sessionList'[s].parameters[key])
            /\ m.op = "connectionReport" /\ m.cid # None =>
                 \A key \in ConnectionKeys :
                    Read(m, key, sessionList'[s].connections[m.cid].parameters[key])
  PROVE  ReportInv'
BY DEF ReportInv, Holds, Has, Read

\* The run loop reports nothing and activates nothing.
LEMMA NoReportIs ==
  ASSUME NEW m, m = thread'[Main], ~Talks(m), m.op \in Reports => m.sid = None
  PROVE  ReportInv'
<1>1. ~Has(m, "ActivateConnection")
  BY DEF Talks, Has, Talk
<1>2. ~Exists(None)'
  BY NoneIsNothing DEF Exists, Slots
<1> QED
  BY <1>1, <1>2, ReportIs DEF Holds, Reports

\* What its own thread keeps of the session, the session keeps too.
LEMMA ReportKept ==
  ASSUME Inv, ReportInv, ~reused' => ~reused, NEW m, m = thread'[Main],
         m = thread[Main] \/ /\ m.op \notin Reports /\ m.sid = thread[Main].sid
                             /\ m.cid = thread[Main].cid
                             /\ Has(m, "ActivateConnection") => Has(thread[Main], "ActivateConnection"),
         \A s \in Slots : s = m.sid /\ Exists(s)' =>
            /\ Exists(s) /\ Connections(s) \subseteq Connections(s)'
            /\ m.op \in Reports =>
                 /\ sessionList'[s].parameters = sessionList[s].parameters
                 /\ \A c \in Connections(s) : sessionList'[s].connections[c].parameters
                                                = sessionList[s].connections[c].parameters
  PROVE  ReportInv'
<1>1. CASE reused'
  BY <1>1 DEF ReportInv
<1>2. CASE ~reused' /\ ~reused
  <2>1. PICK th : th = thread[Main]
    OBVIOUS
  <2>2. Exists(th.sid) =>
        /\ Holds(th) => th.cid \in Connections(th.sid)
        /\ th.op = "sessionReport" =>
             \A key \in SessionKeys : Read(th, key, sessionList[th.sid].parameters[key])
        /\ th.op = "connectionReport" /\ th.cid # None =>
             \A key \in ConnectionKeys :
                Read(th, key, sessionList[th.sid].connections[th.cid].parameters[key])
    BY <1>2, <2>1 DEF ReportInv
  <2>3. ASSUME NEW s, s = m.sid, Exists(s)'
        PROVE  /\ Holds(m) => m.cid \in Connections(s)'
               /\ m.op = "sessionReport" =>
                    \A key \in SessionKeys : Read(m, key, sessionList'[s].parameters[key])
               /\ m.op = "connectionReport" /\ m.cid # None =>
                    \A key \in ConnectionKeys :
                       Read(m, key, sessionList'[s].connections[m.cid].parameters[key])
    <3>1. s \in Slots
      BY <2>3 DEF Exists
    <3>2. /\ Exists(s) /\ Connections(s) \subseteq Connections(s)'
          /\ m.op \in Reports =>
               /\ sessionList'[s].parameters = sessionList[s].parameters
               /\ \A c \in Connections(s) : sessionList'[s].connections[c].parameters
                                              = sessionList[s].connections[c].parameters
      BY <2>3, <3>1
    <3>3. CASE m = th
      BY <2>2, <2>3, <3>2, <3>3 DEF Reports, Holds
    <3>4. CASE /\ m.op \notin Reports /\ m.sid = th.sid /\ m.cid = th.cid
               /\ Has(m, "ActivateConnection") => Has(th, "ActivateConnection")
      BY <2>2, <2>3, <3>2, <3>4 DEF Reports, Holds
    <3> QED
      BY <2>1, <3>3, <3>4
  <2> QED
    BY <2>3, ReportIs
<1> QED
  BY <1>1, <1>2

LEMMA ApartKept ==
  ASSUME Inv, Apart, Fades, ~reused' => ~reused, NEW m, m = thread'[Main], NEW d, d = thread'[Discovery],
         Talks(d) => Talks(thread[Discovery]) /\ d.sid = thread[Discovery].sid,
         m.op \in Reports => \/ m.sid = None
                             \/ thread[Main].op \in Reports /\ m.sid = thread[Main].sid
                             \/ \E iqn \in Targets : m.sid = targetList[iqn]
  PROVE  Apart'
<1>1. CASE reused'
  BY <1>1 DEF Apart
<1>2. CASE ~reused' /\ ~reused
  <2>1. SUFFICES ASSUME Talks(d), NEW s, s = d.sid, Exists(s)'
                 PROVE  /\ \A iqn \in Targets : targetList'[iqn] # s
                        /\ m.op \in Reports => m.sid # s
    BY DEF Apart, Talks
  <2>2. s \in Slots /\ Exists(s) /\ s # None
    BY <2>1, NoneIsNothing DEF Fades, Exists, Slots
  <2>3. /\ \A iqn \in Targets : targetList[iqn] # s
        /\ thread[Main].op \in Reports => thread[Main].sid # s
    BY <1>2, <2>1, <2>2 DEF Apart
  <2>4. \A iqn \in Targets : targetList'[iqn] \in {targetList[iqn], None}
    BY DEF Fades, Targets
  <2> QED
    BY <2>2, <2>3, <2>4
<1> QED
  BY <1>1, <1>2

\* A step of one thread after which it neither reports nor activates anything.
LEMMA QuietReported ==
  ASSUME Inv, Reported, Fades, reused' = reused, NEW t \in Threads, NEW new,
         thread' = [thread EXCEPT ![t] = new], ~Talks(new),
         t = Main => (new.op \in Reports => new.sid = None),
         t # Main => Keeps
  PROVE  Reported'
<1>1. PICK m : m = thread'[Main]
  OBVIOUS
<1>2. PICK d : d = thread'[Discovery]
  OBVIOUS
<1>3. \/ t = Main /\ m = new /\ d = thread[Discovery]
      \/ t = Discovery /\ t # Main /\ d = new /\ m = thread[Main]
  BY <1>1, <1>2, ThreadNames, RequestsConstants DEF Inv, ThreadsInv
<1>4. Apart'
  BY <1>1, <1>2, <1>3, ApartKept DEF Reported
<1>5. ReportInv'
  <2>1. CASE t = Main
    BY <1>1, <1>3, <2>1, NoReportIs
  <2>2. CASE t # Main
    BY <1>1, <1>3, <2>2, ReportKept DEF Reported, Keeps, Lessens
  <2> QED
    BY <2>1, <2>2
<1> QED
  BY <1>4, <1>5 DEF Reported

LEMMA TurnsReported ==
  ASSUME Inv, Reported, NEW t \in Threads, Turns(t) \/ TurnsLosing(t)
  PROVE  Reported'
<1>1. CASE Turns(t)
  BY <1>1, SameKeeps, QuietReported DEF Turns, Calm
<1>2. CASE TurnsLosing(t)
  BY <1>2, QuietReported DEF TurnsLosing, Loses, Calm, Keeps, Lessens
<1> QED
  BY <1>1, <1>2

LEMMA RestsReported ==
  ASSUME Inv, Reported, Rests
  PROVE  Reported'
<1>1. thread'[Main] = Blank /\ thread'[Discovery] = Blank /\ Fades /\ reused' = reused
  BY ThreadNames DEF Rests, Lessens
<1>2. PICK b : b = Blank
  OBVIOUS
<1>3. ~Talks(b) /\ b.op \notin Reports
  BY <1>2, QuietOf
<1>4. Apart'
  BY <1>1, <1>2, <1>3, ApartKept DEF Reported
<1>5. ReportInv'
  BY <1>1, <1>2, <1>3, NoReportIs
<1> QED
  BY <1>4, <1>5 DEF Reported

\* Nobody's thread goes on.
LEMMA KernelReported ==
  ASSUME Inv, Reported, Keeps, reused' = reused, thread' = thread
  PROVE  Reported'
<1>1. PICK m : m = thread'[Main]
  OBVIOUS
<1>2. PICK d : d = thread'[Discovery]
  OBVIOUS
<1>3. m = thread[Main] /\ d = thread[Discovery]
  BY <1>1, <1>2
<1>4. Apart'
  BY <1>1, <1>2, <1>3, ApartKept DEF Reported, Keeps, Lessens
<1>5. ReportInv'
  BY <1>1, <1>3, ReportKept DEF Reported, Keeps, Lessens
<1> QED
  BY <1>4, <1>5 DEF Reported

LEMMA Moves ==
  ASSUME Inv, NEW t \in Threads, NEW new, thread' = [thread EXCEPT ![t] = new]
  PROVE  \/ t = Main /\ thread'[Main] = new /\ thread'[Discovery] = thread[Discovery]
         \/ t = Discovery /\ t # Main /\ thread'[Discovery] = new /\ thread'[Main] = thread[Main]
BY ThreadNames, RequestsConstants DEF Inv, ThreadsInv

LEMMA LookUpSessionReported ==
  ASSUME Inv, Base, Reported, NEW t \in Threads, LookUpSession(t)
  PROVE  Reported'
<1>1. Still
  BY OnlyThreadStill DEF LookUpSession
<1>2. PICK new :
           /\ thread' = [thread EXCEPT ![t] = new] /\ Quiet(thread[t], new)
           /\ new.op = thread[t].op /\ new.op \notin Lists
           /\ new.op \in Reports => thread[t].iqn \in Targets
           /\ new.sid = targetList[thread[t].iqn] /\ new.cid = None
           /\ new.op = "sessionReport" /\ new.sid # None =>
                \A key \in SessionKeys : Get(key) \in CallsIn(new.todo)
  BY LookUpSessionIs
<1>3. CASE t # Main
  BY <1>1, <1>2, <1>3, SameKeeps, QuietReported DEF Still, Quiet
<1>4. CASE t = Main
  <2>1. PICK m : m = thread'[Main]
    OBVIOUS
  <2>2. PICK d : d = thread'[Discovery]
    OBVIOUS
  <2>3. m = new /\ d = thread[Discovery]
    BY <1>2, <1>4, <2>1, <2>2, Moves
  <2>4. Apart'
    BY <1>1, <1>2, <1>4, <2>1, <2>2, <2>3, ApartKept DEF Reported, Still
  <2>5. ~Has(m, "ActivateConnection")
    BY <1>2, <2>3 DEF Quiet, Talks, Has, Talk
  <2>6. \A s : Exists(s)' => s # None
    BY NoneIsNothing DEF Exists, Slots
  <2>7. ReportInv'
    BY <1>2, <2>1, <2>3, <2>5, <2>6, ReportIs DEF Holds, Read
  <2> QED
    BY <2>4, <2>7 DEF Reported
<1> QED
  BY <1>3, <1>4

LEMMA LookUpConnectionReported ==
  ASSUME Inv, Base, Reported, NEW t \in Threads, LookUpConnection(t)
  PROVE  Reported'
<1>1. Still
  BY OnlyThreadStill DEF LookUpConnection
<1>2. PICK new :
           /\ thread' = [thread EXCEPT ![t] = new] /\ Quiet(thread[t], new)
           /\ new.op = thread[t].op /\ new.op \notin Lists \cup {"sessionReport"}
           /\ new.sid = thread[t].sid
           /\ new.cid # None => new.cid \in Connections(new.sid)
           /\ new.op = "connectionReport" /\ new.cid # None =>
                \A key \in ConnectionKeys : Get(key) \in CallsIn(new.todo)
  BY LookUpConnectionIs
<1>3. CASE t # Main
  BY <1>1, <1>2, <1>3, SameKeeps, QuietReported DEF Still, Quiet
<1>4. CASE t = Main
  <2>1. PICK m : m = thread'[Main]
    OBVIOUS
  <2>2. PICK d : d = thread'[Discovery]
    OBVIOUS
  <2>3. m = new /\ d = thread[Discovery]
    BY <1>2, <1>4, <2>1, <2>2, Moves
  <2>4. Apart'
    BY <1>1, <1>2, <1>4, <2>1, <2>2, <2>3, ApartKept DEF Reported, Still
  <2>5. ~Has(m, "ActivateConnection")
    BY <1>2, <2>3 DEF Quiet, Talks, Has, Talk
  <2>6. \A s \in Slots : Connections(s)' = Connections(s)
    BY <1>1, SameSlots DEF Still
  <2>7. \A s : Exists(s)' => s \in Slots
    BY DEF Exists
  <2>8. ReportInv'
    BY <1>2, <2>1, <2>3, <2>5, <2>6, <2>7, ReportIs DEF Holds, Read
  <2> QED
    BY <2>4, <2>8 DEF Reported
<1> QED
  BY <1>3, <1>4

LEMMA ReadParameterReported ==
  ASSUME Inv, Base, Reported, NEW t \in Threads, ReadParameter(t)
  PROVE  Reported'
<1>1. Still
  BY ReadParameterIs
<1> DEFINE is(key, new) ==
             /\ thread' = [thread EXCEPT ![t] = new] /\ Quiet(thread[t], new)
             /\ new.op = thread[t].op /\ new.op \in Reports
             /\ new.sid = thread[t].sid /\ new.cid = thread[t].cid
             /\ CallsIn(thread[t].todo) = {Get(key)} \cup CallsIn(new.todo)
             /\ \A other \in Keys \ {key} : new.report[other] = thread[t].report[other]
             /\ new.op = "sessionReport" => key \in SessionKeys
             /\ new.op = "connectionReport" => key \in ConnectionKeys
             /\ key \in SessionKeys /\ Exists(new.sid) =>
                  new.report[key] = sessionList[new.sid].parameters[key]
             /\ key \in ConnectionKeys /\ new.cid \in Connections(new.sid) =>
                  new.report[key] = sessionList[new.sid].connections[new.cid].parameters[key]
<1>2. \E new : \E key \in Keys : is(key, new)
  BY ReadParameterIs
<1>3. PICK new : \E key \in Keys : is(key, new)
  BY <1>2
<1>4. PICK key \in Keys : is(key, new)
  BY <1>3
<1>5. CASE t # Main
  BY <1>1, <1>4, <1>5, SameKeeps, QuietReported DEF Still, Quiet
<1>6. CASE t = Main
  <2>1. PICK m : m = thread'[Main]
    OBVIOUS
  <2>2. PICK d : d = thread'[Discovery]
    OBVIOUS
  <2>3. m = new /\ d = thread[Discovery]
    BY <1>4, <1>6, <2>1, <2>2, Moves
  <2>4. Apart'
    BY <1>1, <1>4, <1>6, <2>1, <2>2, <2>3, ApartKept DEF Reported, Still
  <2>5. ReportInv'
    <3>1. CASE reused'
      BY <3>1 DEF ReportInv
    <3>2. CASE ~reused'
      <4>1. PICK th : th = thread[Main]
        OBVIOUS
      <4>2. ~Has(m, "ActivateConnection")
        BY <1>4, <2>3 DEF Quiet, Talks, Has, Talk
      <4>3. ASSUME NEW s, s = m.sid, Exists(s)'
            PROVE  /\ Holds(m) => m.cid \in Connections(s)'
                   /\ m.op = "sessionReport" =>
                        \A k \in SessionKeys : Read(m, k, sessionList'[s].parameters[k])
                   /\ m.op = "connectionReport" /\ m.cid # None =>
                        \A k \in ConnectionKeys :
                           Read(m, k, sessionList'[s].connections[m.cid].parameters[k])
        <5>1. Exists(s) /\ Connections(s)' = Connections(s) /\ sessionList' = sessionList
          BY <1>1, <4>3, SameSlots DEF Still
        <5>2. th.sid = s /\ th.op = m.op /\ th.cid = m.cid
          BY <1>4, <1>6, <2>3, <4>1, <4>3
        <5>3. ~reused
          BY <1>1, <3>2 DEF Still
        <5>4. /\ Holds(th) => th.cid \in Connections(s)
              /\ th.op = "sessionReport" =>
                   \A k \in SessionKeys : Read(th, k, sessionList[s].parameters[k])
              /\ th.op = "connectionReport" /\ th.cid # None =>
                   \A k \in ConnectionKeys :
                      Read(th, k, sessionList[s].connections[th.cid].parameters[k])
          BY <4>1, <5>1, <5>2, <5>3 DEF Reported, ReportInv
        <5>5. Holds(m) => m.cid \in Connections(s)'
          BY <4>2, <5>1, <5>2, <5>4 DEF Holds
        <5>6. \A k \in Keys : k # key /\ Get(k) \in CallsIn(th.todo) => Get(k) \in CallsIn(m.todo)
          <6>1. CallsIn(th.todo) = {Get(key)} \cup CallsIn(m.todo)
            BY <1>4, <1>6, <2>3, <4>1
          <6> QED
            BY <6>1, CallName
        <5>7. \A k \in Keys : k # key => m.report[k] = th.report[k]
          BY <1>4, <1>6, <2>3, <4>1
        <5>8. \A v : \A k \in Keys : k # key /\ Read(th, k, v) => Read(m, k, v)
          BY <5>6, <5>7 DEF Read
        <5>9. m.op = "sessionReport" =>
                \A k \in SessionKeys : Read(m, k, sessionList'[s].parameters[k])
          <6> SUFFICES ASSUME m.op = "sessionReport", NEW k \in SessionKeys
                       PROVE  Read(m, k, sessionList'[s].parameters[k])
            OBVIOUS
          <6>1. CASE k = key
            BY <1>4, <2>3, <4>3, <5>1, <6>1 DEF Read
          <6>2. CASE k # key
            BY <5>1, <5>2, <5>4, <5>8, <6>2 DEF Keys
          <6> QED
            BY <6>1, <6>2
        <5>10. m.op = "connectionReport" /\ m.cid # None =>
                 \A k \in ConnectionKeys :
                    Read(m, k, sessionList'[s].connections[m.cid].parameters[k])
          <6> SUFFICES ASSUME m.op = "connectionReport", m.cid # None, NEW k \in ConnectionKeys
                       PROVE  Read(m, k, sessionList'[s].connections[m.cid].parameters[k])
            OBVIOUS
          <6>0. m.cid \in Connections(s)
            BY <5>2, <5>4 DEF Holds
          <6>1. CASE k = key
            BY <1>4, <2>3, <4>3, <5>1, <6>0, <6>1 DEF Read
          <6>2. CASE k # key
            BY <5>1, <5>2, <5>4, <5>8, <6>2 DEF Keys
          <6> QED
            BY <6>1, <6>2
        <5> QED
          BY <5>5, <5>9, <5>10
      <4> QED
        BY <2>1, <4>3, ReportIs
    <3> QED
      BY <3>1, <3>2
  <2> QED
    BY <2>4, <2>5 DEF Reported
<1> QED
  BY <1>5, <1>6

\* A new session is nobody's but its thread's.
LEMMA CreateReported ==
  ASSUME Inv, Inv', Base, Reported, NEW t \in Threads, Create(t)
  PROVE  Reported'
<1>1. ASSUME NEW sid, NEW new, Creates(t, sid, new)
      PROVE  Reported'
  <2>1. /\ sid = NewSid /\ CreateSession(thread[t].iqn, thread[t].portal)
        /\ thread[t].portal \in Portals /\ sid \in Slots
        /\ thread' = [thread EXCEPT ![t] = new] /\ reused' = (reused \/ NumberInUse(t, sid))
        /\ new.op \notin Reports /\ new.sid = sid /\ new.cid = 0
        /\ t = Discovery => thread[t].iqn = DiscoveryIQN
    BY <1>1 DEF Creates
  <2>2. /\ ~Exists(sid) /\ \A s \in Slots \ {sid} : sessionList'[s] = sessionList[s]
        /\ Connections(sid)' = {0}
        /\ targetList' = [targetList EXCEPT ![thread[t].iqn] = sid]
    BY <2>1, CreateSessionEffect DEF Inv, KernelInv
  <2>3. CASE reused'
    BY <2>3 DEF Reported, Apart, ReportInv
  <2>4. CASE ~reused'
    <3>1. ~reused /\ ~NumberInUse(t, sid)
      BY <2>1, <2>4
    <3>2. \A other \in Threads \ {t} : thread[other].sid # sid
      BY <3>1 DEF NumberInUse
    <3>3. \A s \in Slots \ {sid} : /\ Exists(s)' <=> Exists(s)
                                   /\ Connections(s)' = Connections(s)
      BY <2>2, SameSlot
    <3>4. PICK m : m = thread'[Main]
      OBVIOUS
    <3>5. PICK d : d = thread'[Discovery]
      OBVIOUS
    <3>6. targetList \in [IQNs -> Slots \cup {None}]
      BY DEF Inv, KernelInv, TableInv
    <3>7. \A iqn \in Targets : /\ targetList[iqn] # sid
                               /\ targetList'[iqn] = targetList[iqn] \/ (targetList'[iqn] = sid /\ t = Main)
      <4>1. \A iqn \in Targets : iqn \in IQNs /\ iqn # DiscoveryIQN
        BY DEF Targets
      <4>2. \A iqn \in IQNs : targetList[iqn] # sid
        BY <2>1, <2>2, NoneIsNothing DEF Base, Sorted, Slots
      <4>3. t = Main \/ t = Discovery
        BY ThreadNames
      <4> QED
        BY <2>1, <2>2, <3>6, <4>1, <4>2, <4>3
    <3>8. CASE t = Main
      <4>1. m = new /\ d = thread[Discovery] /\ d.sid # sid
        BY <2>1, <3>2, <3>4, <3>5, <3>8, Moves, ThreadNames, RequestsConstants
      <4>2. Apart'
        <5>1. SUFFICES ASSUME Talks(d), NEW s, s = d.sid, Exists(s)'
                       PROVE  \A iqn \in Targets : targetList'[iqn] # s
          BY <2>1, <3>4, <3>5, <4>1 DEF Apart, Talks
        <5>2. s \in Slots \ {sid} /\ Exists(s)
          BY <3>3, <4>1, <5>1 DEF Exists
        <5>3. \A iqn \in Targets : targetList[iqn] # s
          BY <3>1, <4>1, <5>1, <5>2 DEF Reported, Apart
        <5> QED
          BY <3>7, <5>2, <5>3
      <4>3. ReportInv'
        BY <2>1, <2>2, <3>4, <4>1, ReportIs DEF Reports, Holds
      <4> QED
        BY <4>2, <4>3 DEF Reported
    <3>9. CASE t # Main
      <4>1. m = thread[Main] /\ d = new /\ t = Discovery /\ m.sid # sid
        BY <2>1, <3>2, <3>4, <3>5, <3>9, Moves, ThreadNames, RequestsConstants
      <4>2. Apart'
        <5>1. SUFFICES ASSUME NEW s, s = d.sid, Exists(s)'
                       PROVE  /\ \A iqn \in Targets : targetList'[iqn] # s
                              /\ m.op \in Reports => m.sid # s
          BY <3>4, <3>5 DEF Apart, Talks
        <5> QED
          BY <2>1, <3>7, <3>9, <4>1, <5>1
      <4>3. ReportInv'
        <5>1. ASSUME NEW s \in Slots, s = m.sid, Exists(s)'
              PROVE  /\ Exists(s) /\ Connections(s) \subseteq Connections(s)'
                     /\ sessionList'[s] = sessionList[s]
          BY <2>2, <3>3, <4>1, <5>1
        <5> QED
          BY <2>4, <3>1, <3>4, <4>1, <5>1, ReportKept DEF Reported
      <4> QED
        BY <4>2, <4>3 DEF Reported
    <3> QED
      BY <3>8, <3>9
  <2> QED
    BY <2>3, <2>4
<1> QED
  BY <1>1, CreateKinds, TurnsReported

LEMMA AddConnectionReported ==
  ASSUME Inv, Base, Reported, NEW t \in Threads, AddConnection(t)
  PROVE  Reported'
<1>1. ASSUME NEW sid, NEW cid, NEW new, AddsConnection(t, sid, cid, new)
      PROVE  Reported'
  <2>1. /\ CreateConnection(sid, thread[t].portal) /\ thread[t].portal \in Portals
        /\ cid = NewCid(sid) /\ t = Main /\ LogsIn(new.op)
        /\ thread' = [thread EXCEPT ![t] = new] /\ reused' = reused
        /\ Names(new.todo) = {"GetTargetIQNForSessionId", "ReleaseConnection"}
    BY <1>1 DEF AddsConnection
  <2>2. /\ \A s \in Slots \ {sid} : sessionList'[s] = sessionList[s]
        /\ Exists(sid) /\ Exists(sid)' /\ Gen(sid)' = Gen(sid)
        /\ targetList' = targetList /\ created' = created
    BY <2>1, CreateConnectionEffect DEF Inv, KernelInv
  <2>3. \A s \in Slots : (Exists(s)' <=> Exists(s)) /\ Gen(s)' = Gen(s)
    BY <2>2, SameSlot
  <2>4. Fades
    BY <2>2, <2>3, SameFades DEF Inv, KernelInv, Base
  <2>5. ~Talks(new) /\ new.op \notin Reports
    BY <2>1 DEF Talks, Talk, Sets, LogsIn, Reports
  <2> QED
    BY <2>1, <2>4, <2>5, QuietReported
<1> QED
  BY <1>1, AddConnectionKinds, TurnsReported

\* The thread that talks to the target goes on with it.
LEMMA TalkReported ==
  ASSUME Inv, Base, Reported, NEW t \in Threads, NEW name, NEW new, GoesOn(t, name, new),
         name \in Sets \cup {"exchange"},
         Talks(new) => Talks(thread[t]), Fades, reused' = reused,
         \A s \in Slots : Connections(s)' = Connections(s),
         \A s \in Slots : s # thread[t].sid => sessionList'[s] = sessionList[s],
         Talks(thread[t]) \/ sessionList' = sessionList
  PROVE  Reported'
<1>1. PICK m : m = thread'[Main]
  OBVIOUS
<1>2. PICK d : d = thread'[Discovery]
  OBVIOUS
<1>3. /\ thread' = [thread EXCEPT ![t] = new] /\ new.op = thread[t].op
      /\ new.sid = thread[t].sid /\ new.cid = thread[t].cid
      /\ Names(thread[t].todo) = {name} \cup Names(new.todo) /\ thread[t].op \notin Reports
  BY DEF GoesOn
<1>4. \/ t = Main /\ m = new /\ d = thread[Discovery]
      \/ t = Discovery /\ t # Main /\ d = new /\ m = thread[Main]
  BY <1>1, <1>2, <1>3, Moves
<1>5. Apart'
  BY <1>1, <1>2, <1>3, <1>4, ApartKept DEF Reported
<1>6. \A s \in Slots : Exists(s)' => Exists(s)
  BY DEF Fades
<1>7. CASE t = Main
  <2>1. /\ m.op \notin Reports /\ m.sid = thread[Main].sid /\ m.cid = thread[Main].cid
        /\ Has(m, "ActivateConnection") => Has(thread[Main], "ActivateConnection")
    BY <1>3, <1>4, <1>7 DEF Has
  <2>2. ReportInv'
    BY <1>1, <1>6, <2>1, ReportKept DEF Reported
  <2> QED
    BY <1>5, <2>2 DEF Reported
<1>8. CASE t # Main
  <2>1. CASE reused
    BY <1>5, <2>1 DEF Reported, ReportInv
  <2>2. CASE ~reused
    <3>1. ASSUME NEW s \in Slots, s = m.sid, Exists(s)', m.op \in Reports
          PROVE  sessionList'[s] = sessionList[s]
      <4>1. CASE sessionList' = sessionList
        BY <4>1
      <4>2. CASE Talks(thread[t])
        <5>1. Exists(thread[Discovery].sid) => m.sid # thread[Discovery].sid
          BY <1>4, <1>8, <2>2, <3>1, <4>2 DEF Reported, Apart
        <5>2. s # thread[Discovery].sid
          BY <1>6, <3>1, <5>1
        <5> QED
          BY <1>4, <1>8, <5>2
      <4> QED
        BY <4>1, <4>2
    <3>2. ReportInv'
      BY <1>1, <1>4, <1>6, <1>8, <3>1, ReportKept DEF Reported
    <3> QED
      BY <1>5, <3>2 DEF Reported
  <2> QED
    BY <2>1, <2>2
<1> QED
  BY <1>7, <1>8

LEMMA ExchangeReported ==
  ASSUME Inv, Base, Reported, NEW t \in Threads, Exchange(t)
  PROVE  Reported'
<1>1. ASSUME NEW new, GoesOn(t, "exchange", new), Fades, sessionList' = sessionList, reused' = reused
      PROVE  Reported'
  <2>1. Talks(new) => Talks(thread[t])
    BY <1>1 DEF GoesOn, Talks
  <2>2. \A s \in Slots : Connections(s)' = Connections(s)
    BY <1>1, SameSlots
  <2> QED
    BY <1>1, <2>1, <2>2, TalkReported
<1> QED
  BY <1>1, ExchangeKinds, TurnsReported

LEMMA SetParameterReported ==
  ASSUME Inv, Base, Reported, NEW t \in Threads, SetParameter(t)
  PROVE  Reported'
<1>0. PICK key \in Keys : \E new : SetsParameter(t, key, new)
  BY SetParameterIs
<1>1. PICK new : SetsParameter(t, key, new)
  BY <1>0
<1>2. PICK name \in Sets : GoesOn(t, name, new)
  BY <1>1 DEF SetsParameter
<1>3. Talks(thread[t])
  BY <1>2 DEF GoesOn, Talks, Talk
<1>4. /\ \A s \in Slots : (Exists(s)' <=> Exists(s)) /\ Gen(s)' = Gen(s)
                          /\ Connections(s)' = Connections(s)
      /\ targetList' = targetList /\ created' = created /\ reused' = reused
  BY <1>1 DEF SetsParameter
<1>5. Fades
  BY <1>4, SameFades DEF Inv, KernelInv, Base
<1>6. \A s \in Slots : s # thread[t].sid => sessionList'[s] = sessionList[s]
  <2>1. PICK sid : sid = thread[t].sid
    OBVIOUS
  <2>2. PICK k \in Keys, value \in Value :
           /\ value.key = k
           /\ k \in SessionKeys => SetSessionParameter(sid, value)
           /\ k \notin SessionKeys => SetConnectionParameter(sid, thread[t].cid, value)
                                      /\ k \in ConnectionKeys
    BY <2>1, SetsValue
  <2>3. \A s \in Slots \ {sid} : sessionList'[s] = sessionList[s]
    BY <2>2, SetSessionParameterEffect, SetConnectionParameterEffect DEF Inv, KernelInv
  <2> QED
    BY <2>1, <2>3
<1> QED
  BY <1>2, <1>3, <1>4, <1>5, <1>6, TalkReported

LEMMA ActivateReported ==
  ASSUME Inv, Base, Reported, NEW t \in Threads, Activate(t)
  PROVE  Reported'
<1>1. PICK new : Activates(t, new)
  BY ActivateIs
<1>2. /\ t = Main /\ thread' = [thread EXCEPT ![t] = new] /\ Names(new.todo) = {}
      /\ new.op \notin Reports /\ Fades /\ reused' = reused
  BY <1>1 DEF Activates, GoesOn
<1>3. ~Talks(new)
  BY <1>2 DEF Talks
<1> QED
  BY <1>2, <1>3, QuietReported

LEMMA DeactivateReported ==
  ASSUME Inv, Base, Reported, NEW t \in Threads, Deactivate(t)
  PROVE  Reported'
<1>1. /\ At(t, "DeactivateAllConnections") /\ SetActive(thread[t].sid, Cids, FALSE)
      /\ Continue(t, Rest(t)) /\ reused' = reused
  BY OnlyTableKeeps DEF Deactivate, DeactivateAllConnections
<1>2. PICK new : GoesOn(t, "DeactivateAllConnections", new)
  BY <1>1, RestGoesOn DEF ReportCalls, ListCalls
<1>3. ~Talks(new) /\ new.op \notin Reports /\ thread' = [thread EXCEPT ![t] = new]
  BY <1>2 DEF GoesOn, Talks, Talk, Sets, Follows
<1>4. Keeps
  BY <1>1, DeactivatedKeeps
<1> QED
  BY <1>1, <1>3, <1>4, QuietReported DEF Keeps, Lessens

\* Discovery releases sessions, never a connection.
LEMMA ReleaseReported ==
  ASSUME Inv, Base, Reported, NEW t \in Threads, Release(t)
  PROVE  Reported'
<1>1. /\ Continue(t, Rest(t)) /\ reused' = reused
      /\ \/ At(t, "ReleaseSession") /\ ReleaseSession(thread[t].sid)
         \/ At(t, "ReleaseConnection") /\ ReleaseConnection(thread[t].sid, thread[t].cid)
  BY OnlyTableKeeps DEF Release
<1>2. PICK name \in {"ReleaseSession", "ReleaseConnection"} : At(t, name)
  BY <1>1
<1>3. PICK new : GoesOn(t, name, new)
  BY <1>1, <1>2, RestGoesOn DEF ReportCalls, ListCalls
<1>4. ~Talks(new) /\ new.op \notin Reports /\ thread' = [thread EXCEPT ![t] = new]
  BY <1>3 DEF GoesOn, Talks, Talk, Sets, Follows
<1>5. Lessens
  BY <1>1, ReleasedKeeps, KeepsLessens, ConnectionReleasedLessens
<1>6. t # Main => Keeps
  <2>1. At(t, "ReleaseConnection") => t = Main
    BY AtKnows, ThreadNames DEF Meets, Inv, ThreadsInv, LogsIn
  <2> QED
    BY <1>1, <2>1, ReleasedKeeps
<1> QED
  BY <1>1, <1>4, <1>5, <1>6, QuietReported DEF Lessens

LEMMA HandleNotificationReported ==
  ASSUME Inv, Base, Reported, HandleNotification
  PROVE  Reported'
<1>1. PICK new : /\ thread' = [thread EXCEPT ![Main] = new] /\ Calm(thread[Main], new)
                 /\ Fades /\ reused' = reused
  BY HandleNotificationIs
<1> QED
  BY <1>1, QuietReported, ThreadNames DEF Calm

LEMMA KernelStepReported ==
  ASSUME Inv, Base, Reported, ConnectionLost \/ SessionDropped, UNCHANGED thread,
         UNCHANGED daemonVars
  PROVE  Reported'
<1>1. /\ reused' = reused
      /\ Rests \/ (\E s : Loses(s)) \/ \E s : ReleaseSession(s)
  BY KernelStepKinds
<1>2. CASE Rests
  BY <1>2, RestsReported
<1>3. ASSUME Keeps
      PROVE  Reported'
  BY <1>1, <1>3, KernelReported
<1> QED
  BY <1>1, <1>2, <1>3, ReleasedKeeps DEF Loses

\* A list is of names only.
LEMMA ListReported ==
  ASSUME Inv, Base, Reported, Still, NEW t \in Threads, NEW new, thread' = [thread EXCEPT ![t] = new],
         Quiet(thread[t], new), new.op \in Lists
  PROVE  Reported'
BY SameKeeps, QuietReported DEF Still, Quiet, Lists, Reports

LEMMA ThreadStepReported ==
  ASSUME Inv, Inv', Base, Reported, NEW t \in Threads, ThreadStep(t)
  PROVE  Reported'
<1>1. CASE LookUpSession(t)
  BY <1>1, LookUpSessionReported
<1>2. CASE LookUpConnection(t)
  BY <1>2, LookUpConnectionReported
<1>3. CASE Create(t)
  BY <1>3, CreateReported
<1>4. CASE AddConnection(t)
  BY <1>4, AddConnectionReported
<1>5. CASE Exchange(t)
  BY <1>5, ExchangeReported
<1>6. CASE Query(t)
  BY <1>6, QueryKinds, TurnsReported
<1>7. CASE SetParameter(t)
  BY <1>7, SetParameterReported
<1>8. CASE Activate(t)
  BY <1>8, ActivateReported
<1>9. CASE Deactivate(t)
  BY <1>9, DeactivateReported
<1>10. CASE LogoutExchange(t)
  BY <1>10, LogoutExchangeTurns, TurnsReported
<1>11. CASE Release(t)
  BY <1>11, ReleaseReported
<1>12. CASE LogoutUnmounts(t)
  BY <1>12, LogoutUnmountsTurns, TurnsReported
<1>13. CASE LogoutOfPortal(t)
  BY <1>13, LogoutOfPortalTurns, TurnsReported, CrashRests, RestsReported
<1>14. CASE ReadParameter(t)
  BY <1>14, ReadParameterReported
<1>15. CASE ListSessions(t)
  BY <1>15, ListSessionsIs, ListReported
<1>16. CASE ListTarget(t)
  BY <1>16, ListTargetTurns, TurnsReported, CrashRests, RestsReported
<1>17. CASE SleepTarget(t)
  BY <1>17, SleepTargetIs, ListReported DEF Lists
<1>18. CASE SleepSession(t)
  BY <1>18, SleepSessionIs, ListReported, CrashRests, RestsReported DEF Lists
<1>19. CASE CopyTarget(t)
  BY <1>19, CopyTargetTurns, TurnsReported, CrashRests, RestsReported
<1>20. CASE CopyPortal(t)
  BY <1>20, CopyPortalTurns, TurnsReported
<1>21. CASE TimeoutCallback(t)
  BY <1>21, TimeoutCallbackTurns, TurnsReported, CrashRests, RestsReported
<1>22. CASE NextLogin(t)
  BY <1>22, NextLoginTurns, TurnsReported
<1>23. CASE Return(t)
  BY <1>23, ReturnTurns, TurnsReported
<1> QED
  BY <1>1, <1>2, <1>3, <1>4, <1>5, <1>6, <1>7, <1>8, <1>9, <1>10, <1>11, <1>12, <1>13, <1>14,
     <1>15, <1>16, <1>17, <1>18, <1>19, <1>20, <1>21, <1>22, <1>23 DEF ThreadStep

LEMMA InitReported == Init => Reported
<1> SUFFICES ASSUME Init PROVE Reported
  OBVIOUS
<1>1. \A s : ~Exists(s)
  BY DEF Init, UserClientInit, Exists
<1> QED
  BY <1>1 DEF Reported, Apart, ReportInv

LEMMA StepReported == Inv /\ Inv' /\ Base /\ Reported /\ [Next]_vars => Reported'
<1> SUFFICES ASSUME Inv, Inv', Base, Reported, [Next]_vars PROVE Reported'
  OBVIOUS
<1>1. CASE \E t \in Threads : ThreadStep(t)
  BY <1>1, ThreadStepReported
<1>2. CASE Begins
  BY <1>2, BeginsTurns, TurnsReported
<1>3. CASE HandleNotification
  BY <1>3, HandleNotificationReported
<1>4. CASE DiskUnmountComplete
  BY <1>4, DiskUnmountCompleteTurns, TurnsReported, ThreadNames
<1>5. CASE Restart
  BY <1>5, RestartRests, RestsReported
<1>6. CASE (ConnectionLost \/ SessionDropped) /\ UNCHANGED thread /\ UNCHANGED daemonVars
  BY <1>6, KernelStepReported
<1>7. CASE UNCHANGED vars
  <2>1. /\ sessionList' = sessionList /\ thread' = thread /\ reused' = reused
        /\ UNCHANGED tableVars
    BY <1>7 DEF vars, kernelVars, tableVars, daemonVars
  <2> QED
    BY <2>1, TableFades, SameKeeps, KernelReported
<1> QED
  BY <1>1, <1>2, <1>3, <1>4, <1>5, <1>6, <1>7, NextCases

\* What the invariant says of a report that is complete.
LEMMA ReportedIs == Inv /\ Reported => ReportIsOfTarget
<1> SUFFICES ASSUME Inv, Reported, ~reused, NEW t \in Threads,
                    thread[t].todo = <<>>, thread[t].sid # None,
                    Gen(thread[t].sid) = thread[t].gen, thread[t].gen # 0
             PROVE  /\ thread[t].op = "sessionReport" =>
                         \A key \in SessionKeys :
                            thread[t].report[key] = sessionList[thread[t].sid].parameters[key]
                    /\ thread[t].op = "connectionReport" /\ thread[t].cid # None =>
                         \A key \in ConnectionKeys :
                            thread[t].report[key] =
                              sessionList[thread[t].sid].connections[thread[t].cid].parameters[key]
  BY DEF ReportIsOfTarget
<1>1. Exists(thread[t].sid)
  BY DEF Gen
<1>2. CallsIn(thread[t].todo) = {}
  BY OrderlyNone
<1>3. thread[t].op \in Reports => t = Main
  BY ThreadNames DEF Inv, ThreadsInv, Reports
<1> QED
  BY <1>1, <1>2, <1>3 DEF Reported, ReportInv, Read, Reports

\* The report of a session or connection that is sent while the session it was found for
\* is still there has every parameter as the kernel has it, for any number of sessions,
\* connections and names (iSCSISessionCopyCFPropertiesForTarget and ForPortal): what is
\* read first is not changed before the rest is read, by discovery or by anyone.
THEOREM ReportsOfTarget == Spec => []ReportIsOfTarget
<1>1. Init => Reported
  BY InitReported
<1>2. Inv /\ Inv' /\ Base /\ Reported /\ [Next]_vars => Reported'
  BY StepReported
<1>3. Inv /\ Reported => ReportIsOfTarget
  BY ReportedIs
<1>4. Spec => []Reported
  BY <1>1, <1>2, AlwaysBase, PTL DEF Spec
<1> QED
  BY <1>3, <1>4, AlwaysBase, PTL

-----------------------------------------------------------------------------
(* No session is left behind: one without an active connection is in the   *)
(* hands of a thread that will activate or release it, or a message tells  *)
(* of it.  A session that this daemon created has one connection; a login  *)
(* may have added another, which is not active and which it will release.  *)

Adds(sid) == Adding(thread[Main]) /\ thread[Main].sid = sid
FewConnections ==
  \A sid \in Slots : Gen(sid) > atStart =>
    \E cid \in Cids : \/ Connections(sid) = {cid}
                      \/ /\ Adds(sid) /\ cid # thread[Main].cid
                         /\ Connections(sid) = {cid, thread[Main].cid}
                         /\ ~reused => thread[Main].cid \notin Active(sid)
InHand(gen) == \/ \E t \in Threads : thread[t].gen = gen /\ InCharge(thread[t])
               \/ \E i \in 1 .. Len(messages) : messages[i].gen = gen
HandInv ==
  ~reused => \A sid \in Slots :
    Gen(sid) > atStart /\ Active(sid) = {} /\ Gen(sid) \notin notMounted => InHand(Gen(sid))
Hand == FewConnections /\ HandInv

\* A thread stays in charge of what it is in charge of.
Stays(th, new) ==
  /\ InCharge(th) => InCharge(new) /\ new.gen = th.gen
  /\ Adding(th) => Adding(new) /\ new.sid = th.sid /\ new.cid = th.cid

LEMMA CreatedLater ==
  ASSUME Inv \/ Inv', NEW s
  PROVE  /\ Inv => (Gen(s) > atStart => Exists(s) /\ s \in Slots)
         /\ Inv' => (Gen(s)' > atStart' => Exists(s)' /\ s \in Slots)
<1>1. Inv => atStart \in Nat
  BY DEF Inv, KernelInv, TableInv
<1>2. Inv' => atStart' \in Nat
  BY DEF Inv, KernelInv, TableInv
<1> QED
  BY <1>1, <1>2 DEF Gen, Exists

\* The few connections of a session, after a step.
LEMMA FewKept ==
  ASSUME Inv', FewConnections, atStart' = atStart, ~reused' => ~reused,
         NEW m, m = thread'[Main],
         \A s \in Slots : Exists(s)' /\ Gen(s)' > atStart =>
            \/ \E cid \in Cids : Connections(s)' = {cid}
            \/ \E cid \in Cids :
                 /\ Adding(m) /\ m.sid = s /\ cid # m.cid
                 /\ Connections(s)' = {cid, m.cid}
                 /\ ~reused' => m.cid \notin Active(s)'
            \/ /\ Exists(s) /\ Gen(s)' = Gen(s) /\ Connections(s)' = Connections(s)
               /\ Adds(s) => /\ Adding(m) /\ m.sid = s /\ m.cid = thread[Main].cid
                             /\ Active(s)' \subseteq Active(s)
  PROVE  FewConnections'
<1>1. ASSUME NEW s \in Slots, Gen(s)' > atStart'
      PROVE  \E cid \in Cids :
               \/ Connections(s)' = {cid}
               \/ /\ Adding(m) /\ m.sid = s /\ cid # m.cid
                  /\ Connections(s)' = {cid, m.cid}
                  /\ ~reused' => m.cid \notin Active(s)'
  <2>1. Exists(s)'
    BY <1>1, CreatedLater
  <2>2. CASE /\ Gen(s)' = Gen(s) /\ Connections(s)' = Connections(s)
             /\ Adds(s) => /\ Adding(m) /\ m.sid = s /\ m.cid = thread[Main].cid
                           /\ Active(s)' \subseteq Active(s)
    <3>1. PICK th : th = thread[Main]
      OBVIOUS
    <3>2. PICK cid \in Cids :
                 \/ Connections(s) = {cid}
                 \/ /\ Adds(s) /\ cid # th.cid
                    /\ Connections(s) = {cid, th.cid}
                    /\ ~reused => th.cid \notin Active(s)
      BY <1>1, <2>2, <3>1 DEF FewConnections
    <3> QED
      BY <2>2, <3>1, <3>2
  <2> QED
    BY <1>1, <2>1, <2>2
<1> QED
  BY <1>1 DEF FewConnections, Adds, Adding, Has

\* The sessions whose targets were not mounted are remembered.
Remembers == notMounted \subseteq notMounted'

LEMMA HandKept ==
  ASSUME Inv', Remembers, HandInv, atStart' = atStart, ~reused' => ~reused,
         \A s \in Slots : \A gen : /\ ~reused /\ gen > atStart /\ gen \notin notMounted'
                                  /\ Exists(s)' /\ gen = Gen(s)' /\ Active(s)' = {} =>
            \/ InHand(gen)'
            \/ Exists(s) /\ gen = Gen(s) /\ Active(s) = {} /\ (InHand(gen) => InHand(gen)')
  PROVE  HandInv'
<1>1. ASSUME ~reused', NEW s \in Slots, NEW gen, gen = Gen(s)', gen > atStart', Active(s)' = {},
             gen \notin notMounted'
      PROVE  InHand(gen)'
  <2>1. Exists(s)'
    BY <1>1, CreatedLater
  <2>2. CASE InHand(gen)'
    BY <2>2
  <2>3. CASE Exists(s) /\ gen = Gen(s) /\ Active(s) = {} /\ (InHand(gen) => InHand(gen)')
    BY <1>1, <2>3 DEF HandInv, Remembers
  <2> QED
    BY <1>1, <2>1, <2>2, <2>3
<1>2. ASSUME ~reused', NEW s \in Slots, Gen(s)' > atStart', Active(s)' = {},
             Gen(s)' \notin notMounted'
      PROVE  InHand(Gen(s))'
  <2>1. PICK gen : gen = Gen(s)'
    OBVIOUS
  <2>2. InHand(gen)'
    BY <1>1, <1>2, <2>1
  <2> QED
    BY <2>1, <2>2 DEF InHand
<1> QED
  BY <1>2 DEF HandInv

\* What is in hand stays in hand.
LEMMA StaysInHand ==
  ASSUME Inv, NEW t \in Threads, NEW new, thread' = [thread EXCEPT ![t] = new],
         messages' = messages \/ \E m : messages' = Append(messages, m),
         NEW gen, InHand(gen),
         InCharge(thread[t]) /\ thread[t].gen = gen => InCharge(new) /\ new.gen = gen
  PROVE  InHand(gen)'
<1>1. thread'[t] = new /\ \A other \in Threads \ {t} : thread'[other] = thread[other]
  BY DEF Inv, ThreadsInv
<1>2. messages \in Seq(Message)
  BY DEF Inv, KernelInv
<1>3. ASSUME NEW i \in 1 .. Len(messages), messages[i].gen = gen
      PROVE  i \in 1 .. Len(messages') /\ messages'[i] = messages[i]
  BY <1>2, <1>3
<1>4. CASE \E i \in 1 .. Len(messages) : messages[i].gen = gen
  BY <1>3, <1>4 DEF InHand
<1>5. ASSUME NEW u \in Threads, thread[u].gen = gen, InCharge(thread[u])
      PROVE  \E v \in Threads : thread'[v].gen = gen /\ InCharge(thread'[v])
  BY <1>1, <1>5
<1> QED
  BY <1>4, <1>5 DEF InHand, InCharge, Has

\* A step of one thread that takes no connection from a session that stays.
LEMMA StaysHand ==
  ASSUME Inv, Inv', Remembers, Hand, Keeps, atStart' = atStart, reused' = reused,
         NEW t \in Threads, NEW new, thread' = [thread EXCEPT ![t] = new], Stays(thread[t], new),
         messages' = messages \/ \E m : messages' = Append(messages, m),
         \A s \in Slots : Exists(s)' /\ Active(s)' = {} =>
            Active(s) = {} \/ \E i \in 1 .. Len(messages') : messages'[i].gen = Gen(s)
  PROVE  Hand'
<1>1. PICK m : m = thread'[Main]
  OBVIOUS
<1>2. Adding(thread[Main]) =>
         Adding(m) /\ m.sid = thread[Main].sid /\ m.cid = thread[Main].cid
  BY <1>1, Moves DEF Stays
<1>3. \A s \in Slots : Exists(s)' =>
         /\ Exists(s) /\ Gen(s)' = Gen(s) /\ Connections(s)' = Connections(s)
         /\ Active(s)' \subseteq Active(s)
  BY DEF Keeps, Lessens
<1>4. FewConnections'
  BY <1>1, <1>2, <1>3, FewKept DEF Hand, Adds
<1>5. ASSUME NEW s \in Slots, NEW gen, Exists(s)', gen = Gen(s)', Active(s)' = {}
      PROVE  \/ InHand(gen)'
             \/ Exists(s) /\ gen = Gen(s) /\ Active(s) = {} /\ (InHand(gen) => InHand(gen)')
  <2>1. Exists(s) /\ gen = Gen(s)
    BY <1>3, <1>5
  <2>2. InHand(gen) => InHand(gen)'
    BY StaysInHand DEF Stays
  <2>3. (\E i \in 1 .. Len(messages') : messages'[i].gen = gen) => InHand(gen)'
    BY DEF InHand
  <2> QED
    BY <1>5, <2>1, <2>2, <2>3
<1>6. HandInv'
  BY <1>5, HandKept DEF Hand
<1> QED
  BY <1>4, <1>6 DEF Hand

LEMMA LosesTells ==
  ASSUME Inv, NEW s, Loses(s)
  PROVE  /\ \E m : messages' = Append(messages, m)
         /\ \A r \in Slots : Exists(r)' /\ Active(r)' = {} =>
              Active(r) = {} \/ \E i \in 1 .. Len(messages') : messages'[i].gen = Gen(r)
<1>1. PICK m : m.gen = Gen(s) /\ messages' = Append(messages, m)
  BY DEF Loses
<1>2. messages \in Seq(Message)
  BY DEF Inv, KernelInv
<1>3. Len(messages') = Len(messages) + 1 /\ messages'[Len(messages')] = m /\ Len(messages) \in Nat
  BY <1>1, <1>2
<1>4. \E i \in 1 .. Len(messages') : messages'[i].gen = Gen(s)
  BY <1>1, <1>3
<1>5. ASSUME NEW r \in Slots, r # s
      PROVE  Active(r)' = Active(r)
  BY <1>5, SameSlot DEF Loses
<1> QED
  BY <1>1, <1>4, <1>5

LEMMA TurnsHand ==
  ASSUME Inv, Inv', Remembers, Hand, NEW t \in Threads, Turns(t) \/ TurnsLosing(t)
  PROVE  Hand'
<1>1. CASE Turns(t)
  <2>1. \A s : Active(s)' = Active(s)
    BY <1>1, SameSlots DEF Turns
  <2> QED
    BY <1>1, <2>1, SameKeeps, StaysHand DEF Turns, Calm, Stays
<1>2. CASE TurnsLosing(t)
  <2>1. PICK new, s : /\ thread' = [thread EXCEPT ![t] = new] /\ Calm(thread[t], new) /\ Loses(s)
                      /\ atStart' = atStart /\ reused' = reused
    BY <1>2 DEF TurnsLosing
  <2>2. Stays(thread[t], new) /\ Keeps
    BY <2>1 DEF Calm, Stays, Loses
  <2> QED
    BY <2>1, <2>2, LosesTells, StaysHand
<1> QED
  BY <1>1, <1>2

LEMMA StillHand ==
  ASSUME Inv, Inv', Remembers, Hand, Still, NEW t \in Threads, NEW new, thread' = [thread EXCEPT ![t] = new],
         Quiet(thread[t], new)
  PROVE  Hand'
<1>1. \A s : Active(s)' = Active(s)
  BY SameSlots DEF Still
<1> QED
  BY <1>1, SameKeeps, StaysHand DEF Still, Quiet, Stays

LEMMA RestsHand ==
  ASSUME Inv, Inv', Base, Rests
  PROVE  Hand'
<1>1. ASSUME NEW s \in Slots, Gen(s)' > atStart'
      PROVE  FALSE
  <2>1. atStart' = created' /\ created' = created /\ created \in Nat
    BY DEF Rests, Lessens, Fades, Inv, KernelInv, TableInv
  <2>2. Exists(s)'
    BY <1>1, CreatedLater
  <2>3. Gen(s)' = Gen(s) /\ Gen(s) <= created
    BY <2>2 DEF Rests, Lessens, Base, Sorted
  <2> QED
    BY <1>1, <2>1, <2>3, ExistsGen DEF Inv, KernelInv
<1> QED
  BY <1>1 DEF Hand, FewConnections, HandInv

\* Another slot's sessions are as they were.
LEMMA ReleasedOthers ==
  ASSUME Inv, Base, NEW sid, ReleaseSession(sid)
  PROVE  \A s \in Slots : Exists(s)' => s # sid /\ Exists(s) /\ Gen(s)' = Gen(s)
                                        /\ Connections(s)' = Connections(s) /\ Active(s)' = Active(s)
<1>1. ~Exists(sid)' /\ \A s \in Slots \ {sid} : sessionList'[s] = sessionList[s]
  BY ReleaseSessionEffect DEF Inv, KernelInv, Base
<1> QED
  BY <1>1, SameSlot

LEMMA KernelStepHand ==
  ASSUME Inv, Inv', Remembers, Base, Hand, ConnectionLost \/ SessionDropped, UNCHANGED thread,
         UNCHANGED daemonVars
  PROVE  Hand'
<1>1. /\ reused' = reused /\ atStart' = atStart
      /\ \/ Rests \/ (\E s : Loses(s))
         \/ messages' = messages /\ \E s : ReleaseSession(s)
  BY KernelStepKinds
<1>2. CASE Rests
  BY <1>2, RestsHand
<1>3. Main \in Threads /\ thread' = [thread EXCEPT ![Main] = thread[Main]]
      /\ Stays(thread[Main], thread[Main])
  BY ThreadNames DEF Inv, ThreadsInv, Stays
<1>4. ASSUME NEW s, Loses(s)
      PROVE  Hand'
  BY <1>1, <1>3, <1>4, LosesTells, StaysHand DEF Loses
<1>5. ASSUME NEW s, ReleaseSession(s), messages' = messages
      PROVE  Hand'
  BY <1>1, <1>3, <1>5, ReleasedKeeps, ReleasedOthers, StaysHand
<1> QED
  BY <1>1, <1>2, <1>4, <1>5

\* The thread that talks to the target.
LEMMA TalkHand ==
  ASSUME Inv, Inv', Remembers, Hand, NEW t \in Threads, NEW name, NEW new, GoesOn(t, name, new),
         name \in Sets \cup {"exchange"}, atStart' = atStart, reused' = reused, messages' = messages,
         \A s \in Slots : Exists(s)' =>
            /\ Exists(s) /\ Gen(s)' = Gen(s)
            /\ Connections(s)' = Connections(s) /\ Active(s)' = Active(s)
  PROVE  Hand'
<1>1. /\ thread' = [thread EXCEPT ![t] = new] /\ new.op = thread[t].op
      /\ new.sid = thread[t].sid /\ new.cid = thread[t].cid /\ new.gen = thread[t].gen
      /\ Names(thread[t].todo) = {name} \cup Names(new.todo)
  BY DEF GoesOn
<1>2. Stays(thread[t], new)
  BY <1>1 DEF Stays, InCharge, Adding, Has, Sets
<1>3. PICK m : m = thread'[Main]
  OBVIOUS
<1>4. Adding(thread[Main]) => Adding(m) /\ m.sid = thread[Main].sid /\ m.cid = thread[Main].cid
  BY <1>1, <1>2, <1>3, Moves DEF Stays
<1>5. FewConnections'
  BY <1>3, <1>4, FewKept DEF Hand, Adds
<1>6. \A gen : InHand(gen) => InHand(gen)'
  BY <1>1, <1>2, StaysInHand DEF Stays
<1>7. HandInv'
  BY <1>6, HandKept DEF Hand
<1> QED
  BY <1>5, <1>7 DEF Hand

LEMMA ExchangeHand ==
  ASSUME Inv, Inv', Remembers, Base, Hand, NEW t \in Threads, Exchange(t)
  PROVE  Hand'
<1>1. ASSUME NEW new, GoesOn(t, "exchange", new), sessionList' = sessionList, reused' = reused,
             atStart' = atStart, messages' = messages
      PROVE  Hand'
  BY <1>1, SameSlots, TalkHand
<1> QED
  BY <1>1, ExchangeKinds, TurnsHand

LEMMA SetParameterHand ==
  ASSUME Inv, Inv', Remembers, Base, Hand, NEW t \in Threads, SetParameter(t)
  PROVE  Hand'
<1>0. PICK key \in Keys : \E new : SetsParameter(t, key, new)
  BY SetParameterIs
<1>1. PICK new : SetsParameter(t, key, new)
  BY <1>0
<1>2. PICK name \in Sets : GoesOn(t, name, new)
  BY <1>1 DEF SetsParameter
<1> QED
  BY <1>1, <1>2, TalkHand DEF SetsParameter

\* Who creates a session is in charge of it.
LEMMA CreateHand ==
  ASSUME Inv, Inv', Remembers, Base, Hand, NEW t \in Threads, Create(t)
  PROVE  Hand'
<1>1. ASSUME NEW sid, NEW new, Creates(t, sid, new)
      PROVE  Hand'
  <2>1. /\ sid = NewSid /\ CreateSession(thread[t].iqn, thread[t].portal)
        /\ thread[t].portal \in Portals /\ sid \in Slots /\ At(t, "CreateSession")
        /\ thread' = [thread EXCEPT ![t] = new] /\ reused' = (reused \/ NumberInUse(t, sid))
        /\ new.todo = IF t = Main THEN LoginCalls ELSE DiscoveryCalls
        /\ new.gen = created + 1 /\ messages' = messages /\ atStart' = atStart
    BY <1>1 DEF Creates
  <2>2. /\ ~Exists(sid) /\ \A s \in Slots \ {sid} : sessionList'[s] = sessionList[s]
        /\ Connections(sid)' = {0} /\ Gen(sid)' = created + 1
    BY <2>1, CreateSessionEffect DEF Inv, KernelInv
  <2>3. \A s \in Slots \ {sid} : /\ Exists(s)' <=> Exists(s)
                                 /\ Gen(s)' = Gen(s)
                                 /\ Connections(s)' = Connections(s) /\ Active(s)' = Active(s)
    BY <2>2, SameSlot
  <2>4. Names(thread[t].todo) \cap {"ReleaseSession", "ActivateConnection", "ReleaseConnection"} = {}
    BY <2>1, AloneFree DEF Alone
  <2>5. ~InCharge(thread[t]) /\ ~Adding(thread[t])
    BY <2>4 DEF InCharge, Adding, Has
  <2>6. InCharge(new)
    BY <2>1, LoginList, DiscoveryList DEF InCharge, Has
  <2>7. thread'[t] = new
    BY <2>1 DEF Inv, ThreadsInv
  <2>8. PICK gen : gen = created + 1
    OBVIOUS
  <2>9. InHand(gen)'
    <3>1. thread'[t].gen = gen /\ InCharge(thread'[t])
      BY <2>1, <2>6, <2>7, <2>8
    <3> QED
      BY <3>1 DEF InHand, InCharge, Has
  <2>10. \A g : InHand(g) => InHand(g)'
    BY <2>1, <2>5, StaysInHand
  <2>11. HandInv'
    BY <2>1, <2>2, <2>3, <2>8, <2>9, <2>10, HandKept DEF Hand
  <2>12. PICK m : m = thread'[Main]
    OBVIOUS
  <2>13. t # Main => m = thread[Main]
    BY <2>1, <2>12, Moves
  <2>14. 0 \in Cids
    BY <2>2, ExistsAfter
  <2>15. \A s : Adds(s) => m = thread[Main]
    BY <2>5, <2>13 DEF Adds
  <2>16. ASSUME NEW s \in Slots, Exists(s)'
         PROVE  \/ \E cid \in Cids : Connections(s)' = {cid}
                \/ /\ Exists(s) /\ Gen(s)' = Gen(s) /\ Connections(s)' = Connections(s)
                   /\ Adds(s) => /\ Adding(m) /\ m.sid = s /\ m.cid = thread[Main].cid
                                 /\ Active(s)' \subseteq Active(s)
    <3>1. CASE s = sid
      BY <2>2, <2>14, <3>1
    <3>2. CASE s # sid
      BY <2>3, <2>15, <2>16, <3>2 DEF Adds
    <3> QED
      BY <3>1, <3>2
  <2>17. (~reused' => ~reused) /\ atStart' = atStart /\ FewConnections
    BY <2>1 DEF Hand
  <2>18. FewConnections'
    BY <2>12, <2>16, <2>17, FewKept
  <2> QED
    BY <2>11, <2>18 DEF Hand
<1> QED
  BY <1>1, CreateKinds, TurnsHand

LEMMA AddConnectionHand ==
  ASSUME Inv, Inv', Remembers, Base, Hand, NEW t \in Threads, AddConnection(t)
  PROVE  Hand'
<1>1. ASSUME NEW sid, NEW cid, NEW new, AddsConnection(t, sid, cid, new)
      PROVE  Hand'
  <2>1. /\ CreateConnection(sid, thread[t].portal) /\ thread[t].portal \in Portals
        /\ cid = NewCid(sid) /\ t = Main /\ LogsIn(new.op) /\ At(t, "CreateConnection")
        /\ thread' = [thread EXCEPT ![t] = new] /\ reused' = reused
        /\ new.sid = sid /\ new.cid = cid /\ messages' = messages /\ atStart' = atStart
        /\ Names(new.todo) = {"GetTargetIQNForSessionId", "ReleaseConnection"}
    BY <1>1 DEF AddsConnection
  <2>2. /\ Exists(sid) /\ cid \notin Connections(sid)
        /\ \A s \in Slots \ {sid} : sessionList'[s] = sessionList[s]
        /\ Exists(sid)' /\ Gen(sid)' = Gen(sid)
        /\ Connections(sid)' = Connections(sid) \cup {cid} /\ Active(sid)' = Active(sid)
    BY <2>1, CreateConnectionEffect DEF Inv, KernelInv
  <2>3. \A s \in Slots \ {sid} : /\ Exists(s)' <=> Exists(s)
                                 /\ Gen(s)' = Gen(s)
                                 /\ Connections(s)' = Connections(s) /\ Active(s)' = Active(s)
    BY <2>2, SameSlot
  <2>4. Names(thread[t].todo) \cap {"ReleaseSession", "ActivateConnection", "ReleaseConnection"} = {}
    BY <2>1, AloneFree DEF Alone
  <2>5. ~InCharge(thread[t]) /\ ~Adding(thread[t]) /\ Adding(new)
    BY <2>1, <2>4 DEF InCharge, Adding, Has
  <2>6. \A gen : InHand(gen) => InHand(gen)'
    BY <2>1, <2>5, StaysInHand
  <2>7. HandInv'
    BY <2>1, <2>2, <2>3, <2>6, HandKept DEF Hand
  <2>8. PICK m : m = thread'[Main]
    OBVIOUS
  <2>9. m = new
    BY <2>1, <2>8, Moves
  <2>10. cid \notin Active(sid)
    BY <2>2 DEF Active
  <2>11. ASSUME Gen(sid)' > atStart
         PROVE  \E c \in Cids : c # cid /\ Connections(sid)' = {c, cid}
    <3>1. PICK c \in Cids : Connections(sid) = {c}
      BY <2>1, <2>2, <2>5, <2>11 DEF Hand, FewConnections, Adds, Exists
    <3> QED
      BY <2>2, <3>1
  <2>12. FewConnections'
    BY <2>1, <2>2, <2>3, <2>5, <2>8, <2>9, <2>10, <2>11, FewKept DEF Hand, Adds
  <2> QED
    BY <2>7, <2>12 DEF Hand
<1> QED
  BY <1>1, AddConnectionKinds, TurnsHand

\* What is activated is a connection of the session that the thread is in charge of.
LEMMA ActivateHand ==
  ASSUME Inv, Inv', Remembers, Base, Hand, Reported, NEW t \in Threads, Activate(t)
  PROVE  Hand'
<1>1. PICK new : Activates(t, new)
  BY ActivateIs
<1>2. PICK th : th = thread[t]
  OBVIOUS
<1>3. /\ t = Main /\ thread' = [thread EXCEPT ![t] = new]
      /\ LogsIn(th.op) /\ CallsIn(th.todo) = {Call("ActivateConnection")} /\ Names(new.todo) = {}
      /\ \A s \in Slots : /\ Exists(s)' <=> Exists(s)
                          /\ Gen(s)' = Gen(s) /\ Connections(s)' = Connections(s)
      /\ \A s \in Slots : /\ Active(s) \subseteq Active(s)'
                          /\ s = th.sid /\ th.cid \in Connections(s) =>
                               th.cid \in Active(s)' \/ Gen(s) \in notMounted'
      /\ reused' = reused /\ atStart' = atStart /\ messages' = messages
  BY <1>1, <1>2 DEF Activates, GoesOn
<1>4. Names(th.todo) = {"ActivateConnection"}
  BY <1>3, CallName DEF Names
<1>5. ~Adding(th) /\ Has(th, "ActivateConnection")
  BY <1>4 DEF Adding, Has
<1>6. PICK m : m = thread'[Main]
  OBVIOUS
<1>7. FewConnections'
  BY <1>2, <1>3, <1>5, <1>6, FewKept DEF Hand, Adds
<1>8. ASSUME ~reused, NEW s \in Slots, NEW gen, gen \notin notMounted',
             Exists(s)', gen = Gen(s)', Active(s)' = {}
      PROVE  Exists(s) /\ gen = Gen(s) /\ Active(s) = {} /\ (InHand(gen) => InHand(gen)')
  <2>1. Exists(s) /\ gen = Gen(s) /\ Active(s) = {}
    BY <1>3, <1>8
  <2>2. s # th.sid
    <3>1. SUFFICES ASSUME s = th.sid PROVE FALSE
      OBVIOUS
    <3>2. th.cid \in Connections(th.sid)
      BY <1>2, <1>3, <1>5, <1>8, <2>1, <3>1 DEF Reported, ReportInv, Holds
    <3> QED
      BY <1>3, <1>8, <3>1, <3>2
  <2>3. th.gen # gen
    BY <1>2, <2>1, <2>2 DEF Base, PlacedInv, Placed
  <2>4. InHand(gen) => InHand(gen)'
    BY <1>2, <1>3, <2>3, StaysInHand
  <2> QED
    BY <2>1, <2>4
<1>9. HandInv'
  BY <1>3, <1>8, HandKept DEF Hand
<1> QED
  BY <1>7, <1>9 DEF Hand

\* A session that is deactivated is released later.
LEMMA DeactivateHand ==
  ASSUME Inv, Inv', Remembers, Base, Hand, NEW t \in Threads, Deactivate(t)
  PROVE  Hand'
<1>1. /\ At(t, "DeactivateAllConnections") /\ SetActive(thread[t].sid, Cids, FALSE)
      /\ Continue(t, Rest(t)) /\ reused' = reused /\ messages' = messages /\ atStart' = atStart
  BY OnlyTableKeeps DEF Deactivate, DeactivateAllConnections
<1>2. PICK new : GoesOn(t, "DeactivateAllConnections", new)
  BY <1>1, RestGoesOn DEF ReportCalls, ListCalls
<1>3. PICK th : th = thread[t]
  OBVIOUS
<1>4. /\ thread' = [thread EXCEPT ![t] = new] /\ new.op = th.op /\ th.op # "sleep"
      /\ new.sid = th.sid /\ new.cid = th.cid /\ new.gen = th.gen
      /\ Names(th.todo) = {"DeactivateAllConnections"} \cup Names(new.todo)
      /\ \A other \in Names(new.todo) : Follows("DeactivateAllConnections", other)
  BY <1>2, <1>3 DEF GoesOn, Lists
<1>5. "ReleaseSession" \in Names(new.todo)
  BY <1>1, <1>2, RestKnows DEF GoesOn
<1>6. ~Adding(th) /\ InCharge(new)
  BY <1>4, <1>5 DEF Adding, InCharge, Has, Follows
<1>7. \A s \in Slots : Exists(s)' =>
         Exists(s) /\ Gen(s)' = Gen(s) /\ Connections(s)' = Connections(s)
  BY <1>1, DeactivatedKeeps DEF Keeps, Lessens
<1>8. \A s \in Slots : s # th.sid => Active(s)' = Active(s)
  <2>1. PICK sid : sid = th.sid
    OBVIOUS
  <2>2. \A s \in Slots \ {sid} : sessionList'[s] = sessionList[s]
    BY <1>1, <1>3, <2>1, SetActiveEffect DEF Inv, KernelInv
  <2> QED
    BY <2>1, <2>2, SameSlot
<1>9. PICK m : m = thread'[Main]
  OBVIOUS
<1>10. t # Main => m = thread[Main]
  BY <1>4, <1>9, Moves
<1>11. \A s \in Slots : Exists(s)' => Active(s)' \subseteq Active(s)
  BY <1>1, DeactivatedKeeps DEF Keeps, Lessens
<1>12. FewConnections'
  BY <1>1, <1>3, <1>6, <1>7, <1>9, <1>10, <1>11, FewKept DEF Hand, Adds
<1>13. thread'[t] = new
  BY <1>4 DEF Inv, ThreadsInv
<1>14. \A gen : InHand(gen) => InHand(gen)'
  BY <1>1, <1>3, <1>4, <1>6, StaysInHand
<1>15. ASSUME ~reused, NEW s \in Slots, NEW gen, Exists(s)', gen = Gen(s)', Active(s)' = {}
       PROVE  \/ InHand(gen)'
              \/ Exists(s) /\ gen = Gen(s) /\ Active(s) = {} /\ (InHand(gen) => InHand(gen)')
  <2>1. CASE s = th.sid
    <3>1. gen = th.gen
      BY <1>3, <1>4, <1>7, <1>15, <2>1, KnownOf
    <3>2. thread'[t].gen = gen /\ InCharge(thread'[t])
      BY <1>4, <1>6, <1>13, <3>1
    <3> QED
      BY <3>2 DEF InHand, InCharge, Has
  <2>2. CASE s # th.sid
    BY <1>7, <1>8, <1>14, <1>15, <2>2
  <2> QED
    BY <2>1, <2>2
<1>16. HandInv'
  BY <1>1, <1>15, HandKept DEF Hand
<1> QED
  BY <1>12, <1>16 DEF Hand

\* The session is gone, and whoever was in charge of it was in charge of no other.
LEMMA ReleaseSessionHand ==
  ASSUME Inv, Inv', Remembers, Base, Hand, NEW t \in Threads, NEW new, thread' = [thread EXCEPT ![t] = new],
         ReleaseSession(thread[t].sid),
         reused' = reused, messages' = messages, atStart' = atStart
  PROVE  Hand'
<1>1. PICK th : th = thread[t]
  OBVIOUS
<1>2. \A s \in Slots : Exists(s)' => s # th.sid /\ Exists(s) /\ Gen(s)' = Gen(s)
                                     /\ Connections(s)' = Connections(s) /\ Active(s)' = Active(s)
  <2>1. PICK sid : sid = th.sid
    OBVIOUS
  <2> QED
    BY <1>1, <2>1, ReleasedOthers
<1>3. PICK m : m = thread'[Main]
  OBVIOUS
<1>4. t # Main => m = thread[Main]
  BY <1>3, Moves
<1>5. FewConnections'
  BY <1>1, <1>2, <1>3, <1>4, FewKept DEF Hand, Adds
<1>6. ASSUME NEW s \in Slots, NEW gen, Exists(s)', gen = Gen(s)'
      PROVE  InHand(gen) => InHand(gen)'
  <2>1. Exists(s) /\ gen = Gen(s) /\ s # th.sid
    BY <1>2, <1>6
  <2>2. th.gen # gen
    BY <1>1, <2>1 DEF Base, PlacedInv, Placed
  <2> QED
    BY <1>1, <2>2, StaysInHand
<1>7. HandInv'
  BY <1>2, <1>6, HandKept DEF Hand
<1> QED
  BY <1>5, <1>7 DEF Hand

\* A timeout releases the only connection that there is, a login the one that it added.
LEMMA ReleaseConnectionHand ==
  ASSUME Inv, Inv', Remembers, Base, Hand, NEW t \in Threads, NEW new, GoesOn(t, "ReleaseConnection", new),
         ReleaseConnection(thread[t].sid, thread[t].cid),
         reused' = reused, messages' = messages, atStart' = atStart
  PROVE  Hand'
<1>1. PICK th : th = thread[t]
  OBVIOUS
<1>2. PICK sid : sid = th.sid
  OBVIOUS
<1>3. /\ At(t, "ReleaseConnection") /\ thread' = [thread EXCEPT ![t] = new]
      /\ Names(th.todo) = {"ReleaseConnection"} \cup Names(new.todo)
      /\ \A other \in Names(new.todo) : Follows("ReleaseConnection", other)
  BY <1>1 DEF GoesOn
<1>4. th.op = "timeout" \/ LogsIn(th.op)
  BY <1>1, <1>3, AtKnows DEF Meets
<1>5. t = Main
  BY <1>1, <1>4, ThreadNames DEF Inv, ThreadsInv, LogsIn
<1>6. CASE Cardinality(Connections(sid)) = 1
  <2>1. ReleaseSession(thread[t].sid)
    BY <1>1, <1>2, <1>6 DEF ReleaseConnection
  <2> QED
    BY <1>3, <2>1, ReleaseSessionHand
<1>7. CASE Cardinality(Connections(sid)) # 1
  <2>1. /\ \A s \in Slots \ {sid} : sessionList'[s] = sessionList[s]
        /\ Exists(sid)' <=> Exists(sid)
        /\ Exists(sid) => /\ Gen(sid)' = Gen(sid)
                          /\ Connections(sid)' = Connections(sid) \ {th.cid}
                          /\ Active(sid)' = Active(sid) \ {th.cid}
    BY <1>1, <1>2, <1>7, ReleaseConnectionEffect DEF Inv, KernelInv, Base
  <2>2. \A s \in Slots \ {sid} : /\ Exists(s)' <=> Exists(s)
                                 /\ Gen(s)' = Gen(s)
                                 /\ Connections(s)' = Connections(s) /\ Active(s)' = Active(s)
    BY <2>1, SameSlot
  <2>3. ASSUME sid \in Slots, Exists(sid)', Gen(sid)' > atStart
        PROVE  /\ Adding(th) /\ \E c \in Cids : Connections(sid)' = {c}
               /\ ~reused => Active(sid)' = Active(sid)
    <3>1. Exists(sid) /\ Gen(sid) > atStart
      BY <2>1, <2>3
    <3>2. PICK c \in Cids : \/ Connections(sid) = {c}
                            \/ /\ Adds(sid) /\ c # th.cid
                               /\ Connections(sid) = {c, th.cid}
                               /\ ~reused => th.cid \notin Active(sid)
      BY <1>1, <1>5, <2>3, <3>1 DEF Hand, FewConnections
    <3>3. Connections(sid) # {c}
      BY <1>7, OneConnection
    <3> QED
      BY <1>1, <1>5, <2>1, <3>1, <3>2, <3>3 DEF Adds
  <2>4. PICK m : m = thread'[Main]
    OBVIOUS
  <2>5. FewConnections'
    BY <1>1, <1>2, <1>5, <2>2, <2>3, <2>4, FewKept DEF Hand, Adds
  <2>6. ASSUME ~reused, NEW s \in Slots, NEW gen, gen > atStart, Exists(s)', gen = Gen(s)', Active(s)' = {}
        PROVE  Exists(s) /\ gen = Gen(s) /\ Active(s) = {} /\ (InHand(gen) => InHand(gen)')
    <3>1. CASE s = sid
      <4>1. Adding(th) /\ Exists(s) /\ gen = Gen(s) /\ Active(s) = {}
        BY <2>1, <2>3, <2>6, <3>1
      <4>2. ~InCharge(th)
        BY <1>3, <4>1 DEF InCharge, Adding, Has, Follows, LogsIn
      <4> QED
        BY <1>1, <1>3, <4>1, <4>2, StaysInHand
    <3>2. CASE s # sid
      <4>1. Exists(s) /\ gen = Gen(s) /\ Active(s) = {}
        BY <2>2, <2>6, <3>2
      <4>2. th.gen # gen
        BY <1>1, <1>2, <3>2, <4>1 DEF Base, PlacedInv, Placed
      <4> QED
        BY <1>1, <1>3, <4>1, <4>2, StaysInHand
    <3> QED
      BY <3>1, <3>2
  <2>7. HandInv'
    BY <2>6, HandKept DEF Hand
  <2> QED
    BY <2>5, <2>7 DEF Hand
<1> QED
  BY <1>6, <1>7

LEMMA ReleaseHand ==
  ASSUME Inv, Inv', Remembers, Base, Hand, NEW t \in Threads, Release(t)
  PROVE  Hand'
<1>1. /\ Continue(t, Rest(t)) /\ reused' = reused /\ messages' = messages /\ atStart' = atStart
      /\ \/ At(t, "ReleaseSession") /\ ReleaseSession(thread[t].sid)
         \/ At(t, "ReleaseConnection") /\ ReleaseConnection(thread[t].sid, thread[t].cid)
  BY OnlyTableKeeps DEF Release
<1>2. CASE At(t, "ReleaseSession") /\ ReleaseSession(thread[t].sid)
  <2>1. PICK new : GoesOn(t, "ReleaseSession", new)
    BY <1>1, <1>2, RestGoesOn DEF ReportCalls, ListCalls
  <2>2. thread' = [thread EXCEPT ![t] = new]
    BY <2>1 DEF GoesOn
  <2> QED
    BY <1>1, <1>2, <2>2, ReleaseSessionHand
<1>3. CASE At(t, "ReleaseConnection") /\ ReleaseConnection(thread[t].sid, thread[t].cid)
  <2>1. PICK new : GoesOn(t, "ReleaseConnection", new)
    BY <1>1, <1>3, RestGoesOn DEF ReportCalls, ListCalls
  <2> QED
    BY <1>1, <1>3, <2>1, ReleaseConnectionHand
<1> QED
  BY <1>1, <1>2, <1>3

\* The run loop takes the message, and is in charge of what the message told of.
LEMMA HandleNotificationHand ==
  ASSUME Inv, Inv', Remembers, Base, Hand, HandleNotification
  PROVE  Hand'
<1>1. PICK new : /\ sessionList' = sessionList /\ atStart' = atStart /\ reused' = reused
                 /\ messages # <<>> /\ messages' = Tail(messages) /\ Fades
                 /\ thread' = [thread EXCEPT ![Main] = new] /\ Calm(thread[Main], new)
                 /\ InCharge(new) /\ new.gen = Head(messages).gen
  BY HandleNotificationIs
<1>2. \A s : /\ Exists(s)' <=> Exists(s)
             /\ Gen(s)' = Gen(s) /\ Connections(s)' = Connections(s) /\ Active(s)' = Active(s)
  BY <1>1, SameSlots
<1>3. PICK m : m = thread'[Main]
  OBVIOUS
<1>4. Adding(thread[Main]) => Adding(m) /\ m.sid = thread[Main].sid /\ m.cid = thread[Main].cid
  BY <1>1, <1>3, Moves, ThreadNames DEF Calm
<1>5. FewConnections'
  BY <1>1, <1>2, <1>3, <1>4, FewKept DEF Hand, Adds
<1>6. ASSUME NEW gen, InHand(gen)
      PROVE  InHand(gen)'
  <2>1. thread'[Main] = new /\ \A other \in Threads \ {Main} : thread'[other] = thread[other]
    BY <1>1, ThreadNames DEF Inv, ThreadsInv
  <2>2. CASE \E t \in Threads : thread[t].gen = gen /\ InCharge(thread[t])
    <3>1. PICK t \in Threads : thread[t].gen = gen /\ InCharge(thread[t])
      BY <2>2
    <3>2. thread'[t].gen = gen /\ InCharge(thread'[t])
      BY <1>1, <2>1, <3>1 DEF Calm
    <3> QED
      BY <3>2 DEF InHand, InCharge, Has
  <2>3. CASE \E i \in 1 .. Len(messages) : messages[i].gen = gen
    <3>1. PICK i \in 1 .. Len(messages) : messages[i].gen = gen
      BY <2>3
    <3>2. messages \in Seq(Message)
      BY DEF Inv, KernelInv
    <3>3. CASE i = 1
      <4>1. thread'[Main].gen = gen /\ InCharge(thread'[Main]) /\ Main \in Threads
        BY <1>1, <2>1, <3>1, <3>2, <3>3, ThreadNames
      <4> QED
        BY <4>1 DEF InHand, InCharge, Has
    <3>4. CASE i # 1
      <4>1. i - 1 \in 1 .. Len(messages') /\ messages'[i - 1] = messages[i]
        BY <1>1, <3>1, <3>2, <3>4
      <4> QED
        BY <3>1, <4>1 DEF InHand
    <3> QED
      BY <3>3, <3>4
  <2> QED
    BY <1>6, <2>2, <2>3 DEF InHand
<1>7. HandInv'
  BY <1>1, <1>2, <1>6, HandKept DEF Hand
<1> QED
  BY <1>5, <1>7 DEF Hand

LEMMA ThreadStepHand ==
  ASSUME Inv, Inv', Remembers, Base, Reported, Hand, NEW t \in Threads, ThreadStep(t)
  PROVE  Hand'
<1>1. CASE LookUpSession(t)
  BY <1>1, LookUpSessionIs, OnlyThreadStill, StillHand DEF LookUpSession
<1>2. CASE LookUpConnection(t)
  BY <1>2, LookUpConnectionIs, OnlyThreadStill, StillHand DEF LookUpConnection
<1>3. CASE Create(t)
  BY <1>3, CreateHand
<1>4. CASE AddConnection(t)
  BY <1>4, AddConnectionHand
<1>5. CASE Exchange(t)
  BY <1>5, ExchangeHand
<1>6. CASE Query(t)
  BY <1>6, QueryKinds, TurnsHand
<1>7. CASE SetParameter(t)
  BY <1>7, SetParameterHand
<1>8. CASE Activate(t)
  BY <1>8, ActivateHand
<1>9. CASE Deactivate(t)
  BY <1>9, DeactivateHand
<1>10. CASE LogoutExchange(t)
  BY <1>10, LogoutExchangeTurns, TurnsHand
<1>11. CASE Release(t)
  BY <1>11, ReleaseHand
<1>12. CASE LogoutUnmounts(t)
  BY <1>12, LogoutUnmountsTurns, TurnsHand
<1>13. CASE LogoutOfPortal(t)
  BY <1>13, LogoutOfPortalTurns, TurnsHand, CrashRests, RestsHand
<1>14. CASE ReadParameter(t)
  BY <1>14, ReadParameterIs, StillHand
<1>15. CASE ListSessions(t)
  BY <1>15, ListSessionsIs, StillHand
<1>16. CASE ListTarget(t)
  BY <1>16, ListTargetTurns, TurnsHand, CrashRests, RestsHand
<1>17. CASE SleepTarget(t)
  BY <1>17, SleepTargetIs, StillHand
<1>18. CASE SleepSession(t)
  BY <1>18, SleepSessionIs, StillHand, CrashRests, RestsHand
<1>19. CASE CopyTarget(t)
  BY <1>19, CopyTargetTurns, TurnsHand, CrashRests, RestsHand
<1>20. CASE CopyPortal(t)
  BY <1>20, CopyPortalTurns, TurnsHand
<1>21. CASE TimeoutCallback(t)
  BY <1>21, TimeoutCallbackTurns, TurnsHand, CrashRests, RestsHand
<1>22. CASE NextLogin(t)
  BY <1>22, NextLoginTurns, TurnsHand
<1>23. CASE Return(t)
  BY <1>23, ReturnTurns, TurnsHand
<1> QED
  BY <1>1, <1>2, <1>3, <1>4, <1>5, <1>6, <1>7, <1>8, <1>9, <1>10, <1>11, <1>12, <1>13, <1>14,
     <1>15, <1>16, <1>17, <1>18, <1>19, <1>20, <1>21, <1>22, <1>23 DEF ThreadStep

LEMMA InitHand == Init => Hand
<1> SUFFICES ASSUME Init PROVE Hand
  OBVIOUS
<1>1. \A s : ~Exists(s)
  BY DEF Init, UserClientInit, Exists
<1>2. \A s : ~(Gen(s) > atStart)
  BY <1>1, NoSession DEF Init
<1> QED
  BY <1>2 DEF Hand, FewConnections, HandInv

\* Only the step that does not mount a target changes what is remembered.
LEMMA StepRemembers == [Next]_vars => Remembers
<1> SUFFICES ASSUME [Next]_vars PROVE Remembers
  OBVIOUS
<1> USE DEF Remembers
<1>1. UNCHANGED tableVars => notMounted' = notMounted
  BY DEF tableVars
<1>2. UNCHANGED kernelVars => notMounted' = notMounted
  BY <1>1 DEF kernelVars
<1>3. /\ OnlyThread => notMounted' = notMounted
      /\ Crash => notMounted' = notMounted
  BY <1>2 DEF OnlyThread, Crash, ClientDied
<1>4. ASSUME NEW sid
      PROVE  /\ ReleaseSession(sid) => notMounted' = notMounted
             /\ \A cid : ReleaseConnection(sid, cid) => notMounted' = notMounted
             /\ \A cids, active : SetActive(sid, cids, active) => notMounted' = notMounted
             /\ \A value : SetSessionParameter(sid, value) => notMounted' = notMounted
             /\ \A cid, value : SetConnectionParameter(sid, cid, value) => notMounted' = notMounted
             /\ \A cid : MountFails(sid, cid) => notMounted \subseteq notMounted'
             /\ \A portal : CreateConnection(sid, portal) => notMounted' = notMounted
  BY DEF ReleaseSession, ReleaseConnection, SetActive, SetSessionParameter, SetConnectionParameter,
         MountFails, CreateConnection
<1>5. \A sid, cid : HandleConnectionTimeout(sid, cid) => notMounted' = notMounted
  BY <1>4 DEF HandleConnectionTimeout
<1>6. ASSUME NEW t, ThreadStep(t)
      PROVE  Remembers
  <2>1. CASE LookUpSession(t) \/ LookUpConnection(t) \/ LogoutExchange(t) \/ CopyPortal(t) \/ Return(t)
    BY <1>3, <2>1 DEF LookUpSession, LookUpConnection, LogoutExchange, CopyPortal, Return
  <2>2. CASE Create(t)
    BY <2>2 DEF Create, CreateSession, CreateSessionFails
  <2>3. CASE AddConnection(t)
    BY <1>1, <1>4, <2>3 DEF AddConnection
  <2>4. CASE Exchange(t) \/ Query(t)
    BY <1>2, <1>5, <2>4 DEF Exchange, Query, Lost
  <2>5. CASE SetParameter(t)
    BY <1>4, <2>5 DEF SetParameter
  <2>6. CASE Activate(t)
    BY <1>4, <2>6 DEF Activate, ActivateConnection
  <2>7. CASE Deactivate(t)
    BY <1>4, <2>7 DEF Deactivate, DeactivateAllConnections
  <2>8. CASE Release(t)
    BY <1>4, <2>8 DEF Release
  <2>9. CASE LogoutUnmounts(t) \/ ReadParameter(t) \/ ListSessions(t) \/ NextLogin(t)
    BY <1>2, <2>9 DEF LogoutUnmounts, ReadParameter, ListSessions, NextLogin
  <2>10. CASE LogoutOfPortal(t) \/ ListTarget(t) \/ TimeoutCallback(t)
    BY <1>3, <2>10 DEF LogoutOfPortal, ListTarget, TimeoutCallback
  <2>11. CASE SleepTarget(t) \/ CopyTarget(t)
    BY <1>3, <2>11 DEF SleepTarget, CopyTarget
  <2>12. CASE SleepSession(t)
    BY <1>2, <1>3, <2>12 DEF SleepSession
  <2> QED
    BY <1>6, <2>1, <2>2, <2>3, <2>4, <2>5, <2>6, <2>7, <2>8, <2>9, <2>10, <2>11, <2>12 DEF ThreadStep
<1>7. CASE Begins
  BY <1>3, <1>7 DEF Begins
<1>8. CASE HandleNotification \/ DiskUnmountComplete
  BY <1>2, <1>8 DEF HandleNotification, DiskUnmountComplete
<1>9. CASE Restart
  BY <1>2, <1>9 DEF Restart, OpenInitiator, RegisterNotificationPort
<1>10. CASE ConnectionLost \/ SessionDropped
  BY <1>4, <1>5, <1>10 DEF ConnectionLost, SessionDropped
<1>11. CASE UNCHANGED vars
  BY <1>2, <1>11 DEF vars
<1> QED
  BY <1>6, <1>7, <1>8, <1>9, <1>10, <1>11, NextCases

LEMMA StepHand == Inv /\ Inv' /\ Base /\ Reported /\ Hand /\ [Next]_vars => Hand'
<1> SUFFICES ASSUME Inv, Inv', Base, Reported, Hand, [Next]_vars PROVE Hand'
  OBVIOUS
<1>0. Remembers
  BY StepRemembers
<1>1. CASE \E t \in Threads : ThreadStep(t)
  BY <1>0, <1>1, ThreadStepHand
<1>2. CASE Begins
  BY <1>0, <1>2, BeginsTurns, TurnsHand
<1>3. CASE HandleNotification
  BY <1>0, <1>3, HandleNotificationHand
<1>4. CASE DiskUnmountComplete
  BY <1>0, <1>4, DiskUnmountCompleteTurns, TurnsHand, ThreadNames
<1>5. CASE Restart
  BY <1>0, <1>5, RestartRests, RestsHand
<1>6. CASE (ConnectionLost \/ SessionDropped) /\ UNCHANGED thread /\ UNCHANGED daemonVars
  BY <1>0, <1>6, KernelStepHand
<1>7. CASE UNCHANGED vars
  <2>1. /\ sessionList' = sessionList /\ thread' = [thread EXCEPT ![Main] = thread[Main]]
        /\ messages' = messages /\ atStart' = atStart /\ reused' = reused
        /\ UNCHANGED tableVars /\ Main \in Threads
    BY <1>7, ThreadNames DEF vars, kernelVars, tableVars, daemonVars, Inv, ThreadsInv
  <2>2. Stays(thread[Main], thread[Main]) /\ \A s : Active(s)' = Active(s)
    BY <2>1, SameSlots DEF Stays
  <2> QED
    BY <1>0, <2>1, <2>2, TableFades, SameKeeps, StaysHand
<1> QED
  BY <1>1, <1>2, <1>3, <1>4, <1>5, <1>6, <1>7, NextCases

\* Who is in charge of a session is doing something.
LEMMA HandIs == Inv /\ Base /\ Hand => InactiveIsInHand
<1> SUFFICES ASSUME Inv, Base, Hand, ~reused, NEW sid \in Slots, Gen(sid) > atStart, Active(sid) = {},
                    Gen(sid) \notin notMounted
             PROVE  \/ \E t \in Threads : Busy(t) /\ thread[t].gen = Gen(sid)
                    \/ \E i \in 1 .. Len(messages) : messages[i].gen = Gen(sid)
  BY DEF InactiveIsInHand
<1>1. InHand(Gen(sid))
  BY DEF Hand, HandInv
<1>2. ASSUME NEW t \in Threads, InCharge(thread[t])
      PROVE  Busy(t)
  <2>1. SUFFICES ASSUME thread[t].op = "none" PROVE FALSE
    BY DEF Busy
  <2>2. thread[t] = Blank
    BY <2>1 DEF Base, ShapeInv, Proper
  <2> QED
    BY <1>2, <2>2, QuietOf DEF InCharge, Has
<1> QED
  BY <1>1, <1>2 DEF InHand

\* No session that this daemon created is left behind without an active connection, for
\* any number of sessions, connections and messages: after a refused login, a lost
\* connection or a logout there is a thread that has its number and something still to
\* do, or a message that tells of it (iSCSISessionLogin, iSCSISessionLogout, the
\* notification of a timeout and its handler), as long as no slot is filled whose number
\* is still in use.  A session whose target could not be mounted (ActivateConnection of
\* iSCSIVirtualHBA.cpp) is left behind: nothing is said of it.
THEOREM InactiveInHand == Spec => []InactiveIsInHand
<1>1. Init => Hand
  BY InitHand
<1>2. Inv /\ Inv' /\ Base /\ Reported /\ Hand /\ [Next]_vars => Hand'
  BY StepHand
<1>3. Inv /\ Base /\ Hand => InactiveIsInHand
  BY HandIs
<1>4. Init => Reported
  BY InitReported
<1>5. Inv /\ Inv' /\ Base /\ Reported /\ [Next]_vars => Reported'
  BY StepReported
<1>6. Spec => []Reported
  BY <1>4, <1>5, AlwaysBase, PTL DEF Spec
<1>7. Spec => []Hand
  BY <1>1, <1>2, <1>6, AlwaysBase, PTL DEF Spec
<1> QED
  BY <1>3, <1>7, AlwaysBase, PTL

-----------------------------------------------------------------------------
(* Sleep: of a list of one session, the name that stood for it when the    *)
(* list was read is looked up and its portal is saved.                     *)

Old(iqn, asOf) == targetList[iqn] # None /\ Gen(targetList[iqn]) <= asOf
SleepInv ==
  LET th == thread[Main]
  IN  th.op = "sleep" /\ th.listed <= 1 =>
        /\ Has(th, "GetTargetIQNForSessionId") =>
             /\ Len(th.ids) = 1
             /\ \A iqn \in IQNs : Old(iqn, th.asOf) => targetList[iqn] = th.ids[1]
        /\ Has(th, "GetConnectionIds") =>
             th.ids = <<>> /\ \A iqn \in IQNs : Old(iqn, th.asOf) => iqn = th.iqn
        /\ th.todo = <<>> => \A iqn \in IQNs : Old(iqn, th.asOf) => activeTargets[iqn] # {}

\* What has to be shown of the run loop's thread.
LEMMA SleepIs ==
  ASSUME NEW m, m = thread'[Main],
         m.op = "sleep" /\ m.listed <= 1 =>
           /\ Has(m, "GetTargetIQNForSessionId") =>
                /\ Len(m.ids) = 1
                /\ \A iqn \in IQNs : Old(iqn, m.asOf)' => targetList'[iqn] = m.ids[1]
           /\ Has(m, "GetConnectionIds") =>
                m.ids = <<>> /\ \A iqn \in IQNs : Old(iqn, m.asOf)' => iqn = m.iqn
           /\ m.todo = <<>> => \A iqn \in IQNs : Old(iqn, m.asOf)' => activeTargets'[iqn] # {}
  PROVE  SleepInv'
BY DEF SleepInv, Has, Old

LEMMA OldFades ==
  ASSUME TableInv', Fades, NEW iqn \in IQNs, NEW asOf, Old(iqn, asOf)'
  PROVE  Old(iqn, asOf) /\ targetList'[iqn] = targetList[iqn]
<1>1. PICK s : s = targetList'[iqn]
  OBVIOUS
<1>2. s # None /\ Gen(s)' <= asOf
  BY <1>1 DEF Old, Gen, Exists
<1>3. targetList[iqn] = s /\ Exists(s)'
  BY <1>1, <1>2 DEF Fades, Exists
<1>4. Gen(s)' = Gen(s)
  BY <1>3, ExistsGenAfter DEF Fades
<1> QED
  BY <1>1, <1>2, <1>3, <1>4 DEF Old

LEMMA OldExists ==
  ASSUME Base, NEW iqn \in IQNs, NEW asOf, Old(iqn, asOf)
  PROVE  Exists(targetList[iqn]) /\ targetList[iqn] # None
BY DEF Base, Sorted, Old

LEMMA OldSame ==
  ASSUME Still, NEW iqn \in IQNs, NEW asOf, Old(iqn, asOf)'
  PROVE  Old(iqn, asOf)
BY DEF Still, Old, Gen, Exists

\* The run loop is at something else, or has the list still to read.
LEMMA NoSleep ==
  ASSUME NEW m, m = thread'[Main], m.op = "sleep" => m.todo = <<Call("GetSessionIds")>>
  PROVE  SleepInv'
<1>1. Names(<<Call("GetSessionIds")>>) = {"GetSessionIds"} /\ Names(<<>>) = {}
  BY OneCall, OrderlyNone
<1>2. m.op = "sleep" => Names(m.todo) = {"GetSessionIds"} /\ m.todo # <<>>
  BY <1>1
<1> QED
  BY <1>2, SleepIs DEF Has

\* The run loop's thread is left as it is, and no name gets a session that was there.
LEMMA SleepKept ==
  ASSUME SleepInv, NEW m, m = thread'[Main], m = thread[Main], activeTargets' = activeTargets,
         \A iqn \in IQNs : Old(iqn, m.asOf)' => Old(iqn, m.asOf) /\ targetList'[iqn] = targetList[iqn]
  PROVE  SleepInv'
BY SleepIs DEF SleepInv

LEMMA FadesSleep ==
  ASSUME Inv, Inv', SleepInv, Fades, thread'[Main] = thread[Main], activeTargets' = activeTargets
  PROVE  SleepInv'
<1>1. PICK m : m = thread'[Main]
  OBVIOUS
<1>2. \A iqn \in IQNs : Old(iqn, m.asOf)' => Old(iqn, m.asOf) /\ targetList'[iqn] = targetList[iqn]
  BY OldFades DEF Inv, KernelInv
<1> QED
  BY <1>1, <1>2, SleepKept

\* A step of one thread that reads no list.
LEMMA AwakeSleep ==
  ASSUME Inv, Inv', SleepInv, Fades, NEW t \in Threads, NEW new, thread' = [thread EXCEPT ![t] = new],
         t = Main => (new.op = "sleep" => new.todo = <<Call("GetSessionIds")>>),
         t # Main => activeTargets' = activeTargets
  PROVE  SleepInv'
<1>1. CASE t = Main
  <2>1. PICK m : m = thread'[Main]
    OBVIOUS
  <2> QED
    BY <1>1, <2>1, Moves, NoSleep
<1>2. CASE t # Main
  BY <1>2, Moves, FadesSleep
<1> QED
  BY <1>1, <1>2

LEMMA TurnsSleep ==
  ASSUME Inv, Inv', SleepInv, NEW t \in Threads, Turns(t) \/ TurnsLosing(t)
  PROVE  SleepInv'
<1>1. CASE Turns(t)
  BY <1>1, AwakeSleep DEF Turns, Calm
<1>2. CASE TurnsLosing(t)
  BY <1>2, AwakeSleep DEF TurnsLosing, Calm, Loses, Keeps, Lessens
<1> QED
  BY <1>1, <1>2

LEMMA GoesOnSleep ==
  ASSUME Inv, Inv', SleepInv, Fades, NEW t \in Threads, NEW name, NEW new, GoesOn(t, name, new),
         activeTargets' = activeTargets
  PROVE  SleepInv'
BY AwakeSleep DEF GoesOn, Lists

LEMMA RestsSleep ==
  ASSUME Rests
  PROVE  SleepInv'
<1>1. PICK m : m = thread'[Main]
  OBVIOUS
<1>2. m.op # "sleep"
  BY <1>1, ThreadNames, QuietOf DEF Rests
<1> QED
  BY <1>1, <1>2, NoSleep

\* A list of one identifier has that identifier.
LEMMA FirstRead ==
  ASSUME NEW ids \in PointerArrays(GetSessionIds), Len(ids) <= 1
  PROVE  IF ids = <<>> THEN \A s : ~Exists(s)
         ELSE Len(ids) = 1 /\ \A s : Exists(s) => s = ids[1]
<1>1. PICK set : set = GetSessionIds
  OBVIOUS
<1>2. IsFiniteSet(set) /\ \A s : Exists(s) => s \in set
  <2>1. MaxSessions \in Nat
    BY Ids
  <2>2. IsFiniteSet(0 .. MaxSessions - 1)
    BY <2>1, FS_Interval
  <2>3. set \subseteq 0 .. MaxSessions - 1
    BY <1>1 DEF GetSessionIds, Slots
  <2>4. \A s : Exists(s) => s \in set
    BY <1>1 DEF GetSessionIds, Exists
  <2> QED
    BY <2>2, <2>3, <2>4, FS_Subset
<1>3. PICK n : n = Cardinality(set)
  OBVIOUS
<1>4. n \in Nat
  BY <1>2, <1>3, FS_CardinalityType
<1>5. /\ ids \in [1 .. n -> Slots \cup {None}]
      /\ \A i \in 1 .. n : 4 * i - 3 <= n => ids[i] = Nth(4 * i - 3, set)
  BY <1>1, <1>3 DEF PointerArrays
<1>6. Len(ids) = n
  BY <1>4, <1>5
<1>7. CASE n = 0
  <2>1. ids = <<>>
    BY <1>4, <1>5, <1>6, <1>7
  <2>2. set = {}
    BY <1>2, <1>3, <1>7, FS_EmptySet
  <2> QED
    BY <1>2, <2>1, <2>2
<1>8. CASE n = 1
  <2>1. PICK s : set = {s}
    BY <1>2, <1>3, <1>8, FS_Singleton
  <2>2. s \in Nat
    BY <1>1, <2>1, Ids DEF GetSessionIds
  <2>3. {other \in set : other < s} = {}
    BY <2>1, <2>2
  <2>4. Nth(1, set) = s
    <3>1. Cardinality({other \in set : other < s}) = 1 - 1
      BY <2>3, FS_EmptySet
    <3> QED
      BY <2>1, <3>1 DEF Nth
  <2>5. ids[1] = s
    BY <1>5, <1>8, <2>4
  <2> QED
    BY <1>2, <1>6, <1>8, <2>1, <2>5
<1> QED
  BY <1>4, <1>6, <1>7, <1>8

\* The list is read: without a session nothing has to be saved.
LEMMA ListSessionsSleep ==
  ASSUME Inv, Base, NEW t \in Threads, ListSessions(t)
  PROVE  SleepInv'
<1>1. Still /\ t = Main
  BY ListSessionsIs
<1>2. PICK new, ids :
        /\ thread' = [thread EXCEPT ![t] = new]
        /\ ids \in PointerArrays(GetSessionIds) /\ new.ids = ids /\ new.listed = Len(ids)
        /\ new.todo = IF ids = <<>> THEN <<>> ELSE ForEachSession
  BY ListSessionsIs
<1>3. PICK m : m = thread'[Main]
  OBVIOUS
<1>4. m = new
  BY <1>1, <1>2, <1>3, Moves
<1>5. ASSUME Len(ids) <= 1, NEW iqn \in IQNs, NEW asOf, Old(iqn, asOf)'
      PROVE  ids # <<>> /\ Len(ids) = 1 /\ targetList'[iqn] = ids[1]
  <2>1. targetList'[iqn] = targetList[iqn] /\ Exists(targetList[iqn])
    BY <1>1, <1>5, OldSame, OldExists DEF Still
  <2> QED
    BY <1>2, <1>5, <2>1, FirstRead
<1>6. CASE ids = <<>>
  <2>1. new.todo = <<>> /\ Names(new.todo) = {}
    BY <1>2, <1>6, OrderlyNone
  <2> QED
    BY <1>2, <1>3, <1>4, <1>5, <1>6, <2>1, SleepIs DEF Has
<1>7. CASE ids # <<>>
  <2>1. new.todo # <<>> /\ Names(new.todo) = {"GetTargetIQNForSessionId"}
    BY <1>2, <1>7, OneCall DEF ForEachSession
  <2>2. Len(ids) <= 1 => Len(ids) = 1
    BY <1>2, <1>7, FirstRead
  <2> QED
    BY <1>2, <1>3, <1>4, <1>5, <2>1, <2>2, SleepIs DEF Has
<1> QED
  BY <1>6, <1>7

LEMMA OnlyOne ==
  ASSUME NEW S, NEW ids \in Seq(S), Len(ids) = 1
  PROVE  Tail(ids) = <<>> /\ Head(ids) = ids[1]
<1>1. ids # <<>>
  OBVIOUS
<1>2. PICK rest : rest = Tail(ids)
  OBVIOUS
<1>3. rest \in Seq(S) /\ Len(rest) = 0
  BY <1>1, <1>2, HeadTailProperties
<1>4. rest = <<>>
  BY <1>3, EmptySeq
<1>5. Head(ids) = ids[1]
  BY <1>1
<1> QED
  BY <1>2, <1>4, <1>5

\* The name is looked up: without one nothing has to be saved.
LEMMA SleepTargetSleep ==
  ASSUME Inv, Base, SleepInv, NEW t \in Threads, SleepTarget(t)
  PROVE  SleepInv'
<1>1. PICK th : th = thread[t]
  OBVIOUS
<1>2. Still /\ t = Main /\ th.op = "sleep" /\ At(t, "GetTargetIQNForSessionId")
  BY <1>1, SleepTargetIs
<1>3. PICK new, iqn :
        /\ thread' = [thread EXCEPT ![t] = new]
        /\ new.listed = th.listed /\ new.asOf = th.asOf /\ new.ids = Tail(th.ids)
        /\ iqn \in GetTargetIQNForSessionId(Head(th.ids))
        /\ iqn = None => new.todo = IF new.ids = <<>> THEN <<>> ELSE ForEachSession
        /\ iqn # None => new.todo = <<Call("GetConnectionIds")>> /\ new.iqn = iqn
  <2>1. PICK new, iqn :
          /\ thread' = [thread EXCEPT ![t] = new] /\ Quiet(thread[t], new)
          /\ new.op = "sleep" /\ new.listed = thread[t].listed /\ new.asOf = thread[t].asOf
          /\ new.ids = Tail(thread[t].ids)
          /\ iqn \in GetTargetIQNForSessionId(Head(thread[t].ids))
          /\ iqn = None => new.todo = IF new.ids = <<>> THEN <<>> ELSE ForEachSession
          /\ iqn # None => new.todo = <<Call("GetConnectionIds")>> /\ new.iqn = iqn
    BY SleepTargetIs
  <2> QED
    BY <1>1, <2>1
<1>4. PICK m : m = thread'[Main]
  OBVIOUS
<1>5. m = new
  BY <1>2, <1>3, <1>4, Moves
<1>6. CASE ~(new.listed <= 1)
  BY <1>4, <1>5, <1>6, SleepIs
<1>7. CASE new.listed <= 1
  <2>1. Has(th, "GetTargetIQNForSessionId") /\ th.ids \in Seq(Slots \cup {None})
    BY <1>1, <1>2, AtKnows DEF Has, Thread
  <2>2. Len(th.ids) = 1 /\ \A n \in IQNs : Old(n, th.asOf) => targetList[n] = th.ids[1]
    BY <1>1, <1>2, <1>3, <1>7, <2>1 DEF SleepInv
  <2>3. new.ids = <<>> /\ Head(th.ids) = th.ids[1]
    <3>1. Tail(th.ids) = <<>> /\ Head(th.ids) = th.ids[1]
      BY <2>1, <2>2, OnlyOne
    <3> QED
      BY <1>3, <3>1
  <2>4. \A n \in IQNs : Old(n, new.asOf)' =>
           targetList[n] = Head(th.ids) /\ targetList[n] # None /\ Exists(Head(th.ids))
    BY <1>2, <1>3, <2>2, <2>3, OldSame, OldExists
  <2>5. CASE iqn = None
    <3>1. \A n \in IQNs : ~Old(n, new.asOf)'
      <4>1. SUFFICES ASSUME NEW n \in IQNs, targetList[n] = Head(th.ids), Exists(Head(th.ids))
                     PROVE  FALSE
        BY <2>4
      <4>2. iqn \in IQNs
        BY <1>3, <4>1 DEF GetTargetIQNForSessionId
      <4> QED
        BY <2>5, <4>2, NoneIsNothing
    <3>2. new.todo = <<>> /\ Names(new.todo) = {}
      BY <1>3, <2>3, <2>5, OrderlyNone
    <3> QED
      BY <1>4, <1>5, <3>1, <3>2, SleepIs DEF Has
  <2>6. CASE iqn # None
    <3>1. \A n \in IQNs : Old(n, new.asOf)' => n = iqn
      <4>1. SUFFICES ASSUME NEW n \in IQNs, targetList[n] = Head(th.ids), targetList[n] # None,
                            Exists(Head(th.ids))
                     PROVE  n = iqn
        BY <2>4
      <4>2. iqn \in IQNs /\ targetList[iqn] = Head(th.ids)
        BY <1>3, <4>1 DEF GetTargetIQNForSessionId
      <4> QED
        BY <4>1, <4>2 DEF Base, Sorted
    <3>2. new.todo = <<Call("GetConnectionIds")>> /\ new.iqn = iqn
      BY <1>3, <2>6
    <3>3. new.todo # <<>> /\ Names(new.todo) = {"GetConnectionIds"}
      BY <3>2, OneCall
    <3> QED
      BY <1>4, <1>5, <2>3, <3>1, <3>2, <3>3, SleepIs DEF Has
  <2> QED
    BY <2>5, <2>6
<1> QED
  BY <1>6, <1>7

\* The portal is saved for the name that was looked up.
LEMMA SleepSessionSleep ==
  ASSUME Inv, Base, SleepInv, NEW t \in Threads, SleepSession(t)
  PROVE  SleepInv'
<1>1. CASE Crash
  BY <1>1, CrashRests, RestsSleep
<1>2. CASE ~Crash
  <2>1. PICK th : th = thread[t]
    OBVIOUS
  <2>2. /\ Still /\ t = Main /\ At(t, "GetConnectionIds") /\ th.op = "sleep"
        /\ th.iqn \in IQNs /\ activeTargets \in [IQNs -> SUBSET Portals]
    BY <1>2, <2>1, SleepSessionIs
  <2>3. PICK x : activeTargets' = [activeTargets EXCEPT ![th.iqn] = {x}]
    BY <1>2, <2>1, SleepSessionIs
  <2>4. PICK new :
          /\ thread' = [thread EXCEPT ![t] = new]
          /\ new.listed = th.listed /\ new.asOf = th.asOf /\ new.ids = th.ids
          /\ new.todo = IF new.ids = <<>> THEN <<>> ELSE ForEachSession
    BY <1>2, <2>1, SleepSessionIs
  <2>5. PICK m : m = thread'[Main]
    OBVIOUS
  <2>6. m = new
    BY <2>2, <2>4, <2>5, Moves
  <2>7. Has(th, "GetConnectionIds")
    BY <2>1, <2>2, AtKnows DEF Has
  <2>8. new.listed <= 1 =>
          new.ids = <<>> /\ \A iqn \in IQNs : Old(iqn, new.asOf)' => iqn = th.iqn
    BY <2>1, <2>2, <2>4, <2>7, OldSame DEF SleepInv
  <2>9. activeTargets'[th.iqn] # {}
    BY <2>2, <2>3
  <2>10. new.ids = <<>> => new.todo = <<>> /\ Names(new.todo) = {}
    BY <2>4, OrderlyNone
  <2> QED
    BY <2>5, <2>6, <2>8, <2>9, <2>10, SleepIs DEF Has
<1> QED
  BY <1>1, <1>2

\* A new session is younger than the list, and takes the name of its own discovery.
LEMMA CreateSleep ==
  ASSUME Inv, Inv', Base, SleepInv, NEW t \in Threads, Create(t)
  PROVE  SleepInv'
<1>1. ASSUME NEW sid, NEW new, Creates(t, sid, new)
      PROVE  SleepInv'
  <2>1. /\ sid = NewSid /\ CreateSession(thread[t].iqn, thread[t].portal)
        /\ thread[t].portal \in Portals /\ thread' = [thread EXCEPT ![t] = new]
        /\ new.op \notin Lists /\ activeTargets' = activeTargets
    BY <1>1 DEF Creates
  <2>2. PICK m : m = thread'[Main]
    OBVIOUS
  <2>3. CASE t = Main
    <3>1. m.op # "sleep"
      BY <2>1, <2>2, <2>3, Moves DEF Lists
    <3> QED
      BY <2>2, <3>1, NoSleep
  <2>4. CASE t # Main
    <3>1. m = thread[Main]
      BY <2>1, <2>2, <2>4, Moves
    <3>2. /\ ~Exists(sid) /\ \A s \in Slots \ {sid} : sessionList'[s] = sessionList[s]
          /\ Gen(sid)' = created + 1 /\ sid \in Slots
          /\ targetList' = [targetList EXCEPT ![thread[t].iqn] = sid]
      BY <2>1, CreateSessionEffect DEF Inv, KernelInv
    <3>3. \A s \in Slots \ {sid} : Gen(s)' = Gen(s)
      BY <3>2, SameSlot
    <3>4. m.asOf <= created /\ m.asOf \in Nat /\ created \in Nat
      <4>1. Main \in Threads /\ thread[Main] \in Thread /\ MaxCreated \in Nat
        BY ThreadNames, Ids DEF Inv, ThreadsInv
      <4>2. m.asOf <= created
        BY <3>1, <4>1 DEF Base, ShapeInv, Proper, Suits
      <4> QED
        BY <3>1, <4>1, <4>2 DEF Thread, Inv, KernelInv, TableInv
    <3>5. ASSUME NEW iqn \in IQNs, Old(iqn, m.asOf)'
          PROVE  Old(iqn, m.asOf) /\ targetList'[iqn] = targetList[iqn]
      <4>1. PICK s : s = targetList'[iqn]
        OBVIOUS
      <4>2. s # None /\ Gen(s)' <= m.asOf
        BY <3>5, <4>1 DEF Old, Gen, Exists
      <4>3. s # sid
        BY <3>2, <3>4, <4>2
      <4>4. targetList[iqn] = s
        BY <3>2, <4>1, <4>3 DEF Inv, KernelInv, TableInv
      <4>5. s \in Slots
        BY <4>2, <4>4 DEF Base, Sorted, Exists
      <4> QED
        BY <3>3, <4>1, <4>2, <4>3, <4>4, <4>5 DEF Old
    <3> QED
      BY <2>1, <2>2, <3>1, <3>5, SleepKept
  <2> QED
    BY <2>3, <2>4
<1> QED
  BY <1>1, CreateKinds, TurnsSleep

LEMMA AddConnectionSleep ==
  ASSUME Inv, Inv', Base, SleepInv, NEW t \in Threads, AddConnection(t)
  PROVE  SleepInv'
<1>1. ASSUME NEW sid, NEW cid, NEW new, AddsConnection(t, sid, cid, new)
      PROVE  SleepInv'
  <2>1. t = Main /\ thread' = [thread EXCEPT ![t] = new] /\ LogsIn(new.op)
    BY <1>1 DEF AddsConnection
  <2>2. PICK m : m = thread'[Main]
    OBVIOUS
  <2>3. m.op # "sleep"
    BY <2>1, <2>2, Moves DEF LogsIn
  <2> QED
    BY <2>2, <2>3, NoSleep
<1> QED
  BY <1>1, AddConnectionKinds, TurnsSleep

\* The run loop is at no list, or another thread looks something up.
LEMMA LookUpSleep ==
  ASSUME Inv, Inv', Base, SleepInv, NEW t \in Threads, LookUpSession(t) \/ LookUpConnection(t)
  PROVE  SleepInv'
<1>1. Still /\ activeTargets' = activeTargets
  BY OnlyThreadStill DEF LookUpSession, LookUpConnection
<1>2. \E new : thread' = [thread EXCEPT ![t] = new] /\ new.op \notin Lists
  <2>1. CASE LookUpSession(t)
    BY <2>1, LookUpSessionIs
  <2>2. CASE LookUpConnection(t)
    BY <2>2, LookUpConnectionIs
  <2> QED
    BY <2>1, <2>2
<1> QED
  BY <1>1, <1>2, AwakeSleep DEF Still, Lists

LEMMA ReadParameterSleep ==
  ASSUME Inv, Inv', Base, SleepInv, NEW t \in Threads, ReadParameter(t)
  PROVE  SleepInv'
<1>1. Still /\ activeTargets' = activeTargets
  BY ReadParameterIs
<1>2. PICK new : thread' = [thread EXCEPT ![t] = new] /\ new.op \in Reports
  BY ReadParameterIs
<1> QED
  BY <1>1, <1>2, AwakeSleep DEF Still, Reports

LEMMA ExchangeSleep ==
  ASSUME Inv, Inv', Base, SleepInv, NEW t \in Threads, Exchange(t)
  PROVE  SleepInv'
BY ExchangeKinds, TurnsSleep, GoesOnSleep

LEMMA SetParameterSleep ==
  ASSUME Inv, Inv', Base, SleepInv, NEW t \in Threads, SetParameter(t)
  PROVE  SleepInv'
<1>0. PICK key \in Keys : \E new : SetsParameter(t, key, new)
  BY SetParameterIs
<1>1. PICK new : SetsParameter(t, key, new)
  BY <1>0
<1>2. PICK name \in Sets : GoesOn(t, name, new)
  BY <1>1 DEF SetsParameter
<1>3. Fades
  BY <1>1, SameFades DEF SetsParameter, Base, Inv, KernelInv
<1> QED
  BY <1>1, <1>2, <1>3, GoesOnSleep DEF SetsParameter

LEMMA ActivateSleep ==
  ASSUME Inv, Inv', Base, SleepInv, NEW t \in Threads, Activate(t)
  PROVE  SleepInv'
<1>1. PICK new : Activates(t, new)
  BY ActivateIs
<1> QED
  BY <1>1, GoesOnSleep DEF Activates

LEMMA DeactivateSleep ==
  ASSUME Inv, Inv', Base, SleepInv, NEW t \in Threads, Deactivate(t)
  PROVE  SleepInv'
<1>1. /\ At(t, "DeactivateAllConnections") /\ SetActive(thread[t].sid, Cids, FALSE)
      /\ Continue(t, Rest(t)) /\ activeTargets' = activeTargets
  BY OnlyTableKeeps DEF Deactivate, DeactivateAllConnections
<1>2. \E new : GoesOn(t, "DeactivateAllConnections", new)
  BY <1>1, RestGoesOn DEF ReportCalls, ListCalls
<1>3. Fades
  BY <1>1, DeactivatedKeeps DEF Keeps, Lessens
<1> QED
  BY <1>1, <1>2, <1>3, GoesOnSleep

LEMMA ReleaseSleep ==
  ASSUME Inv, Inv', Base, SleepInv, NEW t \in Threads, Release(t)
  PROVE  SleepInv'
<1>1. Continue(t, Rest(t)) /\ activeTargets' = activeTargets
  BY OnlyTableKeeps DEF Release
<1>2. CASE At(t, "ReleaseSession") /\ ReleaseSession(thread[t].sid)
  <2>1. \E new : GoesOn(t, "ReleaseSession", new)
    BY <1>1, <1>2, RestGoesOn DEF ReportCalls, ListCalls
  <2>2. Fades
    BY <1>2, ReleasedKeeps DEF Keeps, Lessens
  <2> QED
    BY <1>1, <2>1, <2>2, GoesOnSleep
<1>3. CASE At(t, "ReleaseConnection") /\ ReleaseConnection(thread[t].sid, thread[t].cid)
  <2>1. \E new : GoesOn(t, "ReleaseConnection", new)
    BY <1>1, <1>3, RestGoesOn DEF ReportCalls, ListCalls
  <2>2. Fades
    BY <1>3, ConnectionReleasedLessens DEF Lessens
  <2> QED
    BY <1>1, <2>1, <2>2, GoesOnSleep
<1> QED
  BY <1>2, <1>3 DEF Release

LEMMA HandleNotificationSleep ==
  ASSUME Inv, Inv', Base, SleepInv, HandleNotification
  PROVE  SleepInv'
<1>1. Fades /\ activeTargets' = activeTargets
  BY HandleNotificationIs
<1>2. PICK new : thread' = [thread EXCEPT ![Main] = new] /\ Calm(thread[Main], new)
  BY HandleNotificationIs
<1> QED
  BY <1>1, <1>2, ThreadNames, AwakeSleep DEF Calm

LEMMA KernelStepSleep ==
  ASSUME Inv, Inv', Base, SleepInv, ConnectionLost \/ SessionDropped, UNCHANGED thread,
         UNCHANGED daemonVars
  PROVE  SleepInv'
<1>1. activeTargets' = activeTargets /\ thread'[Main] = thread[Main]
  BY KernelStepKinds
<1>2. CASE Rests
  BY <1>2, RestsSleep
<1>3. CASE daemon = "up" /\ \E s : Loses(s)
  BY <1>1, <1>3, FadesSleep DEF Loses, Keeps, Lessens
<1>4. CASE daemon = "up" /\ \E s : ReleaseSession(s)
  BY <1>1, <1>4, ReleasedKeeps, FadesSleep DEF Keeps, Lessens
<1> QED
  BY <1>2, <1>3, <1>4, KernelStepKinds

LEMMA ThreadStepSleep ==
  ASSUME Inv, Inv', Base, SleepInv, NEW t \in Threads, ThreadStep(t)
  PROVE  SleepInv'
<1>1. CASE LookUpSession(t) \/ LookUpConnection(t)
  BY <1>1, LookUpSleep
<1>2. CASE Create(t)
  BY <1>2, CreateSleep
<1>3. CASE AddConnection(t)
  BY <1>3, AddConnectionSleep
<1>4. CASE Exchange(t)
  BY <1>4, ExchangeSleep
<1>5. CASE Query(t)
  BY <1>5, QueryKinds, TurnsSleep
<1>6. CASE SetParameter(t)
  BY <1>6, SetParameterSleep
<1>7. CASE Activate(t)
  BY <1>7, ActivateSleep
<1>8. CASE Deactivate(t)
  BY <1>8, DeactivateSleep
<1>9. CASE LogoutExchange(t)
  BY <1>9, LogoutExchangeTurns, TurnsSleep
<1>10. CASE Release(t)
  BY <1>10, ReleaseSleep
<1>11. CASE LogoutUnmounts(t)
  BY <1>11, LogoutUnmountsTurns, TurnsSleep
<1>12. CASE LogoutOfPortal(t)
  BY <1>12, LogoutOfPortalTurns, TurnsSleep, CrashRests, RestsSleep
<1>13. CASE ReadParameter(t)
  BY <1>13, ReadParameterSleep
<1>14. CASE ListSessions(t)
  BY <1>14, ListSessionsSleep
<1>15. CASE ListTarget(t)
  BY <1>15, ListTargetTurns, TurnsSleep, CrashRests, RestsSleep
<1>16. CASE SleepTarget(t)
  BY <1>16, SleepTargetSleep
<1>17. CASE SleepSession(t)
  BY <1>17, SleepSessionSleep
<1>18. CASE CopyTarget(t)
  BY <1>18, CopyTargetTurns, TurnsSleep, CrashRests, RestsSleep
<1>19. CASE CopyPortal(t)
  BY <1>19, CopyPortalTurns, TurnsSleep
<1>20. CASE TimeoutCallback(t)
  BY <1>20, TimeoutCallbackTurns, TurnsSleep, CrashRests, RestsSleep
<1>21. CASE NextLogin(t)
  BY <1>21, NextLoginTurns, TurnsSleep
<1>22. CASE Return(t)
  BY <1>22, ReturnTurns, TurnsSleep
<1> QED
  BY <1>1, <1>2, <1>3, <1>4, <1>5, <1>6, <1>7, <1>8, <1>9, <1>10, <1>11, <1>12, <1>13, <1>14,
     <1>15, <1>16, <1>17, <1>18, <1>19, <1>20, <1>21, <1>22 DEF ThreadStep

LEMMA InitSleep == Init => SleepInv
<1> SUFFICES ASSUME Init PROVE SleepInv
  OBVIOUS
<1>1. thread[Main].op # "sleep"
  BY ThreadNames, QuietOf DEF Init
<1> QED
  BY <1>1 DEF SleepInv

LEMMA StepSleep == Inv /\ Inv' /\ Base /\ SleepInv /\ [Next]_vars => SleepInv'
<1> SUFFICES ASSUME Inv, Inv', Base, SleepInv, [Next]_vars PROVE SleepInv'
  OBVIOUS
<1>1. CASE \E t \in Threads : ThreadStep(t)
  BY <1>1, ThreadStepSleep
<1>2. CASE Begins
  BY <1>2, BeginsTurns, TurnsSleep
<1>3. CASE HandleNotification
  BY <1>3, HandleNotificationSleep
<1>4. CASE DiskUnmountComplete
  BY <1>4, DiskUnmountCompleteTurns, TurnsSleep, ThreadNames
<1>5. CASE Restart
  BY <1>5, RestartRests, RestsSleep
<1>6. CASE (ConnectionLost \/ SessionDropped) /\ UNCHANGED thread /\ UNCHANGED daemonVars
  BY <1>6, KernelStepSleep
<1>7. CASE UNCHANGED vars
  <2>1. UNCHANGED tableVars /\ thread'[Main] = thread[Main] /\ activeTargets' = activeTargets
    BY <1>7 DEF vars, kernelVars, tableVars, daemonVars
  <2> QED
    BY <2>1, TableFades, FadesSleep
<1> QED
  BY <1>1, <1>2, <1>3, <1>4, <1>5, <1>6, <1>7, NextCases

\* What the invariant says when the list has been gone through.
LEMMA SleepInvIs == SleepInv => SleepSavesTarget
<1> SUFFICES ASSUME SleepInv, thread[Main].op = "sleep", thread[Main].todo = <<>>,
                    thread[Main].listed <= 1, NEW sid \in Slots, NEW iqn \in IQNs,
                    Gen(sid) <= thread[Main].asOf, targetList[iqn] = sid
             PROVE  activeTargets[iqn] # {}
  BY DEF SleepSavesTarget
<1>1. sid # None
  BY NoneIsNothing DEF Slots
<1>2. Old(iqn, thread[Main].asOf)
  BY <1>1 DEF Old
<1> QED
  BY <1>2 DEF SleepInv

\* When the only session that was listed before sleep has been looked at, and is still
\* there, its target is among those that wake logs in to again
\* (iSCSIDPrepareForSystemSleep), whatever the discovery thread and the kernel do between
\* the list, the name and the portal: what takes the session's slot is younger than the
\* list.
THEOREM SleepSaves == Spec => []SleepSavesTarget
<1>1. Init => SleepInv
  BY InitSleep
<1>2. Inv /\ Inv' /\ Base /\ SleepInv /\ [Next]_vars => SleepInv'
  BY StepSleep
<1>3. Spec => []SleepInv
  BY <1>1, <1>2, AlwaysBase, PTL DEF Spec
<1> QED
  BY <1>3, SleepInvIs, PTL

=============================================================================
