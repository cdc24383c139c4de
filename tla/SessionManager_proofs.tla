------------------------- MODULE SessionManager_proofs -------------------------
(***************************************************************************)
(* Machine-checked facts about HBA and SessionManager, for any number of   *)
(* slots, connections, names and sessions: the types of their variables,   *)
(* that accessLock lets one thread of the daemon in at a time, that the    *)
(* names agree with the sessions when no target drops a session by an      *)
(* asynchronous message, and, when none drops a connection either, that no *)
(* thread is left with a pointer to a session that has been freed and that *)
(* a session left alone with an enabled connection has its target mounted  *)
(* and counts it right.                                                    *)
(***************************************************************************)
EXTENDS SessionManager, Identifiers, FiniteSetTheorems, SequenceTheorems, TLAPS

-----------------------------------------------------------------------------
(* Identifiers.                                                            *)

\* An identifier is a number, and not one of the model values.
LEMMA Ids ==
  /\ SessionIds \subseteq Nat /\ ConnectionIds \subseteq Nat
  /\ 0 \in ConnectionIds
BY HBAConstants DEF SessionIds, ConnectionIds

LEMMA FreeSlotIsId ==
  ASSUME FreeSlots # {}
  PROVE  Min(FreeSlots) \in SessionIds
<1>1. FreeSlots \subseteq SessionIds
  BY DEF FreeSlots
<1> QED
  BY <1>1, MinOfIds, Ids

LEMMA FreeConnectionIsId ==
  ASSUME NEW sid, FreeConnections(sid) # {}
  PROVE  Min(FreeConnections(sid)) \in ConnectionIds
<1>1. FreeConnections(sid) \subseteq ConnectionIds
  BY DEF FreeConnections
<1> QED
  BY <1>1, MinOfIds, Ids

-----------------------------------------------------------------------------
(* Stacks.                                                                 *)

\* The stacks of the daemon's threads can be cut anywhere outside the user client.
Outside(stack) ==
    /\ Nested(stack)
    /\ stack # <<>> => stack[1].op \notin Within

LEMMA OutsideConcat ==
  ASSUME NEW a \in Seq(AnyCall), NEW b \in Seq(AnyCall), Outside(a), Outside(b)
  PROVE  a \o b \in Seq(AnyCall) /\ Outside(a \o b)
<1> DEFINE c == a \o b
<1>1. /\ c \in Seq(AnyCall)
      /\ Len(c) = Len(a) + Len(b)
      /\ \A i \in 1 .. Len(a) : c[i] = a[i]
      /\ \A i \in 1 .. Len(b) : c[Len(a) + i] = b[i]
  BY ConcatProperties
<1>2. ASSUME NEW i \in 1 .. Len(c)
      PROVE  c[i].op \in Entering <=> i < Len(c) /\ c[i + 1].op \in Within
  <2>1. CASE i < Len(a)
    BY <1>1, <2>1 DEF Outside, Nested
  <2>2. CASE i = Len(a)
    <3>1. a[i].op \notin Entering /\ c[i] = a[i]
      BY <1>1, <2>2 DEF Outside, Nested
    <3>2. CASE Len(b) = 0
      BY <1>1, <2>2, <3>1, <3>2
    <3>3. CASE Len(b) # 0
      <4>1. c[i + 1] = b[1] /\ b # <<>>
        BY <1>1, <2>2, <3>3
      <4> QED
        BY <3>1, <4>1 DEF Outside
    <3> QED
      BY <3>2, <3>3
  <2>3. CASE i > Len(a)
    <3>1. PICK j \in 1 .. Len(b) : i = Len(a) + j
      <4>1. Len(a) \in Nat /\ Len(b) \in Nat
        BY LenProperties
      <4>2. i \in Int /\ i =< Len(a) + Len(b)
        BY <1>1
      <4>3. i - Len(a) \in 1 .. Len(b) /\ i = Len(a) + (i - Len(a))
        BY <2>3, <4>1, <4>2
      <4> QED
        BY <4>3
    <3>2. c[i] = b[j] /\ (j < Len(b) => c[i + 1] = b[j + 1]) /\ (i < Len(c) <=> j < Len(b))
      BY <1>1, <3>1
    <3> QED
      BY <3>2 DEF Outside, Nested
  <2> QED
    BY <1>1, <2>1, <2>2, <2>3
<1>3. c # <<>> => c[1].op \notin Within
  BY <1>1 DEF Outside
<1> QED
  BY <1>1, <1>2, <1>3 DEF Outside, Nested

\* A thread that is inside goes on with calls that stay inside.
LEMMA NestedInside ==
  ASSUME NEW s \in Seq(AnyCall), s # <<>>, Nested(s), s[1].op \in KernelCalls,
         NEW next \in Seq(AnyCall),
         \A i \in 1 .. Len(next) : next[i].op \in KernelCalls
  PROVE  /\ Nested(next \o Tail(s))
         /\ next \o Tail(s) # <<>>
         /\ (next \o Tail(s))[1].op \in Within
<1> DEFINE c == next \o Tail(s)
<1>1. /\ Tail(s) \in Seq(AnyCall)
      /\ Len(Tail(s)) = Len(s) - 1
      /\ \A i \in 1 .. Len(s) - 1 : Tail(s)[i] = s[i + 1]
  BY HeadTailProperties
<1>2. /\ c \in Seq(AnyCall)
      /\ Len(c) = Len(next) + Len(s) - 1
      /\ \A i \in 1 .. Len(next) : c[i] = next[i]
      /\ \A i \in 1 .. Len(s) - 1 : c[Len(next) + i] = s[i + 1]
  BY <1>1, ConcatProperties
<1>3. Len(s) > 1 /\ s[2].op \in Within
  BY DEF Nested, Entering
<1>4. \A i \in 1 .. Len(next) : i + 1 \in 1 .. Len(c) /\ c[i + 1].op \in Within
  BY <1>2, <1>3 DEF Within
<1>5. ASSUME NEW i \in 1 .. Len(c)
      PROVE  c[i].op \in Entering <=> i < Len(c) /\ c[i + 1].op \in Within
  <2>1. CASE i =< Len(next)
    BY <1>2, <1>4, <2>1 DEF Entering
  <2>2. CASE i > Len(next)
    <3> DEFINE j == i - Len(next)
    <3>1. j \in 1 .. Len(s) - 1 /\ i = Len(next) + j
      BY <1>2, <1>3, <2>2
    <3>2. /\ c[i] = s[j + 1]
          /\ j + 1 < Len(s) => c[i + 1] = s[j + 2]
          /\ i < Len(c) <=> j + 1 < Len(s)
      BY <1>2, <3>1
    <3>3. j + 1 \in 1 .. Len(s)
      BY <3>1
    <3>4. s[j + 1].op \in Entering <=> j + 1 < Len(s) /\ s[j + 2].op \in Within
      BY <3>3 DEF Nested
    <3> HIDE DEF c, j
    <3> QED
      BY <3>2, <3>4
  <2> QED
    BY <2>1, <2>2
<1>6. Len(c) >= 1 /\ c[1].op \in Within
  <2>1. CASE Len(next) = 0
    BY <1>2, <1>3, <2>1
  <2>2. CASE Len(next) # 0
    BY <1>2, <1>3, <2>2 DEF Within
  <2> QED
    BY <2>1, <2>2
<1>7. Nested(c)
  BY <1>5 DEF Nested
<1>8. c # <<>>
  <2>1. Len(<<>>) = 0
    BY EmptySeq
  <2>2. Len(c) # 0
    BY <1>2, <1>6
  <2> QED
    BY <2>1, <2>2, Zenon
<1> QED
  BY <1>6, <1>7, <1>8

\* What a thread has still to do when it has left the user client, or was never in.
LEMMA TailOutside ==
  ASSUME NEW s \in Seq(AnyCall), s # <<>>, Nested(s), s[1].op \notin Entering
  PROVE  Tail(s) \in Seq(AnyCall) /\ Outside(Tail(s))
<1>1. /\ Tail(s) \in Seq(AnyCall)
      /\ Len(Tail(s)) = Len(s) - 1
      /\ \A i \in 1 .. Len(s) - 1 : Tail(s)[i] = s[i + 1]
  BY HeadTailProperties
<1>2. Nested(Tail(s))
  BY <1>1 DEF Nested
<1>3. Tail(s) # <<>> => Tail(s)[1].op \notin Within
  BY <1>1 DEF Nested
<1> QED
  BY <1>1, <1>2, <1>3 DEF Outside

\* A call of the user client enters and leaves.
LEMMA MethodOutside ==
  ASSUME NEW c \in SessionCall, c.op \in KernelCalls
  PROVE  Method(c) \in Seq(AnyCall) /\ Outside(Method(c))
<1>1. LockAccess \in AnyCall /\ UnlockAccess \in AnyCall /\ c \in AnyCall
  BY DEF LockAccess, UnlockAccess, AnyCall, OtherCall
<1>2. /\ LockAccess.op \in Entering /\ LockAccess.op \notin Within
      /\ c.op \in Entering /\ c.op \in Within
      /\ UnlockAccess.op \notin Entering /\ UnlockAccess.op \in Within
  BY DEF LockAccess, UnlockAccess, Entering, Within, KernelCalls, PointerCalls,
         HoldsSession, LookUpCalls
<1>3. Method(c) \in Seq(AnyCall) /\ Len(Method(c)) = 3
  BY <1>1 DEF Method
<1>4. /\ Method(c)[1] = LockAccess
      /\ Method(c)[2] = c
      /\ Method(c)[3] = UnlockAccess
  BY DEF Method
<1>5. Nested(Method(c))
  BY <1>2, <1>3, <1>4 DEF Nested
<1> QED
  BY <1>2, <1>3, <1>4, <1>5 DEF Outside

DaemonCalls == Exchanges \cup {"login", "copyPortal", "crash"}

LEMMA DaemonCallOutside ==
  ASSUME NEW c \in AnyCall, c.op \in DaemonCalls
  PROVE  <<c>> \in Seq(AnyCall) /\ Outside(<<c>>)
<1>1. c.op \notin Entering /\ c.op \notin Within
  BY DEF DaemonCalls, Exchanges, Entering, Within, KernelCalls, PointerCalls,
         HoldsSession, LookUpCalls
<1>2. <<c>> \in Seq(AnyCall) /\ Len(<<c>>) = 1 /\ <<c>>[1] = c
  OBVIOUS
<1> QED
  BY <1>1, <1>2 DEF Outside, Nested

LEMMA NothingOutside == <<>> \in Seq(AnyCall) /\ Outside(<<>>)
BY DEF Outside, Nested

\* Calls by identifier, and what remains of a call.
LEMMA CallType ==
  ASSUME NEW op \in LookUpCalls \cup Exchanges, NEW sid \in SessionIds,
         NEW cid \in ConnectionIds
  PROVE  Call(op, sid, cid) \in SessionCall /\ Call(op, sid, cid).op = op
BY DEF Call, SessionCall

LEMMA RestType ==
  ASSUME TypeOK, NEW op \in PointerCalls, NEW c \in SessionCall,
         c.gen = 0 => Exists(c.sid)
  PROVE  Rest(op, c) \in SessionCall /\ Rest(op, c).op = op
<1>1. c.sid \in SessionIds /\ c.cid \in ConnectionIds /\ c.gen \in 0 .. MaxCreated
  BY HBAConstants DEF SessionCall
<1>2. ASSUME c.gen = 0
      PROVE  sessionList[c.sid].gen \in 1 .. MaxCreated
  <2>1. sessionList[c.sid] \in Session
    BY <1>1, <1>2 DEF TypeOK, Exists
  <2> QED
    BY <2>1 DEF Session
<1>3. (IF c.gen = 0 THEN sessionList[c.sid].gen ELSE c.gen) \in 1 .. MaxCreated
  BY <1>1, <1>2, HBAConstants
<1> QED
  BY <1>1, <1>3 DEF Rest, SessionCall

\* The call at the head of a stack.
LEMMA HeadType ==
  ASSUME TypeOK, NEW t \in Threads, calls[t] # <<>>
  PROVE  /\ Head(calls[t]) \in AnyCall
         /\ Head(calls[t]) = calls[t][1]
         /\ Head(calls[t]).op \in KernelCalls \cup Exchanges
              => Head(calls[t]) \in SessionCall
         /\ Head(calls[t]).op \in PointerCalls
              => Head(calls[t]).gen \in 1 .. MaxCreated
         /\ Head(calls[t]).op = "login" => Head(calls[t]).iqn \in IQNs
         /\ Head(calls[t]).op = "copyPortal" => Head(calls[t]) \in PortalRequest
<1>1. calls[t] \in Seq(AnyCall)
  BY DEF TypeOK
<1>2. Head(calls[t]) \in AnyCall /\ Head(calls[t]) = calls[t][1]
  BY <1>1, HeadTailProperties
<1> DEFINE c == Head(calls[t])
<1>3. c.op \in KernelCalls \cup Exchanges => c \in SessionCall
  BY <1>2 DEF AnyCall, OtherCall, LoginRequest, PortalRequest, KernelCalls,
              Exchanges, LookUpCalls, PointerCalls, HoldsSession
<1>4. c.op \in PointerCalls => c.gen \in 1 .. MaxCreated
  BY <1>2 DEF AnyCall, OtherCall, LoginRequest, PortalRequest, SessionCall,
              Exchanges, LookUpCalls, PointerCalls, HoldsSession
<1>5. c.op = "login" => c.iqn \in IQNs
  BY <1>2 DEF AnyCall, OtherCall, LoginRequest, PortalRequest, SessionCall,
              Exchanges, LookUpCalls, PointerCalls, HoldsSession
<1>6. c.op = "copyPortal" => c \in PortalRequest
  BY <1>2 DEF AnyCall, OtherCall, LoginRequest, PortalRequest, SessionCall,
              Exchanges, LookUpCalls, PointerCalls, HoldsSession
<1> QED
  BY <1>2, <1>3, <1>4, <1>5, <1>6

-----------------------------------------------------------------------------
(* What a step does to the stacks.                                         *)

StacksOK == calls \in [Threads -> Seq(AnyCall)] /\ UserClientExcludes

\* A call of the kernel is replaced by the calls it makes.
LEMMA KernelStep ==
  ASSUME TypeOK, UserClientExcludes, NEW t \in Threads, calls[t] # <<>>,
         Head(calls[t]).op \in KernelCalls,
         NEW next \in Seq(AnyCall),
         \A i \in 1 .. Len(next) : next[i].op \in KernelCalls,
         CallNext(t, next), UNCHANGED accessLock
  PROVE  StacksOK'
<1> DEFINE s == calls[t]
           new == next \o Tail(s)
<1>1. s \in Seq(AnyCall) /\ s[1].op \in KernelCalls
  BY HeadType DEF TypeOK
<1>2. Tail(s) \in Seq(AnyCall) /\ new \in Seq(AnyCall)
  BY <1>1, HeadTailProperties, ConcatProperties
<1>3. calls' = [calls EXCEPT ![t] = new]
  BY DEF CallNext
<1>4. calls' \in [Threads -> Seq(AnyCall)] /\ calls'[t] = new
  BY <1>2, <1>3 DEF TypeOK
<1>5. \A u \in Threads \ {t} : calls'[u] = calls[u]
  BY <1>3 DEF TypeOK
<1>6. CASE t \in Clients
  <2>1. Nested(s) /\ s # <<>> /\ accessLock = t
    BY <1>1, <1>6, HeadType DEF UserClientExcludes, Inside, Within
  <2>2. Nested(new) /\ new # <<>> /\ new[1].op \in Within
    BY <1>1, <2>1, NestedInside
  <2>3. Head(new) = new[1]
    BY <1>2, <2>2, HeadTailProperties
  <2>4. t # Workloop
    BY <1>6, HBAConstants
  <2>5. Nested(calls[t])' /\ (accessLock = t <=> Inside(t))'
    BY <1>4, <2>1, <2>2, <2>3 DEF Inside, Nested
  <2>6. \A u \in Clients \ {t} : Nested(calls[u])' /\ (accessLock = u <=> Inside(u))'
    BY <1>5, <1>6 DEF UserClientExcludes, Inside, Threads, Nested
  <2>7. \A i \in 1 .. Len(calls'[Workloop]) : calls'[Workloop][i].op \in KernelCalls
    BY <1>5, <2>4 DEF UserClientExcludes, Threads
  <2> QED
    BY <1>4, <2>5, <2>6, <2>7 DEF StacksOK, UserClientExcludes
<1>7. CASE t = Workloop
  <2>1. Workloop \notin Clients
    BY HBAConstants
  <2>2. \A u \in Clients : Nested(calls[u])' /\ (accessLock = u <=> Inside(u))'
    BY <1>5, <1>7, <2>1 DEF UserClientExcludes, Inside, Threads, Nested
  <2>3. \A i \in 1 .. Len(s) : s[i].op \in KernelCalls
    BY <1>7 DEF UserClientExcludes
  <2>4. \A i \in 1 .. Len(new) : new[i].op \in KernelCalls
    <3>1. /\ Len(Tail(s)) = Len(s) - 1
          /\ \A i \in 1 .. Len(s) - 1 : Tail(s)[i] = s[i + 1]
      BY <1>1, HeadTailProperties
    <3>2. \A i \in 1 .. Len(Tail(s)) : Tail(s)[i].op \in KernelCalls
      BY <1>1, <2>3, <3>1
    <3>3. /\ Len(new) = Len(next) + Len(Tail(s))
          /\ \A i \in 1 .. Len(new) :
                new[i] = IF i =< Len(next) THEN next[i] ELSE Tail(s)[i - Len(next)]
      BY <1>2, ConcatProperties
    <3>4. ASSUME NEW i \in 1 .. Len(new)
          PROVE  new[i].op \in KernelCalls
      <4>1. CASE i =< Len(next)
        BY <3>3, <4>1
      <4>2. CASE i > Len(next)
        <5>1. i - Len(next) \in 1 .. Len(Tail(s))
          BY <1>2, <3>3, <4>2
        <5>2. new[i] = Tail(s)[i - Len(next)]
          BY <3>3, <4>2
        <5>3. Tail(s)[i - Len(next)].op \in KernelCalls
          BY <3>2, <5>1
        <5> HIDE DEF new, s
        <5> QED
          BY <5>2, <5>3
      <4> QED
        BY <4>1, <4>2
    <3> QED
      BY <3>4
  <2> QED
    BY <1>4, <1>7, <2>2, <2>4 DEF StacksOK, UserClientExcludes
<1> QED
  BY <1>6, <1>7 DEF Threads

\* A thread of the daemon that is outside goes on with calls that begin outside.
LEMMA OutsideStep ==
  ASSUME TypeOK, UserClientExcludes, NEW t \in Clients, calls[t] # <<>>,
         Head(calls[t]).op \in DaemonCalls,
         NEW next \in Seq(AnyCall), Outside(next),
         CallNext(t, next), UNCHANGED accessLock
  PROVE  StacksOK'
<1> DEFINE s == calls[t]
           new == next \o Tail(s)
<1>1. t \in Threads /\ t # Workloop
  BY HBAConstants DEF Threads
<1>2. s \in Seq(AnyCall) /\ s[1] = Head(s) /\ s[1].op \in DaemonCalls
  BY <1>1, HeadType DEF TypeOK
<1>3. s[1].op \notin Entering /\ s[1].op \notin Within
  BY <1>2 DEF DaemonCalls, Exchanges, Entering, Within, KernelCalls, PointerCalls,
              HoldsSession, LookUpCalls
<1>4. Nested(s) /\ accessLock # t
  BY <1>2, <1>3 DEF UserClientExcludes, Inside
<1>5. Tail(s) \in Seq(AnyCall) /\ Outside(Tail(s))
  BY <1>2, <1>3, <1>4, TailOutside
<1>6. new \in Seq(AnyCall) /\ Outside(new)
  BY <1>5, OutsideConcat
<1>7. calls' = [calls EXCEPT ![t] = new]
  BY DEF CallNext
<1>8. calls' \in [Threads -> Seq(AnyCall)] /\ calls'[t] = new
  BY <1>1, <1>6, <1>7 DEF TypeOK
<1>9. \A u \in Threads \ {t} : calls'[u] = calls[u]
  BY <1>7 DEF TypeOK
<1>10. Nested(calls[t])' /\ (accessLock = t <=> Inside(t))'
  <2>1. new # <<>> => Head(new) = new[1]
    BY <1>6, HeadTailProperties
  <2> QED
    BY <1>4, <1>6, <1>8, <2>1 DEF Inside, Nested, Outside
<1>11. \A u \in Clients \ {t} : Nested(calls[u])' /\ (accessLock = u <=> Inside(u))'
  BY <1>9 DEF UserClientExcludes, Inside, Threads, Nested
<1>12. \A i \in 1 .. Len(calls'[Workloop]) : calls'[Workloop][i].op \in KernelCalls
  BY <1>1, <1>9 DEF UserClientExcludes, Threads
<1> QED
  BY <1>8, <1>10, <1>11, <1>12 DEF StacksOK, UserClientExcludes

\* An idle thread of the daemon begins something.
LEMMA BeginStep ==
  ASSUME TypeOK, UserClientExcludes, NEW t \in Clients, Idle(t),
         NEW todo \in Seq(AnyCall), Outside(todo),
         Begin(t, todo), UNCHANGED accessLock
  PROVE  StacksOK'
<1>1. t \in Threads /\ t # Workloop
  BY HBAConstants DEF Threads
<1>2. accessLock # t
  BY DEF UserClientExcludes, Inside, Idle
<1>3. calls' \in [Threads -> Seq(AnyCall)] /\ calls'[t] = todo
  BY <1>1 DEF TypeOK, Begin
<1>4. \A u \in Threads \ {t} : calls'[u] = calls[u]
  BY DEF TypeOK, Begin
<1>5. Nested(calls[t])' /\ (accessLock = t <=> Inside(t))'
  <2>1. todo # <<>> => Head(todo) = todo[1]
    BY HeadTailProperties
  <2> QED
    BY <1>2, <1>3, <2>1 DEF Inside, Nested, Outside
<1>6. \A u \in Clients \ {t} : Nested(calls[u])' /\ (accessLock = u <=> Inside(u))'
  BY <1>4 DEF UserClientExcludes, Inside, Threads, Nested
<1>7. \A i \in 1 .. Len(calls'[Workloop]) : calls'[Workloop][i].op \in KernelCalls
  BY <1>1, <1>4 DEF UserClientExcludes, Threads
<1> QED
  BY <1>3, <1>5, <1>6, <1>7 DEF StacksOK, UserClientExcludes

\* The workloop starts a handler.
LEMMA HandlerStep ==
  ASSUME TypeOK, UserClientExcludes, NEW handler \in Seq(AnyCall),
         \A i \in 1 .. Len(handler) : handler[i].op \in KernelCalls,
         StartHandler(handler)
  PROVE  StacksOK'
<1>1. Workloop \in Threads /\ Workloop \notin Clients
  BY HBAConstants DEF Threads
<1>2. calls' \in [Threads -> Seq(AnyCall)] /\ calls'[Workloop] = handler
  BY <1>1 DEF TypeOK, StartHandler
<1>3. \A u \in Clients : calls'[u] = calls[u] /\ accessLock' = accessLock
  BY <1>1 DEF TypeOK, StartHandler, Threads
<1>4. \A u \in Clients : Nested(calls[u])' /\ (accessLock = u <=> Inside(u))'
  BY <1>3 DEF UserClientExcludes, Inside, Nested
<1> QED
  BY <1>2, <1>4 DEF StacksOK, UserClientExcludes

\* Only a thread of the daemon comes to the lock, and it is outside.
LEMMA EnterStep ==
  ASSUME TypeOK, UserClientExcludes, NEW t \in Threads, EnterUserClient(t)
  PROVE  StacksOK' /\ accessLock' \in Clients
<1> DEFINE s == calls[t]
<1>1. s \in Seq(AnyCall) /\ s # <<>> /\ s[1].op = "IOLockLock"
  BY HeadType DEF TypeOK, EnterUserClient, Running
<1>2. s[1].op \in Entering /\ s[1].op \notin Within /\ s[1].op \notin KernelCalls
  BY <1>1 DEF Entering, Within, KernelCalls, PointerCalls, HoldsSession, LookUpCalls
<1>3. t \in Clients
  <2>1. 1 \in 1 .. Len(s)
    BY <1>1
  <2> QED
    BY <1>2, <2>1 DEF UserClientExcludes, Threads
<1>4. Nested(s)
  BY <1>3 DEF UserClientExcludes
<1>5. /\ Tail(s) \in Seq(AnyCall)
      /\ Len(Tail(s)) = Len(s) - 1
      /\ \A i \in 1 .. Len(s) - 1 : Tail(s)[i] = s[i + 1]
  BY <1>1, HeadTailProperties
<1>6. Nested(Tail(s))
  BY <1>1, <1>4, <1>5 DEF Nested
<1>7. Tail(s) # <<>> /\ Head(Tail(s)).op \in Within
  <2>1. 1 < Len(s) /\ s[2].op \in Within
    BY <1>1, <1>2, <1>4 DEF Nested
  <2>2. Tail(s)[1] = s[2] /\ Len(Tail(s)) > 0
    BY <1>1, <1>5, <2>1
  <2>3. Tail(s) # <<>>
    <3>1. Len(<<>>) = 0
      BY EmptySeq
    <3>2. Len(Tail(s)) # 0
      BY <2>2, <1>5, <1>1
    <3> QED
      BY <3>1, <3>2, Zenon
  <2>4. Head(Tail(s)) = Tail(s)[1]
    BY <1>5, <2>3, HeadTailProperties
  <2> QED
    BY <2>1, <2>2, <2>3, <2>4
<1>8. calls' = [calls EXCEPT ![t] = Tail(s)]
  <2>1. <<>> \o Tail(s) = Tail(s)
    BY <1>5
  <2> QED
    BY <2>1 DEF EnterUserClient, Return, CallNext
<1>9. calls' \in [Threads -> Seq(AnyCall)] /\ calls'[t] = Tail(s)
  BY <1>5, <1>8 DEF TypeOK
<1>10. \A u \in Threads \ {t} : calls'[u] = calls[u]
  BY <1>8 DEF TypeOK
<1>11. accessLock = None /\ accessLock' = t
  BY DEF EnterUserClient
<1>12. Nested(calls[t])' /\ (accessLock = t <=> Inside(t))'
  BY <1>6, <1>7, <1>9, <1>11 DEF Inside, Nested
<1>13. ASSUME NEW u \in Clients \ {t}
       PROVE  Nested(calls[u])' /\ (accessLock = u <=> Inside(u))'
  <2>1. u # None /\ ~Inside(u) /\ Nested(calls[u])
    BY <1>11, HBAConstants DEF UserClientExcludes
  <2> QED
    BY <1>10, <1>11, <2>1 DEF Inside, Threads, Nested
<1>14. \A i \in 1 .. Len(calls'[Workloop]) : calls'[Workloop][i].op \in KernelCalls
  BY <1>3, <1>10, HBAConstants DEF UserClientExcludes, Threads
<1> QED
  BY <1>3, <1>9, <1>11, <1>12, <1>13, <1>14 DEF StacksOK, UserClientExcludes

LEMMA LeaveStep ==
  ASSUME TypeOK, UserClientExcludes, NEW t \in Threads, LeaveUserClient(t)
  PROVE  StacksOK' /\ accessLock' = None
<1> DEFINE s == calls[t]
<1>1. s \in Seq(AnyCall) /\ s # <<>> /\ s[1] = Head(s) /\ s[1].op = "IOLockUnlock"
  BY HeadType DEF TypeOK, LeaveUserClient, Running
<1>2. s[1].op \notin Entering /\ s[1].op \in Within /\ s[1].op \notin KernelCalls
  BY <1>1 DEF Entering, Within, KernelCalls, PointerCalls, HoldsSession, LookUpCalls
<1>3. t \in Clients
  <2>1. 1 \in 1 .. Len(s)
    BY <1>1
  <2> QED
    BY <1>2, <2>1 DEF UserClientExcludes, Threads
<1>4. Nested(s) /\ accessLock = t
  BY <1>1, <1>2, <1>3 DEF UserClientExcludes, Inside
<1>5. Tail(s) \in Seq(AnyCall) /\ Outside(Tail(s))
  BY <1>1, <1>2, <1>4, TailOutside
<1>6. Tail(s) # <<>> => Head(Tail(s)) = Tail(s)[1]
  BY <1>5, HeadTailProperties
<1>7. calls' = [calls EXCEPT ![t] = Tail(s)]
  <2>1. <<>> \o Tail(s) = Tail(s)
    BY <1>5
  <2> QED
    BY <2>1 DEF LeaveUserClient, Return, CallNext
<1>8. calls' \in [Threads -> Seq(AnyCall)] /\ calls'[t] = Tail(s)
  BY <1>5, <1>7 DEF TypeOK
<1>9. \A u \in Threads \ {t} : calls'[u] = calls[u]
  BY <1>7 DEF TypeOK
<1>10. accessLock' = None
  BY DEF LeaveUserClient
<1>11. Nested(calls[t])' /\ (accessLock = t <=> Inside(t))'
  BY <1>3, <1>5, <1>6, <1>8, <1>10, HBAConstants DEF Inside, Nested, Outside
<1>12. ASSUME NEW u \in Clients \ {t}
       PROVE  Nested(calls[u])' /\ (accessLock = u <=> Inside(u))'
  <2>1. u # None /\ ~Inside(u) /\ Nested(calls[u])
    BY <1>4, HBAConstants DEF UserClientExcludes
  <2> QED
    BY <1>9, <1>10, <2>1 DEF Inside, Threads, Nested
<1>13. \A i \in 1 .. Len(calls'[Workloop]) : calls'[Workloop][i].op \in KernelCalls
  BY <1>3, <1>9, HBAConstants DEF UserClientExcludes, Threads
<1> QED
  BY <1>8, <1>10, <1>11, <1>12, <1>13 DEF StacksOK, UserClientExcludes

-----------------------------------------------------------------------------
(* What a step does to the rest of the state.                              *)

DataOK ==
    /\ sessionList \in [SessionIds -> Session \cup {NoSession}]
    /\ targets \subseteq SessionIds
    /\ targetList \in [IQNs -> SessionIds \cup {None}]
    /\ notifications \in Seq(Notification)
    /\ created \in 0 .. MaxCreated

IInv == TypeOK /\ UserClientExcludes

LEMMA TogetherOK ==
  ASSUME DataOK', StacksOK', accessLock' \in Clients \cup {None}
  PROVE  IInv'
BY DEF DataOK, StacksOK, IInv, TypeOK

LEMMA SetConnectionType ==
  ASSUME TypeOK, NEW sid \in SessionIds, Exists(sid), NEW cid \in ConnectionIds,
         NEW state \in {"none", "idle", "enabled"}, SetConnection(sid, cid, state)
  PROVE  sessionList' \in [SessionIds -> Session \cup {NoSession}]
<1>1. sessionList[sid] \in Session
  BY DEF TypeOK, Exists
<1> DEFINE conns == [sessionList[sid].connections EXCEPT ![cid] = state]
           session == [sessionList[sid] EXCEPT !.connections = conns]
<1>2. conns \in [ConnectionIds -> {"none", "idle", "enabled"}]
  BY <1>1 DEF Session
<1>3. session \in Session
  BY <1>1, <1>2 DEF Session
<1>4. sessionList' = [sessionList EXCEPT ![sid] = session]
  BY DEF SetConnection
<1> QED
  BY <1>3, <1>4 DEF TypeOK

LEMMA AddToActiveType ==
  ASSUME TypeOK, NEW sid \in SessionIds, NEW gen, NEW n \in {1, -1},
         AddToActive(sid, gen, n)
  PROVE  sessionList' \in [SessionIds -> Session \cup {NoSession}]
<1>1. CASE Alive(sid, gen)
  <2>1. sessionList[sid] \in Session
    BY <1>1 DEF TypeOK, Alive, Exists
  <2> DEFINE count == (sessionList[sid].active + n) % CountModulus
             session == [sessionList[sid] EXCEPT !.active = count]
  <2>2. count \in 0 .. CountModulus - 1
    <3>1. sessionList[sid].active + n \in Int
      BY <2>1, HBAConstants DEF Session
    <3>2. CountModulus \in Nat \ {0}
      BY HBAConstants
    <3> QED
      BY <3>1, <3>2
  <2>3. session \in Session
    BY <2>1, <2>2 DEF Session
  <2>4. sessionList' = [sessionList EXCEPT ![sid] = session]
    BY <1>1 DEF AddToActive
  <2> QED
    BY <2>3, <2>4 DEF TypeOK
<1>2. CASE ~Alive(sid, gen)
  BY <1>2 DEF AddToActive, TypeOK
<1> QED
  BY <1>1, <1>2

\* The calls that a call of the kernel makes.
LEMMA KernelCallSequences ==
  /\ <<>> \in Seq(AnyCall)
  /\ \A c \in SessionCall :
        c.op \in KernelCalls => <<c>> \in Seq(AnyCall)
  /\ \A c, d \in SessionCall :
        c.op \in KernelCalls /\ d.op \in KernelCalls => <<c, d>> \in Seq(AnyCall)
BY DEF AnyCall

\* One call of the kernel that another one replaces, or none.
LEMMA KernelReturn ==
  ASSUME TypeOK, UserClientExcludes, NEW t \in Threads, calls[t] # <<>>,
         Head(calls[t]).op \in KernelCalls, Return(t), UNCHANGED accessLock
  PROVE  StacksOK'
<1>1. <<>> \in Seq(AnyCall) /\ \A i \in 1 .. Len(<<>>) : <<>>[i].op \in KernelCalls
  BY KernelCallSequences
<1>2. CallNext(t, <<>>)
  BY DEF Return
<1> QED
  BY <1>1, <1>2, KernelStep

LEMMA KernelOne ==
  ASSUME TypeOK, UserClientExcludes, NEW t \in Threads, calls[t] # <<>>,
         Head(calls[t]).op \in KernelCalls,
         NEW c \in SessionCall, c.op \in KernelCalls,
         CallNext(t, <<c>>), UNCHANGED accessLock
  PROVE  StacksOK'
<1>1. <<c>> \in Seq(AnyCall) /\ \A i \in 1 .. Len(<<c>>) : <<c>>[i].op \in KernelCalls
  BY KernelCallSequences
<1> QED
  BY <1>1, KernelStep

LEMMA KernelTwo ==
  ASSUME TypeOK, UserClientExcludes, NEW t \in Threads, calls[t] # <<>>,
         Head(calls[t]).op \in KernelCalls,
         NEW c \in SessionCall, c.op \in KernelCalls,
         NEW d \in SessionCall, d.op \in KernelCalls,
         CallNext(t, <<c, d>>), UNCHANGED accessLock
  PROVE  StacksOK'
<1>1. /\ <<c, d>> \in Seq(AnyCall)
      /\ \A i \in 1 .. Len(<<c, d>>) : <<c, d>>[i].op \in KernelCalls
  BY KernelCallSequences
<1> QED
  BY <1>1, KernelStep

LEMMA ForConnectionsType ==
  ASSUME NEW op \in LookUpCalls, NEW sid \in SessionIds
  PROVE  /\ ForConnections(op, sid) \in Seq(AnyCall)
         /\ Len(ForConnections(op, sid)) = MaxConnections
         /\ \A i \in 1 .. MaxConnections :
               ForConnections(op, sid)[i].op \in KernelCalls
<1>1. ASSUME NEW i \in 1 .. MaxConnections
      PROVE  Call(op, sid, i - 1) \in AnyCall /\ Call(op, sid, i - 1).op = op
  <2>1. i - 1 \in ConnectionIds
    BY HBAConstants DEF ConnectionIds
  <2> QED
    BY <2>1, CallType DEF AnyCall
<1>2. ForConnections(op, sid) \in [1 .. MaxConnections -> AnyCall]
  BY <1>1 DEF ForConnections
<1>3. MaxConnections \in Nat
  BY HBAConstants
<1>4. ForConnections(op, sid) \in Seq(AnyCall)
  BY <1>2, <1>3, SeqDef
<1>5. Len(ForConnections(op, sid)) = MaxConnections
  BY <1>2, <1>3, <1>4, LenProperties
<1> QED
  BY <1>1, <1>4, <1>5 DEF ForConnections, KernelCalls

-----------------------------------------------------------------------------
(* One lemma for each call of the kernel.                                  *)

\* The head of a stack, when it runs, by what it is.
LEMMA RunningType ==
  ASSUME TypeOK, NEW t \in Threads, NEW op \in KernelCalls, Running(t, op)
  PROVE  /\ calls[t] # <<>>
         /\ Head(calls[t]).op = op
         /\ Head(calls[t]) \in SessionCall
         /\ Head(calls[t]).sid \in SessionIds
         /\ Head(calls[t]).cid \in ConnectionIds
         /\ op \in PointerCalls => Head(calls[t]).gen \in 1 .. MaxCreated
<1>1. calls[t] # <<>> /\ Head(calls[t]).op = op
  BY DEF Running
<1>2. Head(calls[t]) \in SessionCall
  BY <1>1, HeadType
<1>3. op \in PointerCalls => Head(calls[t]).gen \in 1 .. MaxCreated
  BY <1>1, HeadType
<1> QED
  BY <1>1, <1>2, <1>3 DEF SessionCall

\* The names of the kernel's calls, and those whose remains hold a pointer.
LEMMA CallNames ==
  /\ LookUpCalls \subseteq KernelCalls
  /\ PointerCalls \subseteq KernelCalls
  /\ {"mount", "increment", "decrement", "unmount", "unlink",
      "removeEventSources", "free", "notifyAsync", "notifyTimeout"} = PointerCalls
BY DEF KernelCalls, PointerCalls, HoldsSession

LEMMA ActivateConnectionOK ==
  ASSUME IInv, NEW t \in Threads, ActivateConnection(t)
  PROVE  IInv'
<1> USE DEF IInv
<1> DEFINE c == Head(calls[t])
<1>1. Running(t, "ActivateConnection") /\ "ActivateConnection" \in KernelCalls
  BY DEF ActivateConnection, KernelCalls, LookUpCalls
<1>2. /\ calls[t] # <<>> /\ c.op \in KernelCalls /\ c \in SessionCall
      /\ c.sid \in SessionIds /\ c.cid \in ConnectionIds
  BY <1>1, RunningType
<1>3. /\ Exists(c.sid)
      /\ SetConnection(c.sid, c.cid, "enabled")
      /\ CallNext(t, <<Rest("mount", c)>>)
      /\ UNCHANGED <<targets, targetList, notifications, accessLock, created>>
  BY DEF ActivateConnection, Connected
<1>4. Rest("mount", c) \in SessionCall /\ Rest("mount", c).op \in KernelCalls
  BY <1>2, <1>3, RestType, CallNames
<1> HIDE DEF c
<1>5. StacksOK'
  BY <1>2, <1>3, <1>4, KernelOne DEF c
<1>6. sessionList' \in [SessionIds -> Session \cup {NoSession}]
  BY <1>2, <1>3, SetConnectionType
<1>7. DataOK' /\ accessLock' \in Clients \cup {None}
  BY <1>3, <1>6 DEF DataOK, TypeOK
<1> QED
  BY <1>5, <1>7, TogetherOK

LEMMA MountFirstOK ==
  ASSUME IInv, NEW t \in Threads, MountFirst(t)
  PROVE  IInv'
<1> USE DEF IInv
<1> DEFINE c == Head(calls[t])
           first == Alive(c.sid, c.gen) /\ sessionList[c.sid].active = 0
<1>1. Running(t, "mount") /\ "mount" \in PointerCalls
  BY CallNames DEF MountFirst
<1>2. /\ calls[t] # <<>> /\ c.op \in KernelCalls /\ c \in SessionCall
      /\ c.sid \in SessionIds /\ c.cid \in ConnectionIds
      /\ c.gen \in 1 .. MaxCreated
  BY <1>1, RunningType, CallNames
<1>3. Rest("increment", c) \in SessionCall /\ Rest("increment", c).op \in KernelCalls
  <2>1. c.gen # 0 /\ "increment" \in PointerCalls /\ "increment" \in KernelCalls
    BY <1>2, HBAConstants, CallNames
  <2> HIDE DEF c
  <2> QED
    BY <1>2, <2>1, RestType
<1>4. UNCHANGED <<targetList, notifications, accessLock, created>>
  BY DEF MountFirst
<1>5. CASE /\ CallNext(t, <<Rest("increment", c)>>)
           /\ targets' \in {targets, targets \cup {c.sid}}
           /\ UNCHANGED sessionList
  <2>1. StacksOK'
    BY <1>2, <1>3, <1>4, <1>5, KernelOne
  <2>2. DataOK' /\ accessLock' \in Clients \cup {None}
    BY <1>2, <1>4, <1>5 DEF DataOK, TypeOK
  <2> QED
    BY <2>1, <2>2, TogetherOK
<1>6. CASE /\ first /\ SetConnection(c.sid, c.cid, "idle") /\ Return(t)
           /\ UNCHANGED targets
  <2>1. StacksOK'
    BY <1>2, <1>4, <1>6, KernelReturn
  <2>2. sessionList' \in [SessionIds -> Session \cup {NoSession}]
    BY <1>2, <1>6, SetConnectionType DEF Alive
  <2>3. DataOK' /\ accessLock' \in Clients \cup {None}
    BY <1>4, <1>6, <2>2 DEF DataOK, TypeOK
  <2> QED
    BY <2>1, <2>3, TogetherOK
<1> QED
  BY <1>5, <1>6 DEF MountFirst

\* Both steps on the counter.
LEMMA CountOK ==
  ASSUME IInv, NEW t \in Threads, CountActive(t) \/ CountInactive(t)
  PROVE  IInv'
<1> USE DEF IInv
<1> DEFINE c == Head(calls[t])
<1>1. PICK op \in {"increment", "decrement"} : Running(t, op)
  BY DEF CountActive, CountInactive
<1>2. op \in KernelCalls
  BY CallNames
<1>3. calls[t] # <<>> /\ c.op \in KernelCalls /\ c.sid \in SessionIds
  BY <1>1, <1>2, RunningType
<1>4. PICK n \in {1, -1} : AddToActive(c.sid, c.gen, n)
  BY DEF CountActive, CountInactive
<1>5. Return(t) /\ UNCHANGED <<targets, targetList, notifications, accessLock, created>>
  BY DEF CountActive, CountInactive
<1>6. StacksOK'
  BY <1>3, <1>5, KernelReturn
<1>7. sessionList' \in [SessionIds -> Session \cup {NoSession}]
  BY <1>3, <1>4, AddToActiveType
<1>8. DataOK' /\ accessLock' \in Clients \cup {None}
  BY <1>5, <1>7 DEF DataOK, TypeOK
<1> QED
  BY <1>6, <1>8, TogetherOK

\* A step that only changes stacks.
LEMMA StacksOnly ==
  ASSUME IInv, StacksOK',
         UNCHANGED <<sessionList, targets, targetList, notifications,
                     accessLock, created>>
  PROVE  IInv'
<1>1. DataOK' /\ accessLock' \in Clients \cup {None}
  BY DEF IInv, DataOK, TypeOK
<1> QED
  BY <1>1, TogetherOK

LEMMA DeactivateConnectionOK ==
  ASSUME IInv, NEW t \in Threads, DeactivateConnection(t)
  PROVE  IInv'
<1> USE DEF IInv
<1> DEFINE c == Head(calls[t])
<1>1. Running(t, "DeactivateConnection") /\ "DeactivateConnection" \in KernelCalls
  BY DEF DeactivateConnection, KernelCalls, LookUpCalls
<1>2. /\ calls[t] # <<>> /\ c.op \in KernelCalls /\ c \in SessionCall
      /\ c.sid \in SessionIds /\ c.cid \in ConnectionIds
  BY <1>1, RunningType
<1>3. /\ Exists(c.sid)
      /\ SetConnection(c.sid, c.cid, "idle")
      /\ CallNext(t, <<Rest("decrement", c), Rest("unmount", c)>>)
      /\ UNCHANGED <<targets, targetList, notifications, accessLock, created>>
  BY DEF DeactivateConnection, Connected
<1>4. /\ Rest("decrement", c) \in SessionCall /\ Rest("decrement", c).op \in KernelCalls
      /\ Rest("unmount", c) \in SessionCall /\ Rest("unmount", c).op \in KernelCalls
  BY <1>2, <1>3, RestType, CallNames
<1> HIDE DEF c
<1>5. StacksOK'
  BY <1>2, <1>3, <1>4, KernelTwo DEF c
<1>6. sessionList' \in [SessionIds -> Session \cup {NoSession}]
  BY <1>2, <1>3, SetConnectionType
<1>7. DataOK' /\ accessLock' \in Clients \cup {None}
  BY <1>3, <1>6 DEF DataOK, TypeOK
<1> QED
  BY <1>5, <1>7, TogetherOK

LEMMA UnmountLastOK ==
  ASSUME IInv, NEW t \in Threads, UnmountLast(t)
  PROVE  IInv'
<1> USE DEF IInv
<1>1. Running(t, "unmount") /\ "unmount" \in KernelCalls
  BY CallNames DEF UnmountLast
<1>2. calls[t] # <<>> /\ Head(calls[t]).op \in KernelCalls
  BY <1>1, RunningType
<1>3. /\ Return(t) /\ targets' \subseteq targets
      /\ UNCHANGED <<sessionList, targetList, notifications, accessLock, created>>
  BY DEF UnmountLast
<1>4. StacksOK'
  BY <1>2, <1>3, KernelReturn
<1>5. DataOK' /\ accessLock' \in Clients \cup {None}
  BY <1>3 DEF DataOK, TypeOK
<1> QED
  BY <1>4, <1>5, TogetherOK

LEMMA DeactivateAllConnectionsOK ==
  ASSUME IInv, NEW t \in Threads, DeactivateAllConnections(t)
  PROVE  IInv'
<1> USE DEF IInv
<1> DEFINE next == ForConnections("DeactivateConnection", Head(calls[t]).sid)
<1>1. /\ Running(t, "DeactivateAllConnections")
      /\ "DeactivateAllConnections" \in KernelCalls /\ "DeactivateConnection" \in LookUpCalls
  BY DEF DeactivateAllConnections, KernelCalls, LookUpCalls
<1>2. calls[t] # <<>> /\ Head(calls[t]).op \in KernelCalls /\ Head(calls[t]).sid \in SessionIds
  BY <1>1, RunningType
<1>3. next \in Seq(AnyCall) /\ \A i \in 1 .. Len(next) : next[i].op \in KernelCalls
  BY <1>1, <1>2, ForConnectionsType
<1>4. CallNext(t, next) /\ UNCHANGED <<sessionList, targets, targetList, notifications,
                                       accessLock, created>>
  BY DEF DeactivateAllConnections
<1> HIDE DEF next
<1>5. StacksOK'
  BY <1>2, <1>3, <1>4, KernelStep
<1> QED
  BY <1>4, <1>5, StacksOnly

\* Calls of the kernel before other calls of the kernel.
LEMMA KernelConcat ==
  ASSUME NEW a \in Seq(AnyCall), \A i \in 1 .. Len(a) : a[i].op \in KernelCalls,
         NEW b \in Seq(AnyCall), \A i \in 1 .. Len(b) : b[i].op \in KernelCalls
  PROVE  /\ a \o b \in Seq(AnyCall)
         /\ \A i \in 1 .. Len(a \o b) : (a \o b)[i].op \in KernelCalls
<1> DEFINE c == a \o b
<1>1. /\ c \in Seq(AnyCall)
      /\ Len(c) = Len(a) + Len(b)
      /\ \A i \in 1 .. Len(a) : c[i] = a[i]
      /\ \A i \in 1 .. Len(b) : c[Len(a) + i] = b[i]
  BY ConcatProperties
<1>2. ASSUME NEW i \in 1 .. Len(c)
      PROVE  c[i].op \in KernelCalls
  <2>1. CASE i =< Len(a)
    BY <1>1, <2>1
  <2>2. CASE i > Len(a)
    <3>1. i - Len(a) \in 1 .. Len(b) /\ Len(a) + (i - Len(a)) = i
      BY <1>1, <2>2
    <3>2. c[i] = b[i - Len(a)]
      BY <1>1, <3>1
    <3> QED
      BY <3>1, <3>2
  <2> QED
    BY <2>1, <2>2
<1> QED
  BY <1>1, <1>2

LEMMA ReleaseConnectionOK ==
  ASSUME IInv, NEW t \in Threads, ReleaseConnection(t)
  PROVE  IInv'
<1> USE DEF IInv
<1> DEFINE c == Head(calls[t])
           deactivate == IF c.cid \in Enabled(c.sid)
                           THEN <<Call("DeactivateConnection", c.sid, c.cid)>>
                           ELSE <<>>
           release == <<Rest("unlink", c), Rest("removeEventSources", c)>>
<1>1. /\ Running(t, "ReleaseConnection")
      /\ "ReleaseConnection" \in KernelCalls /\ "DeactivateConnection" \in LookUpCalls
  BY DEF ReleaseConnection, KernelCalls, LookUpCalls
<1>2. /\ calls[t] # <<>> /\ c.op \in KernelCalls /\ c \in SessionCall
      /\ c.sid \in SessionIds /\ c.cid \in ConnectionIds
  BY <1>1, RunningType
<1>3. /\ Exists(c.sid)
      /\ CallNext(t, deactivate \o release)
      /\ UNCHANGED <<sessionList, targets, targetList, notifications, accessLock, created>>
  BY DEF ReleaseConnection, Connected
<1>4. deactivate \in Seq(AnyCall) /\ \A i \in 1 .. Len(deactivate) : deactivate[i].op \in KernelCalls
  <2>1. /\ Call("DeactivateConnection", c.sid, c.cid) \in SessionCall
        /\ Call("DeactivateConnection", c.sid, c.cid).op \in KernelCalls
    BY <1>1, <1>2, CallType, CallNames
  <2> HIDE DEF c
  <2> QED
    BY <2>1, KernelCallSequences
<1>5. release \in Seq(AnyCall) /\ \A i \in 1 .. Len(release) : release[i].op \in KernelCalls
  <2>1. /\ Rest("unlink", c) \in SessionCall /\ Rest("unlink", c).op \in KernelCalls
        /\ Rest("removeEventSources", c) \in SessionCall
        /\ Rest("removeEventSources", c).op \in KernelCalls
    BY <1>2, <1>3, RestType, CallNames
  <2> QED
    BY <2>1, KernelCallSequences
<1> DEFINE next == deactivate \o release
<1> HIDE DEF deactivate, release
<1>6. next \in Seq(AnyCall) /\ \A i \in 1 .. Len(next) : next[i].op \in KernelCalls
  BY <1>4, <1>5, KernelConcat
<1>7. CallNext(t, next) /\ UNCHANGED accessLock
  BY <1>3
<1> HIDE DEF next
<1>8. StacksOK'
  BY <1>2, <1>6, <1>7, KernelStep
<1> QED
  BY <1>3, <1>8, StacksOnly

LEMMA UnlinkConnectionOK ==
  ASSUME IInv, NEW t \in Threads, UnlinkConnection(t)
  PROVE  IInv'
<1> USE DEF IInv
<1> DEFINE c == Head(calls[t])
<1>1. Running(t, "unlink") /\ "unlink" \in KernelCalls
  BY CallNames DEF UnlinkConnection
<1>2. /\ calls[t] # <<>> /\ c.op \in KernelCalls
      /\ c.sid \in SessionIds /\ c.cid \in ConnectionIds
  BY <1>1, RunningType
<1>3. Return(t) /\ UNCHANGED <<targets, targetList, notifications, accessLock, created>>
  BY DEF UnlinkConnection
<1>4. StacksOK'
  BY <1>2, <1>3, KernelReturn
<1>5. sessionList' \in [SessionIds -> Session \cup {NoSession}]
  <2>1. CASE Alive(c.sid, c.gen)
    <3>1. Exists(c.sid) /\ SetConnection(c.sid, c.cid, "none")
      BY <2>1 DEF UnlinkConnection, Alive
    <3> QED
      BY <1>2, <3>1, SetConnectionType
  <2>2. CASE ~Alive(c.sid, c.gen)
    BY <2>2 DEF UnlinkConnection, TypeOK
  <2> QED
    BY <2>1, <2>2
<1>6. DataOK' /\ accessLock' \in Clients \cup {None}
  BY <1>3, <1>5 DEF DataOK, TypeOK
<1> QED
  BY <1>4, <1>6, TogetherOK

LEMMA RemoveEventSourcesOK ==
  ASSUME IInv, NEW t \in Threads, RemoveEventSources(t)
  PROVE  IInv'
<1> USE DEF IInv
<1>1. Running(t, "removeEventSources") /\ "removeEventSources" \in KernelCalls
  BY CallNames DEF RemoveEventSources
<1>2. calls[t] # <<>> /\ Head(calls[t]).op \in KernelCalls
  BY <1>1, RunningType
<1>3. Return(t) /\ UNCHANGED <<sessionList, targets, targetList, notifications,
                               accessLock, created>>
  BY DEF RemoveEventSources
<1>4. StacksOK'
  BY <1>2, <1>3, KernelReturn
<1> QED
  BY <1>3, <1>4, StacksOnly

LEMMA ReleaseSessionOK ==
  ASSUME IInv, NEW t \in Threads, ReleaseSession(t)
  PROVE  IInv'
<1> USE DEF IInv
<1> DEFINE c == Head(calls[t])
           release == ForConnections("ReleaseConnection", c.sid)
           free == <<Rest("free", c)>>
           next == release \o free
<1>1. /\ Running(t, "ReleaseSession")
      /\ "ReleaseSession" \in KernelCalls /\ "ReleaseConnection" \in LookUpCalls
  BY DEF ReleaseSession, KernelCalls, LookUpCalls
<1>2. /\ calls[t] # <<>> /\ c.op \in KernelCalls /\ c \in SessionCall
      /\ c.sid \in SessionIds
  BY <1>1, RunningType
<1>3. /\ Exists(c.sid)
      /\ CallNext(t, next)
      /\ UNCHANGED <<sessionList, targets, targetList, notifications, accessLock, created>>
  BY DEF ReleaseSession
<1>4. release \in Seq(AnyCall) /\ \A i \in 1 .. Len(release) : release[i].op \in KernelCalls
  BY <1>1, <1>2, ForConnectionsType
<1>5. free \in Seq(AnyCall) /\ \A i \in 1 .. Len(free) : free[i].op \in KernelCalls
  <2>1. Rest("free", c) \in SessionCall /\ Rest("free", c).op \in KernelCalls
    BY <1>2, <1>3, RestType, CallNames
  <2> QED
    BY <2>1, KernelCallSequences
<1> HIDE DEF release, free
<1>6. next \in Seq(AnyCall) /\ \A i \in 1 .. Len(next) : next[i].op \in KernelCalls
  BY <1>4, <1>5, KernelConcat
<1> HIDE DEF next
<1>7. StacksOK'
  BY <1>2, <1>3, <1>6, KernelStep
<1> QED
  BY <1>3, <1>7, StacksOnly

LEMMA FreeSessionOK ==
  ASSUME IInv, NEW t \in Threads, FreeSession(t)
  PROVE  IInv'
<1> USE DEF IInv
<1> DEFINE c == Head(calls[t])
           d == Call("removeName", c.sid, c.cid)
<1>1. Running(t, "free") /\ "free" \in KernelCalls /\ "removeName" \in LookUpCalls
  BY CallNames DEF FreeSession, LookUpCalls
<1>2. /\ calls[t] # <<>> /\ c.op \in KernelCalls
      /\ c.sid \in SessionIds /\ c.cid \in ConnectionIds
  BY <1>1, RunningType
<1>3. CallNext(t, <<d>>) /\ UNCHANGED <<targets, targetList, notifications,
                                        accessLock, created>>
  BY DEF FreeSession
<1>4. d \in SessionCall /\ d.op \in KernelCalls
  BY <1>1, <1>2, CallType, CallNames
<1>5. sessionList' \in [SessionIds -> Session \cup {NoSession}]
  BY DEF FreeSession, TypeOK
<1> HIDE DEF d
<1>6. StacksOK'
  BY <1>2, <1>3, <1>4, KernelOne
<1>7. DataOK' /\ accessLock' \in Clients \cup {None}
  BY <1>3, <1>5 DEF DataOK, TypeOK
<1> QED
  BY <1>6, <1>7, TogetherOK

LEMMA RemoveNameOK ==
  ASSUME IInv, NEW t \in Threads, RemoveName(t)
  PROVE  IInv'
<1> USE DEF IInv
<1>1. Running(t, "removeName") /\ "removeName" \in KernelCalls
  BY DEF RemoveName, KernelCalls, LookUpCalls
<1>2. calls[t] # <<>> /\ Head(calls[t]).op \in KernelCalls
  BY <1>1, RunningType
<1>3. Return(t) /\ UNCHANGED <<sessionList, targets, notifications, accessLock, created>>
  BY DEF RemoveName
<1>4. StacksOK'
  BY <1>2, <1>3, KernelReturn
<1>5. targetList' \in [IQNs -> SessionIds \cup {None}]
  BY DEF RemoveName, TypeOK
<1>6. DataOK' /\ accessLock' \in Clients \cup {None}
  BY <1>3, <1>5 DEF DataOK, TypeOK
<1> QED
  BY <1>4, <1>6, TogetherOK

LEMMA ReleaseConnectionMethodOK ==
  ASSUME IInv, NEW t \in Threads, ReleaseConnectionMethod(t)
  PROVE  IInv'
<1> USE DEF IInv
<1> DEFINE c == Head(calls[t])
<1>1. /\ Running(t, "ReleaseConnectionMethod")
      /\ "ReleaseConnectionMethod" \in KernelCalls
      /\ {"ReleaseSession", "ReleaseConnection"} \subseteq LookUpCalls
  BY DEF ReleaseConnectionMethod, KernelCalls, LookUpCalls
<1>2. /\ calls[t] # <<>> /\ c.op \in KernelCalls
      /\ c.sid \in SessionIds /\ c.cid \in ConnectionIds
  BY <1>1, RunningType
<1>3. PICK op \in {"ReleaseSession", "ReleaseConnection"} :
         CallNext(t, <<Call(op, c.sid, c.cid)>>)
  BY DEF ReleaseConnectionMethod
<1>4. UNCHANGED <<sessionList, targets, targetList, notifications, accessLock, created>>
  BY DEF ReleaseConnectionMethod
<1> DEFINE d == Call(op, c.sid, c.cid)
<1>5. d \in SessionCall /\ d.op \in KernelCalls
  BY <1>1, <1>2, CallType, CallNames
<1> HIDE DEF d
<1>6. StacksOK'
  BY <1>2, <1>3, <1>4, <1>5, KernelOne DEF d
<1> QED
  BY <1>4, <1>6, StacksOnly

LEMMA HandleConnectionTimeoutOK ==
  ASSUME IInv, NEW t \in Threads, HandleConnectionTimeout(t)
  PROVE  IInv'
<1> USE DEF IInv
<1> DEFINE c == Head(calls[t])
<1>1. /\ Running(t, "HandleConnectionTimeout")
      /\ "HandleConnectionTimeout" \in KernelCalls
      /\ {"DeactivateConnection", "DeactivateAllConnections"} \subseteq LookUpCalls
  BY DEF HandleConnectionTimeout, KernelCalls, LookUpCalls
<1>2. /\ calls[t] # <<>> /\ c.op \in KernelCalls /\ c \in SessionCall
      /\ c.sid \in SessionIds /\ c.cid \in ConnectionIds
  BY <1>1, RunningType
<1>3. PICK op \in {"DeactivateConnection", "DeactivateAllConnections"} :
         /\ Exists(c.sid)
         /\ CallNext(t, <<Call(op, c.sid, c.cid), Rest("notifyTimeout", c)>>)
  BY DEF HandleConnectionTimeout
<1>4. UNCHANGED <<sessionList, targets, targetList, notifications, accessLock, created>>
  BY DEF HandleConnectionTimeout
<1> DEFINE d == Call(op, c.sid, c.cid)
           e == Rest("notifyTimeout", c)
<1>5. d \in SessionCall /\ d.op \in KernelCalls
  BY <1>1, <1>2, CallType, CallNames
<1>6. e \in SessionCall /\ e.op \in KernelCalls
  BY <1>2, <1>3, RestType, CallNames
<1>7. CallNext(t, <<d, e>>)
  BY <1>3
<1> HIDE DEF d, e
<1>8. StacksOK'
  BY <1>2, <1>4, <1>5, <1>6, <1>7, KernelTwo
<1> QED
  BY <1>4, <1>8, StacksOnly

\* Both notifications that are sent.
LEMMA SendNotificationOK ==
  ASSUME IInv, NEW t \in Threads,
         SendTimeoutNotification(t) \/ SendAsyncNotification(t)
  PROVE  IInv'
<1> USE DEF IInv
<1> DEFINE c == Head(calls[t])
<1>1. PICK op \in {"notifyTimeout", "notifyAsync"} : Running(t, op)
  BY DEF SendTimeoutNotification, SendAsyncNotification
<1>2. op \in KernelCalls /\ op \in PointerCalls
  BY CallNames
<1>3. /\ calls[t] # <<>> /\ c.op \in KernelCalls
      /\ c.sid \in SessionIds /\ c.cid \in ConnectionIds /\ c.gen \in 1 .. MaxCreated
  BY <1>1, <1>2, RunningType
<1>4. Return(t) /\ UNCHANGED <<sessionList, targets, targetList, accessLock, created>>
  BY DEF SendTimeoutNotification, SendAsyncNotification
<1>5. StacksOK'
  BY <1>3, <1>4, KernelReturn
<1>6. \E n \in Notification : Notify(n)
  <2>1. CASE SendTimeoutNotification(t)
    <3> DEFINE n == [type |-> "timeout", sid |-> c.sid, cid |-> c.cid, gen |-> c.gen]
    <3>1. n \in Notification
      BY <1>3, HBAConstants DEF Notification
    <3>2. Notify(n)
      BY <2>1 DEF SendTimeoutNotification
    <3> QED
      BY <3>1, <3>2
  <2>2. CASE SendAsyncNotification(t)
    <3>1. PICK type \in {"timeout", "other"}, sid \in SessionIds, cid \in ConnectionIds :
             Notify([type |-> type, sid |-> sid, cid |-> cid, gen |-> 0])
      BY <2>2 DEF SendAsyncNotification
    <3>2. [type |-> type, sid |-> sid, cid |-> cid, gen |-> 0] \in Notification
      BY HBAConstants DEF Notification
    <3> QED
      BY <3>1, <3>2
  <2> QED
    BY <2>1, <2>2
<1>7. notifications' \in Seq(Notification)
  BY <1>6, AppendProperties DEF Notify, TypeOK
<1>8. DataOK' /\ accessLock' \in Clients \cup {None}
  BY <1>4, <1>7 DEF DataOK, TypeOK
<1> QED
  BY <1>5, <1>8, TogetherOK

LEMMA LookUpFailsOK ==
  ASSUME IInv, NEW t \in Threads, LookUpFails(t)
  PROVE  IInv'
<1> USE DEF IInv
<1>1. calls[t] # <<>> /\ Head(calls[t]).op \in KernelCalls
  BY DEF LookUpFails, KernelCalls, LookUpCalls
<1>2. Return(t) /\ UNCHANGED <<sessionList, targets, targetList, notifications,
                               accessLock, created>>
  BY DEF LookUpFails
<1>3. StacksOK'
  BY <1>1, <1>2, KernelReturn
<1> QED
  BY <1>2, <1>3, StacksOnly

LEMMA UserClientOK ==
  ASSUME IInv, NEW t \in Threads, EnterUserClient(t) \/ LeaveUserClient(t)
  PROVE  IInv'
<1> USE DEF IInv
<1>1. StacksOK' /\ accessLock' \in Clients \cup {None}
  BY EnterStep, LeaveStep
<1>2. UNCHANGED <<sessionList, targets, targetList, notifications, created>>
  BY DEF EnterUserClient, LeaveUserClient
<1>3. DataOK'
  BY <1>2 DEF DataOK, TypeOK
<1> QED
  BY <1>1, <1>3, TogetherOK

LEMMA StepOK ==
  ASSUME IInv, NEW t \in Threads, Step(t)
  PROVE  IInv'
BY UserClientOK, ActivateConnectionOK, MountFirstOK, CountOK,
   DeactivateConnectionOK, UnmountLastOK, DeactivateAllConnectionsOK,
   ReleaseConnectionOK, UnlinkConnectionOK, RemoveEventSourcesOK,
   ReleaseSessionOK, FreeSessionOK, RemoveNameOK, ReleaseConnectionMethodOK,
   HandleConnectionTimeoutOK, SendNotificationOK, LookUpFailsOK
DEF Step

-----------------------------------------------------------------------------
(* The workloop's handlers.                                                *)

LEMMA ConnectionLostOK ==
  ASSUME IInv, ConnectionLost
  PROVE  IInv'
<1> USE DEF IInv
<1>1. PICK sid \in SessionIds, cid \in ConnectionIds, failures \in {1, 2} :
         StartHandler([i \in 1 .. failures |-> Call("HandleConnectionTimeout", sid, cid)])
  BY DEF ConnectionLost
<1> DEFINE c == Call("HandleConnectionTimeout", sid, cid)
           handler == [i \in 1 .. failures |-> c]
<1>2. c \in AnyCall /\ c.op \in KernelCalls
  BY CallType DEF AnyCall, KernelCalls, LookUpCalls
<1>3. StartHandler(handler)
  BY <1>1
<1> HIDE DEF c
<1>4. /\ handler \in Seq(AnyCall)
      /\ \A i \in 1 .. Len(handler) : handler[i].op \in KernelCalls
  <2>1. failures \in Nat /\ handler \in [1 .. failures -> AnyCall]
    BY <1>2
  <2>2. handler \in Seq(AnyCall)
    BY <2>1, SeqDef
  <2>3. Len(handler) = failures
    BY <2>1, <2>2, LenProperties
  <2> QED
    BY <1>2, <2>2, <2>3
<1> HIDE DEF handler
<1>5. StacksOK'
  BY <1>3, <1>4, HandlerStep
<1> QED
  BY <1>3, <1>5, StacksOnly DEF StartHandler

LEMMA ProcessAsyncMsgOK ==
  ASSUME IInv, ProcessAsyncMsg
  PROVE  IInv'
<1> USE DEF IInv
<1>1. PICK sid \in SessionIds, cid \in ConnectionIds, event \in AsyncEvents :
         /\ Exists(sid)
         /\ StartHandler(<<AsyncCall(event, sid, cid),
                           Rest("notifyAsync", Call(event, sid, cid))>>)
  BY DEF ProcessAsyncMsg, Connected
<1> DEFINE c == AsyncCall(event, sid, cid)
           d == Rest("notifyAsync", Call(event, sid, cid))
<1>2. c \in SessionCall /\ c.op \in KernelCalls
  <2>1. event \in {"dropAllConnections", "dropConnection", "logout"}
    BY HBAConstants
  <2>2. \E op \in {"ReleaseSession", "ReleaseConnection", "DeactivateConnection"} :
           c = Call(op, sid, cid)
    BY <2>1 DEF AsyncCall
  <2>3. {"ReleaseSession", "ReleaseConnection", "DeactivateConnection"} \subseteq LookUpCalls
    BY DEF LookUpCalls
  <2> QED
    BY <2>2, <2>3, CallType, CallNames
<1>3. d \in SessionCall /\ d.op \in KernelCalls
  <2>1. sessionList[sid].gen \in 1 .. MaxCreated
    BY <1>1 DEF TypeOK, Exists, Session
  <2>2. d = [op |-> "notifyAsync", sid |-> sid, cid |-> cid, gen |-> sessionList[sid].gen]
    BY DEF Rest, Call
  <2>3. "notifyAsync" \in PointerCalls
    BY CallNames
  <2> HIDE DEF d
  <2> QED
    BY <2>1, <2>2, <2>3, CallNames DEF SessionCall
<1> DEFINE handler == <<c, d>>
<1>4. StartHandler(handler)
  BY <1>1
<1> HIDE DEF c, d
<1>5. /\ handler \in Seq(AnyCall)
      /\ \A i \in 1 .. Len(handler) : handler[i].op \in KernelCalls
  BY <1>2, <1>3, KernelCallSequences
<1> HIDE DEF handler
<1>6. StacksOK'
  BY <1>4, <1>5, HandlerStep
<1> QED
  BY <1>4, <1>6, StacksOnly DEF StartHandler

-----------------------------------------------------------------------------
(* One lemma for each call of the daemon.                                  *)

LEMMA DaemonCallType ==
  ASSUME TypeOK, NEW t \in Clients, NEW op \in DaemonCalls, Running(t, op)
  PROVE  /\ calls[t] # <<>>
         /\ Head(calls[t]).op \in DaemonCalls
         /\ op = "login" => Head(calls[t]).iqn \in IQNs
         /\ op \in Exchanges => /\ Head(calls[t]).sid \in SessionIds
                                /\ Head(calls[t]).cid \in ConnectionIds
<1>1. calls[t] # <<>> /\ Head(calls[t]).op = op
  BY DEF Running
<1>2. t \in Threads
  BY DEF Threads
<1>3. op = "login" => Head(calls[t]).iqn \in IQNs
  BY <1>1, <1>2, HeadType
<1>4. op \in Exchanges => Head(calls[t]) \in SessionCall
  BY <1>1, <1>2, HeadType
<1> QED
  BY <1>1, <1>3, <1>4 DEF SessionCall

\* A method, and an exchange, by identifier.
LEMMA MethodCalls ==
  ASSUME NEW op \in LookUpCalls, NEW sid \in SessionIds, NEW cid \in ConnectionIds
  PROVE  /\ Method(Call(op, sid, cid)) \in Seq(AnyCall)
         /\ Outside(Method(Call(op, sid, cid)))
BY CallType, CallNames, MethodOutside

LEMMA ExchangeCalls ==
  ASSUME NEW op \in Exchanges, NEW sid \in SessionIds, NEW cid \in ConnectionIds
  PROVE  /\ <<Call(op, sid, cid)>> \in Seq(AnyCall)
         /\ Outside(<<Call(op, sid, cid)>>)
<1>1. Call(op, sid, cid) \in AnyCall /\ Call(op, sid, cid).op \in DaemonCalls
  BY CallType DEF AnyCall, DaemonCalls
<1> QED
  BY <1>1, DaemonCallOutside

LEMMA LogoutCallsOutside ==
  ASSUME NEW sid \in SessionIds
  PROVE  LogoutCalls(sid) \in Seq(AnyCall) /\ Outside(LogoutCalls(sid))
<1> DEFINE deactivate == Method(Call("DeactivateAllConnections", sid, 0))
           exchange == <<Call("logoutExchange", sid, 0)>>
           release == Method(Call("ReleaseSession", sid, 0))
<1>1. /\ "DeactivateAllConnections" \in LookUpCalls /\ "ReleaseSession" \in LookUpCalls
      /\ "logoutExchange" \in Exchanges
      /\ 0 \in ConnectionIds
  BY Ids DEF LookUpCalls, Exchanges
<1>2. /\ deactivate \in Seq(AnyCall) /\ Outside(deactivate)
      /\ release \in Seq(AnyCall) /\ Outside(release)
      /\ exchange \in Seq(AnyCall) /\ Outside(exchange)
  BY <1>1, MethodCalls, ExchangeCalls
<1>3. LogoutCalls(sid) = (deactivate \o exchange) \o release
  BY DEF LogoutCalls
<1> HIDE DEF deactivate, exchange, release
<1>4. deactivate \o exchange \in Seq(AnyCall) /\ Outside(deactivate \o exchange)
  BY <1>2, OutsideConcat
<1> QED
  BY <1>2, <1>3, <1>4, OutsideConcat

LEMMA LostInOutside ==
  ASSUME NEW c, c.sid \in SessionIds, c.cid \in ConnectionIds
  PROVE  LostIn(c) \in Seq(AnyCall) /\ Outside(LostIn(c))
<1>1. "HandleConnectionTimeout" \in LookUpCalls
  BY DEF LookUpCalls
<1> QED
  BY <1>1, MethodCalls DEF LostIn

\* A call of the daemon that changes nothing but its stack.
LEMMA DaemonStepOK ==
  ASSUME IInv, NEW t \in Clients, calls[t] # <<>>, Head(calls[t]).op \in DaemonCalls,
         NEW next \in Seq(AnyCall), Outside(next), CallNext(t, next),
         UNCHANGED <<sessionList, targets, targetList, notifications,
                     accessLock, created>>
  PROVE  IInv'
<1>1. StacksOK'
  BY OutsideStep DEF IInv
<1> QED
  BY <1>1, StacksOnly

\* Creating a session, and failing to.
LEMMA CreateSessionType ==
  ASSUME TypeOK, NEW iqn \in IQNs, CreateSession(iqn)
  PROVE  DataOK' /\ NewSid \in SessionIds
<1>1. NewSid \in SessionIds
  BY FreeSlotIsId DEF CreateSession, NewSid
<1> DEFINE new == [gen |-> created + 1, iqn |-> iqn, active |-> 0,
                   connections |-> [cid \in ConnectionIds |->
                                      IF cid = 0 THEN "idle" ELSE "none"]]
<1>2. created + 1 \in 1 .. MaxCreated
  BY HBAConstants DEF CreateSession, TypeOK
<1>3. new \in Session
  <2>1. 0 \in 0 .. CountModulus - 1
    BY HBAConstants
  <2> QED
    BY <1>2, <2>1 DEF Session
<1>4. /\ sessionList' = [sessionList EXCEPT ![NewSid] = new]
      /\ targetList' = [targetList EXCEPT ![iqn] = NewSid]
      /\ created' = created + 1
      /\ UNCHANGED <<targets, notifications>>
  BY DEF CreateSession, NewSid
<1> HIDE DEF new
<1> QED
  BY <1>1, <1>2, <1>3, <1>4, HBAConstants DEF DataOK, TypeOK

LEMMA CreateSessionFailsType ==
  ASSUME TypeOK, NEW iqn \in IQNs, CreateSessionFails(iqn)
  PROVE  DataOK'
BY DEF CreateSessionFails, DataOK, TypeOK

LEMMA SessionLoginOK ==
  ASSUME IInv, NEW t \in Clients, SessionLogin(t)
  PROVE  IInv'
<1> USE DEF IInv
<1> DEFINE iqn == Head(calls[t]).iqn
<1>1. Running(t, "login") /\ "login" \in DaemonCalls
  BY DEF SessionLogin, DaemonCalls
<1>2. calls[t] # <<>> /\ Head(calls[t]).op \in DaemonCalls /\ iqn \in IQNs
  BY <1>1, DaemonCallType
<1>3. CASE CreateSession(iqn) /\ CallNext(t, <<Call("loginExchange", NewSid, 0)>>)
  <2>1. DataOK' /\ NewSid \in SessionIds /\ UNCHANGED accessLock
    BY <1>2, <1>3, CreateSessionType DEF CreateSession
  <2> DEFINE next == <<Call("loginExchange", NewSid, 0)>>
  <2>2. next \in Seq(AnyCall) /\ Outside(next)
    BY <2>1, Ids, ExchangeCalls DEF Exchanges
  <2>3. CallNext(t, next)
    BY <1>3
  <2> HIDE DEF next
  <2>4. StacksOK'
    BY <1>2, <2>1, <2>2, <2>3, OutsideStep
  <2> QED
    BY <2>1, <2>4, TogetherOK DEF TypeOK
<1>4. CASE CreateSessionFails(iqn) /\ Return(t)
  <2>1. DataOK' /\ UNCHANGED accessLock
    BY <1>2, <1>4, CreateSessionFailsType DEF CreateSessionFails
  <2>2. StacksOK'
    BY <1>2, <1>4, <2>1, NothingOutside, OutsideStep DEF Return
  <2> QED
    BY <2>1, <2>2, TogetherOK DEF TypeOK
<1> QED
  BY <1>3, <1>4 DEF SessionLogin

LEMMA SessionAddConnectionOK ==
  ASSUME IInv, NEW t \in Clients, SessionAddConnection(t)
  PROVE  IInv'
<1> USE DEF IInv
<1> DEFINE sid == targetList[Head(calls[t]).iqn]
<1>1. Running(t, "login") /\ "login" \in DaemonCalls
  BY DEF SessionAddConnection, DaemonCalls
<1>2. calls[t] # <<>> /\ Head(calls[t]).op \in DaemonCalls /\ Head(calls[t]).iqn \in IQNs
  BY <1>1, DaemonCallType
<1>3. sid \in SessionIds
  BY <1>2 DEF SessionAddConnection, TypeOK
<1> DEFINE next == Method(Call("ReleaseConnectionMethod", sid, NewCid(sid)))
<1>4. CASE CreateConnection(sid) /\ CallNext(t, next)
  <2>1. /\ Exists(sid) /\ NewCid(sid) \in ConnectionIds
        /\ SetConnection(sid, NewCid(sid), "idle")
        /\ UNCHANGED <<targets, targetList, notifications, accessLock, created>>
    BY <1>4, FreeConnectionIsId DEF CreateConnection, NewCid
  <2>2. sessionList' \in [SessionIds -> Session \cup {NoSession}]
    BY <1>3, <2>1, SetConnectionType
  <2>3. next \in Seq(AnyCall) /\ Outside(next)
    BY <1>3, <2>1, MethodCalls DEF LookUpCalls
  <2>4. CallNext(t, next)
    BY <1>4
  <2> HIDE DEF next
  <2>5. StacksOK'
    BY <1>2, <2>1, <2>3, <2>4, OutsideStep
  <2>6. DataOK' /\ accessLock' \in Clients \cup {None}
    BY <2>1, <2>2 DEF DataOK, TypeOK
  <2> QED
    BY <2>5, <2>6, TogetherOK
<1>5. CASE Return(t) /\ UNCHANGED <<sessionList, targets, targetList, notifications,
                                    accessLock, created>>
  BY <1>2, <1>5, NothingOutside, DaemonStepOK DEF Return
<1> QED
  BY <1>4, <1>5 DEF SessionAddConnection

LEMMA LoginExchangeOK ==
  ASSUME IInv, NEW t \in Clients, LoginExchange(t)
  PROVE  IInv'
<1> USE DEF IInv
<1> DEFINE c == Head(calls[t])
           release == Method(Call("ReleaseSession", c.sid, 0))
           activate == Method(Call("ActivateConnection", c.sid, c.cid))
<1>1. Running(t, "loginExchange") /\ "loginExchange" \in DaemonCalls /\ "loginExchange" \in Exchanges
  BY DEF LoginExchange, DaemonCalls, Exchanges
<1>2. /\ calls[t] # <<>> /\ c.op \in DaemonCalls
      /\ c.sid \in SessionIds /\ c.cid \in ConnectionIds
  BY <1>1, DaemonCallType
<1>3. /\ release \in Seq(AnyCall) /\ Outside(release)
      /\ activate \in Seq(AnyCall) /\ Outside(activate)
      /\ LostIn(c) \in Seq(AnyCall) /\ Outside(LostIn(c))
  BY <1>2, Ids, MethodCalls, LostInOutside DEF LookUpCalls
<1>4. \E next \in {activate, release, LostIn(c) \o release} : CallNext(t, next)
  BY DEF LoginExchange
<1>5. UNCHANGED <<sessionList, targets, targetList, notifications, accessLock, created>>
  BY DEF LoginExchange
<1> DEFINE lost == LostIn(c) \o release
<1> HIDE DEF release, activate
<1>6. lost \in Seq(AnyCall) /\ Outside(lost)
  BY <1>3, OutsideConcat
<1>7. PICK next \in {activate, release, lost} : CallNext(t, next)
  BY <1>4
<1>8. next \in Seq(AnyCall) /\ Outside(next)
  BY <1>3, <1>6
<1> QED
  BY <1>2, <1>5, <1>7, <1>8, DaemonStepOK

LEMMA ExchangeOK ==
  ASSUME IInv, NEW t \in Clients, Exchange(t)
  PROVE  IInv'
<1> USE DEF IInv
<1> DEFINE c == Head(calls[t])
<1>1. Running(t, "exchange") /\ "exchange" \in DaemonCalls /\ "exchange" \in Exchanges
  BY DEF Exchange, DaemonCalls, Exchanges
<1>2. /\ calls[t] # <<>> /\ c.op \in DaemonCalls
      /\ c.sid \in SessionIds /\ c.cid \in ConnectionIds
  BY <1>1, DaemonCallType
<1>3. PICK next \in {<<>>, LostIn(c)} : CallNext(t, next)
  BY DEF Exchange, Return
<1>4. next \in Seq(AnyCall) /\ Outside(next)
  BY <1>2, NothingOutside, LostInOutside
<1>5. UNCHANGED <<sessionList, targets, targetList, notifications, accessLock, created>>
  BY DEF Exchange
<1> QED
  BY <1>2, <1>3, <1>4, <1>5, DaemonStepOK

LEMMA LogoutExchangeOK ==
  ASSUME IInv, NEW t \in Clients, LogoutExchange(t)
  PROVE  IInv'
<1> USE DEF IInv
<1> DEFINE sid == Head(calls[t]).sid
           c == Call("exchange", sid, Min(Connections(sid)))
<1>1. /\ Running(t, "logoutExchange")
      /\ "logoutExchange" \in DaemonCalls /\ "logoutExchange" \in Exchanges
  BY DEF LogoutExchange, DaemonCalls, Exchanges
<1>2. /\ calls[t] # <<>> /\ Head(calls[t]).op \in DaemonCalls
      /\ sid \in SessionIds
  BY <1>1, DaemonCallType
<1>3. \/ CallNext(t, <<>>)
      \/ Connections(sid) # {} /\ CallNext(t, LostIn(c))
  BY DEF LogoutExchange, Return
<1>4. UNCHANGED <<sessionList, targets, targetList, notifications, accessLock, created>>
  BY DEF LogoutExchange
<1>5. CASE CallNext(t, <<>>)
  BY <1>2, <1>4, <1>5, NothingOutside, DaemonStepOK
<1>6. CASE Connections(sid) # {} /\ CallNext(t, LostIn(c))
  <2>1. Connections(sid) \subseteq ConnectionIds
    BY DEF Connections
  <2>2. Min(Connections(sid)) \in ConnectionIds
    BY <1>6, <2>1, MinOfIds, Ids
  <2>3. c.sid \in SessionIds /\ c.cid \in ConnectionIds
    BY <1>2, <2>2 DEF Call
  <2> HIDE DEF c
  <2>4. LostIn(c) \in Seq(AnyCall) /\ Outside(LostIn(c))
    BY <2>3, LostInOutside
  <2> QED
    BY <1>2, <1>4, <1>6, <2>4, DaemonStepOK
<1> QED
  BY <1>3, <1>5, <1>6

LEMMA DiscoveryLoginOK ==
  ASSUME IInv, NEW t \in Clients, DiscoveryLogin(t)
  PROVE  IInv'
<1> USE DEF IInv
<1> DEFINE c == Head(calls[t])
           release == Method(Call("ReleaseSession", c.sid, 0))
           exchange == <<Call("exchange", c.sid, c.cid)>>
           query == exchange \o LogoutCalls(c.sid)
           undone == release \o query
           lost == LostIn(c) \o release
<1>1. /\ Running(t, "discoveryLogin")
      /\ "discoveryLogin" \in DaemonCalls /\ "discoveryLogin" \in Exchanges
  BY DEF DiscoveryLogin, DaemonCalls, Exchanges
<1>2. /\ calls[t] # <<>> /\ c.op \in DaemonCalls
      /\ c.sid \in SessionIds /\ c.cid \in ConnectionIds
  BY <1>1, DaemonCallType
<1>3. "ReleaseSession" \in LookUpCalls /\ "exchange" \in Exchanges /\ 0 \in ConnectionIds
  BY Ids DEF LookUpCalls, Exchanges
<1>4. /\ release \in Seq(AnyCall) /\ Outside(release)
      /\ exchange \in Seq(AnyCall) /\ Outside(exchange)
      /\ LogoutCalls(c.sid) \in Seq(AnyCall) /\ Outside(LogoutCalls(c.sid))
      /\ LostIn(c) \in Seq(AnyCall) /\ Outside(LostIn(c))
  BY <1>2, <1>3, MethodCalls, ExchangeCalls, LogoutCallsOutside, LostInOutside
<1>5. PICK next \in {query, undone, lost, release} : CallNext(t, next)
  BY DEF DiscoveryLogin
<1>6. UNCHANGED <<sessionList, targets, targetList, notifications, accessLock, created>>
  BY DEF DiscoveryLogin
<1> HIDE DEF release, exchange
<1>7. query \in Seq(AnyCall) /\ Outside(query)
  BY <1>4, OutsideConcat
<1>8. lost \in Seq(AnyCall) /\ Outside(lost)
  BY <1>4, OutsideConcat
<1> HIDE DEF query, lost
<1>9. undone \in Seq(AnyCall) /\ Outside(undone)
  BY <1>4, <1>7, OutsideConcat
<1> HIDE DEF undone
<1>10. next \in Seq(AnyCall) /\ Outside(next)
  BY <1>4, <1>5, <1>7, <1>8, <1>9
<1> QED
  BY <1>2, <1>5, <1>6, <1>10, DaemonStepOK

\* What follows a notification: the release, and a login, a look-up, or death.
LEMMA ReleaseLostOutside ==
  ASSUME NEW sid \in SessionIds, NEW cid \in ConnectionIds
  PROVE  /\ ReleaseLost(sid, cid) \in Seq(AnyCall)
         /\ Outside(ReleaseLost(sid, cid))
BY MethodCalls DEF ReleaseLost, LookUpCalls

LEMMA CrashOutside == <<Crash>> \in Seq(AnyCall) /\ Outside(<<Crash>>)
<1>1. Crash \in AnyCall /\ Crash.op \in DaemonCalls
  BY DEF Crash, AnyCall, OtherCall, DaemonCalls
<1> QED
  BY <1>1, DaemonCallOutside

LEMMA LoginCallOutside ==
  ASSUME NEW iqn \in IQNs
  PROVE  <<LoginCall(iqn)>> \in Seq(AnyCall) /\ Outside(<<LoginCall(iqn)>>)
<1>1. LoginCall(iqn) \in AnyCall /\ LoginCall(iqn).op \in DaemonCalls
  BY DEF LoginCall, AnyCall, LoginRequest, DaemonCalls
<1> QED
  BY <1>1, DaemonCallOutside

LEMMA PortalCallOutside ==
  ASSUME NEW iqn \in IQNs, NEW sid \in SessionIds, NEW cid \in ConnectionIds
  PROVE  /\ <<PortalCall(iqn, sid, cid)>> \in Seq(AnyCall)
         /\ Outside(<<PortalCall(iqn, sid, cid)>>)
<1>1. PortalCall(iqn, sid, cid) \in AnyCall /\ PortalCall(iqn, sid, cid).op \in DaemonCalls
  BY DEF PortalCall, AnyCall, PortalRequest, DaemonCalls
<1> QED
  BY <1>1, DaemonCallOutside

\* What a thread goes on with when it has looked the portal up.
AfterPortal(c) == {<<Crash>>, <<>>} \cup {<<LoginCall(iqn)>> : iqn \in {c.iqn}}

LEMMA CopyPortalCalls ==
  ASSUME TypeOK, NEW t \in Clients, CopyPortal(t)
  PROVE  /\ calls[t] # <<>> /\ Head(calls[t]).op = "copyPortal"
         /\ Head(calls[t]) \in PortalRequest
         /\ Head(calls[t]).sid \in SessionIds /\ Head(calls[t]).cid \in ConnectionIds
         /\ Head(calls[t]).iqn \in IQNs
         /\ UNCHANGED <<sessionList, targets, targetList, notifications,
                        accessLock, created>>
         /\ \E next \in AfterPortal(Head(calls[t])) :
               CallNext(t, ReleaseLost(Head(calls[t]).sid, Head(calls[t]).cid) \o next)
<1> DEFINE c == Head(calls[t])
<1>1. calls[t] # <<>> /\ c.op = "copyPortal"
  BY DEF CopyPortal, Running
<1>2. c \in PortalRequest
  BY <1>1, HeadType DEF Threads
<1>3. c.sid \in SessionIds /\ c.cid \in ConnectionIds /\ c.iqn \in IQNs
  BY <1>2 DEF PortalRequest
<1>4. UNCHANGED <<sessionList, targets, targetList, notifications, accessLock, created>>
  BY DEF CopyPortal
<1>5. \E next \in AfterPortal(c) : CallNext(t, ReleaseLost(c.sid, c.cid) \o next)
  <2> DEFINE after == IF ~Connected(c.sid, c.cid) THEN {<<Crash>>}
                      ELSE {<<>>} \cup {<<LoginCall(iqn)>> : iqn \in {c.iqn} \ {DiscoveryIQN}}
  <2>1. PICK next \in after : CallNext(t, ReleaseLost(c.sid, c.cid) \o next)
    BY DEF CopyPortal
  <2>2. after \subseteq AfterPortal(c)
    BY DEF AfterPortal
  <2> QED
    BY <2>1, <2>2
<1> QED
  BY <1>1, <1>2, <1>3, <1>4, <1>5

LEMMA AfterPortalOutside ==
  ASSUME NEW c, c.iqn \in IQNs, NEW next \in AfterPortal(c)
  PROVE  next \in Seq(AnyCall) /\ Outside(next)
BY CrashOutside, LoginCallOutside, NothingOutside DEF AfterPortal

LEMMA CopyPortalOK ==
  ASSUME IInv, NEW t \in Clients, CopyPortal(t)
  PROVE  IInv'
<1> USE DEF IInv
<1> DEFINE c == Head(calls[t])
           release == ReleaseLost(c.sid, c.cid)
<1>1. /\ calls[t] # <<>> /\ c.op \in DaemonCalls
      /\ c.sid \in SessionIds /\ c.cid \in ConnectionIds /\ c.iqn \in IQNs
      /\ UNCHANGED <<sessionList, targets, targetList, notifications, accessLock, created>>
  BY CopyPortalCalls DEF DaemonCalls
<1>2. PICK next \in AfterPortal(c) : CallNext(t, release \o next)
  BY CopyPortalCalls
<1>3. release \in Seq(AnyCall) /\ Outside(release)
  BY <1>1, ReleaseLostOutside
<1>4. next \in Seq(AnyCall) /\ Outside(next)
  BY <1>1, <1>2, AfterPortalOutside
<1> HIDE DEF release
<1>5. release \o next \in Seq(AnyCall) /\ Outside(release \o next)
  BY <1>3, <1>4, OutsideConcat
<1> QED
  BY <1>1, <1>2, <1>5, DaemonStepOK

LEMMA ClientStepOK ==
  ASSUME IInv, NEW t \in Clients, ClientStep(t)
  PROVE  IInv'
<1>1. t \in Threads
  BY DEF Threads
<1> QED
  BY <1>1, StepOK, SessionLoginOK, SessionAddConnectionOK, LoginExchangeOK,
     ExchangeOK, LogoutExchangeOK, DiscoveryLoginOK, CopyPortalOK
  DEF ClientStep

-----------------------------------------------------------------------------
(* What the run loop and the discovery thread start.                       *)

\* A thread begins something, and nothing else changes.
LEMMA DaemonBeginOK ==
  ASSUME IInv, NEW t \in Clients, Idle(t), NEW todo \in Seq(AnyCall), Outside(todo),
         Begin(t, todo),
         UNCHANGED <<sessionList, targets, targetList, notifications,
                     accessLock, created>>
  PROVE  IInv'
<1>1. StacksOK'
  BY BeginStep DEF IInv
<1> QED
  BY <1>1, StacksOnly

LEMMA LoginOK ==
  ASSUME IInv, NEW iqn \in IQNs, Login(iqn)
  PROVE  IInv'
<1>1. Main \in Clients
  BY SessionManagerConstants
<1> QED
  BY <1>1, LoginCallOutside, DaemonBeginOK DEF Login

LEMMA LogoutOK ==
  ASSUME IInv, NEW iqn \in IQNs, Logout(iqn)
  PROVE  IInv'
<1>1. Main \in Clients
  BY SessionManagerConstants
<1>2. targetList[iqn] \in SessionIds
  BY DEF Logout, IInv, TypeOK
<1>3. LogoutCalls(targetList[iqn]) \in Seq(AnyCall) /\ Outside(LogoutCalls(targetList[iqn]))
  BY <1>2, LogoutCallsOutside
<1> QED
  BY <1>1, <1>3, DaemonBeginOK DEF Logout

\* A thread begins with a session of its own, or fails to create one.
LEMMA BeginSessionOK ==
  ASSUME IInv, NEW t \in Clients, Idle(t), NEW iqn \in IQNs,
         NEW todo \in Seq(AnyCall), Outside(todo),
         \/ CreateSession(iqn) /\ Begin(t, todo)
         \/ CreateSessionFails(iqn) /\ UNCHANGED calls
  PROVE  IInv'
<1> USE DEF IInv
<1>1. CASE CreateSession(iqn) /\ Begin(t, todo)
  <2>1. DataOK' /\ UNCHANGED accessLock
    BY <1>1, CreateSessionType DEF CreateSession
  <2>2. StacksOK'
    BY <1>1, <2>1, BeginStep
  <2> QED
    BY <2>1, <2>2, TogetherOK DEF TypeOK
<1>2. CASE CreateSessionFails(iqn) /\ UNCHANGED calls
  <2>1. DataOK' /\ UNCHANGED accessLock
    BY <1>2, CreateSessionFailsType DEF CreateSessionFails
  <2>2. StacksOK'
    BY <1>2, <2>1 DEF StacksOK, TypeOK, UserClientExcludes, Inside, Nested
  <2> QED
    BY <2>1, <2>2, TogetherOK DEF TypeOK
<1> QED
  BY <1>1, <1>2

LEMMA QueryTargetOK ==
  ASSUME IInv, NEW iqn \in IQNs, QueryTarget(iqn)
  PROVE  IInv'
<1> DEFINE exchange == <<Call("exchange", NewSid, 0)>>
           release == Method(Call("ReleaseSession", NewSid, 0))
           todo == exchange \o release
<1>1. Main \in Clients
  BY SessionManagerConstants
<1>2. Idle(Main)
  BY DEF QueryTarget
<1>3. CASE CreateSession(iqn) /\ Begin(Main, todo)
  <2>1. NewSid \in SessionIds
    BY <1>3, CreateSessionType DEF IInv
  <2>2. /\ exchange \in Seq(AnyCall) /\ Outside(exchange)
        /\ release \in Seq(AnyCall) /\ Outside(release)
    BY <2>1, Ids, MethodCalls, ExchangeCalls DEF LookUpCalls, Exchanges
  <2> HIDE DEF exchange, release
  <2>3. todo \in Seq(AnyCall) /\ Outside(todo)
    BY <2>2, OutsideConcat
  <2> QED
    BY <1>1, <1>2, <1>3, <2>3, BeginSessionOK
<1>4. CASE CreateSessionFails(iqn) /\ UNCHANGED calls
  BY <1>1, <1>2, <1>4, NothingOutside, BeginSessionOK
<1> QED
  BY <1>3, <1>4 DEF QueryTarget

LEMMA DiscoverOK ==
  ASSUME IInv, Discover
  PROVE  IInv'
<1> DEFINE todo == <<Call("discoveryLogin", NewSid, 0)>>
<1>1. Discovery \in Clients /\ DiscoveryIQN \in IQNs
  BY SessionManagerConstants
<1>2. Idle(Discovery)
  BY DEF Discover
<1>3. CASE CreateSession(DiscoveryIQN) /\ Begin(Discovery, todo)
  <2>1. NewSid \in SessionIds
    BY <1>1, <1>3, CreateSessionType DEF IInv
  <2>2. todo \in Seq(AnyCall) /\ Outside(todo)
    BY <2>1, Ids, ExchangeCalls DEF Exchanges
  <2> QED
    BY <1>1, <1>2, <1>3, <2>2, BeginSessionOK
<1>4. CASE CreateSessionFails(DiscoveryIQN) /\ UNCHANGED calls
  BY <1>1, <1>2, <1>4, NothingOutside, BeginSessionOK
<1> QED
  BY <1>3, <1>4 DEF Discover

\* What a notification makes the run loop do.
NotificationCalls(n) ==
    {<<>>, ReleaseLost(n.sid, n.cid) \o <<Crash>>}
    \cup {<<PortalCall(iqn, n.sid, n.cid)>> : iqn \in IQNs}

LEMMA NotificationBegins ==
  ASSUME TypeOK, HandleNotification
  PROVE  /\ Main \in Clients /\ Idle(Main) /\ accessLock = None
         /\ Head(notifications) \in Notification
         /\ Head(notifications).sid \in SessionIds
         /\ Head(notifications).cid \in ConnectionIds
         /\ notifications' = Tail(notifications)
         /\ Tail(notifications) \in Seq(Notification)
         /\ UNCHANGED <<sessionList, targets, targetList, accessLock, created>>
         /\ \E todo \in NotificationCalls(Head(notifications)) : Begin(Main, todo)
<1> DEFINE n == Head(notifications)
           names == {iqn \in IQNs : Exists(n.sid) /\ targetList[iqn] = n.sid}
<1>1. Main \in Clients /\ Idle(Main) /\ accessLock = None
  BY SessionManagerConstants DEF HandleNotification
<1>2. n \in Notification /\ Tail(notifications) \in Seq(Notification)
  BY HeadTailProperties DEF HandleNotification, TypeOK
<1>3. n.sid \in SessionIds /\ n.cid \in ConnectionIds
  BY <1>2 DEF Notification
<1>4. /\ notifications' = Tail(notifications)
      /\ UNCHANGED <<sessionList, targets, targetList, accessLock, created>>
  BY DEF HandleNotification
<1>5. \E todo \in NotificationCalls(n) : Begin(Main, todo)
  <2>1. \/ UNCHANGED calls
        \/ Begin(Main, ReleaseLost(n.sid, n.cid) \o <<Crash>>)
        \/ \E iqn \in names : Begin(Main, <<PortalCall(iqn, n.sid, n.cid)>>)
    BY DEF HandleNotification
  <2>2. CASE UNCHANGED calls
    <3>1. Begin(Main, <<>>)
      BY <1>1, <2>2 DEF Begin, Idle, TypeOK, Threads
    <3> QED
      BY <3>1 DEF NotificationCalls
  <2>3. CASE Begin(Main, ReleaseLost(n.sid, n.cid) \o <<Crash>>)
    BY <2>3 DEF NotificationCalls
  <2>4. CASE \E iqn \in names : Begin(Main, <<PortalCall(iqn, n.sid, n.cid)>>)
    BY <2>4 DEF NotificationCalls
  <2> QED
    BY <2>1, <2>2, <2>3, <2>4
<1> QED
  BY <1>1, <1>2, <1>3, <1>4, <1>5

LEMMA NotificationOutside ==
  ASSUME NEW n, n.sid \in SessionIds, n.cid \in ConnectionIds,
         NEW todo \in NotificationCalls(n)
  PROVE  todo \in Seq(AnyCall) /\ Outside(todo)
<1> DEFINE release == ReleaseLost(n.sid, n.cid)
<1>1. release \in Seq(AnyCall) /\ Outside(release)
  BY ReleaseLostOutside
<1> HIDE DEF release
<1>2. release \o <<Crash>> \in Seq(AnyCall) /\ Outside(release \o <<Crash>>)
  BY <1>1, CrashOutside, OutsideConcat
<1> QED
  BY <1>2, PortalCallOutside, NothingOutside DEF NotificationCalls, release

LEMMA HandleNotificationOK ==
  ASSUME IInv, HandleNotification
  PROVE  IInv'
<1> USE DEF IInv
<1> DEFINE n == Head(notifications)
<1>1. /\ Main \in Clients /\ Idle(Main)
      /\ n.sid \in SessionIds /\ n.cid \in ConnectionIds
      /\ notifications' \in Seq(Notification)
      /\ UNCHANGED <<sessionList, targets, targetList, accessLock, created>>
  BY NotificationBegins
<1>2. PICK todo \in NotificationCalls(n) : Begin(Main, todo)
  BY NotificationBegins
<1>3. todo \in Seq(AnyCall) /\ Outside(todo)
  BY <1>1, <1>2, NotificationOutside
<1>4. StacksOK'
  BY <1>1, <1>2, <1>3, BeginStep
<1>5. DataOK' /\ accessLock' \in Clients \cup {None}
  BY <1>1 DEF DataOK, TypeOK
<1> QED
  BY <1>4, <1>5, TogetherOK

-----------------------------------------------------------------------------
(* The theorems.                                                           *)

LEMMA InitOK ==
  ASSUME HBAInit
  PROVE  IInv
<1>1. TypeOK
  BY HBAConstants DEF HBAInit, TypeOK
<1>2. \A t \in Threads : calls[t] = <<>>
  BY DEF HBAInit
<1>3. Workloop \in Threads /\ Clients \subseteq Threads
  BY DEF Threads
<1>4. accessLock = None /\ \A t \in Clients : t # None
  BY HBAConstants DEF HBAInit
<1>5. UserClientExcludes
  BY <1>2, <1>3, <1>4 DEF UserClientExcludes, Nested, Inside
<1> QED
  BY <1>1, <1>5 DEF IInv

LEMMA NextOK ==
  ASSUME IInv, [Next]_hbaVars
  PROVE  IInv'
<1>1. CASE \E t \in Clients : ClientStep(t)
  BY <1>1, ClientStepOK
<1>2. CASE WorkloopStep
  BY <1>2, StepOK DEF WorkloopStep, Threads
<1>3. CASE ConnectionLost \/ ProcessAsyncMsg
  BY <1>3, ConnectionLostOK, ProcessAsyncMsgOK
<1>4. CASE \E iqn \in IQNs \ {DiscoveryIQN} :
             Login(iqn) \/ Logout(iqn) \/ QueryTarget(iqn)
  BY <1>4, LoginOK, LogoutOK, QueryTargetOK
<1>5. CASE HandleNotification \/ Discover
  BY <1>5, HandleNotificationOK, DiscoverOK
<1>6. CASE UNCHANGED hbaVars
  <2>1. UNCHANGED <<sessionList, targets, targetList, notifications, accessLock,
                    calls, created>>
    BY <1>6 DEF hbaVars
  <2>2. TypeOK'
    BY <2>1 DEF IInv, TypeOK
  <2>3. UserClientExcludes'
    BY <2>1 DEF IInv, UserClientExcludes, Inside, Nested
  <2> QED
    BY <2>2, <2>3 DEF IInv
<1> QED
  BY <1>1, <1>2, <1>3, <1>4, <1>5, <1>6 DEF Next, LiveStep

LEMMA Invariant == Spec => []IInv
<1>1. HBAInit => IInv
  BY InitOK
<1>2. IInv /\ [Next]_hbaVars => IInv'
  BY NextOK
<1> QED
  BY <1>1, <1>2, PTL DEF Spec

\* Every variable of the host bus adapter and of the session layer has its type
\* in every reachable state: no call is left without a session identifier and
\* connection identifier in range, or with a pointer that was never looked up,
\* and the number of active connections stays within its 32 bits.
THEOREM TypeCorrect == Spec => []TypeOK
<1>1. IInv => TypeOK
  BY DEF IInv
<1> QED
  BY <1>1, Invariant, PTL

\* accessLock is held by the thread that is inside the user client, if there is
\* one, and by no other: every call of iscsid into the kernel enters and leaves,
\* however its exchanges end, and no handler of the workloop ever enters.
THEOREM AccessLockExcludes == Spec => []UserClientExcludes
<1>1. IInv => UserClientExcludes
  BY DEF IInv
<1> QED
  BY <1>1, Invariant, PTL

-----------------------------------------------------------------------------
(* Names.                                                                  *)

\* Whether a slot of a session is in use.
Linked(sid, cid) == sessionList[sid].connections[cid] # "none"

\* A step that lets every session and every name be as they are, whatever becomes
\* of the connections and their number.
SameSessions ==
    \A sid \in SessionIds :
        /\ Exists(sid)' <=> Exists(sid)
        /\ Exists(sid) => /\ sessionList'[sid].gen = sessionList[sid].gen
                          /\ sessionList'[sid].iqn = sessionList[sid].iqn

\* What setting a connection's state does to the sessions and connections.
LEMMA SetConnectionLinks ==
  ASSUME TypeOK, NEW sid \in SessionIds, Exists(sid), NEW cid \in ConnectionIds,
         NEW state \in {"none", "idle", "enabled"}, SetConnection(sid, cid, state)
  PROVE  /\ SameSessions
         /\ \A s \in SessionIds, c \in ConnectionIds : Exists(s) =>
              (Linked(s, c)' <=> IF s = sid /\ c = cid THEN state # "none" ELSE Linked(s, c))
<1>1. sessionList[sid] \in Session
  BY DEF TypeOK, Exists
<1> DEFINE old == sessionList[sid]
           conns == [old.connections EXCEPT ![cid] = state]
           new == [old EXCEPT !.connections = conns]
<1>2. sessionList' = [sessionList EXCEPT ![sid] = new]
  BY DEF SetConnection
<1>3. /\ new.gen = old.gen /\ new.iqn = old.iqn /\ new.connections = conns
      /\ \A c \in ConnectionIds : conns[c] = IF c = cid THEN state ELSE old.connections[c]
  BY <1>1 DEF Session
<1>4. new # NoSession
  <2>1. conns \in [ConnectionIds -> {"none", "idle", "enabled"}]
    BY <1>1 DEF Session
  <2> HIDE DEF conns
  <2>2. new \in Session
    BY <1>1, <2>1 DEF Session
  <2> QED
    BY <2>2, NoSessionIsNone
<1> HIDE DEF new, conns
<1>5. sessionList'[sid] = new /\ \A s \in SessionIds : s # sid => sessionList'[s] = sessionList[s]
  BY <1>2 DEF TypeOK
<1> QED
  BY <1>3, <1>4, <1>5 DEF SameSessions, Exists, Linked

LEMMA AddToActiveLinks ==
  ASSUME TypeOK, NEW sid \in SessionIds, NEW gen, NEW n \in {1, -1}, AddToActive(sid, gen, n)
  PROVE  /\ SameSessions
         /\ \A s \in SessionIds, c \in ConnectionIds : Exists(s) => (Linked(s, c)' <=> Linked(s, c))
<1>1. CASE Alive(sid, gen)
  <2>1. sessionList[sid] \in Session
    BY <1>1 DEF TypeOK, Alive, Exists
  <2> DEFINE old == sessionList[sid]
             count == (old.active + n) % CountModulus
             new == [old EXCEPT !.active = count]
  <2>2. sessionList' = [sessionList EXCEPT ![sid] = new]
    BY <1>1 DEF AddToActive
  <2>3. new.gen = old.gen /\ new.iqn = old.iqn /\ new.connections = old.connections
    BY <2>1 DEF Session
  <2>4. sessionList'[sid] = new /\ \A s \in SessionIds : s # sid => sessionList'[s] = sessionList[s]
    BY <2>2 DEF TypeOK
  <2>5. new # NoSession
    <3>1. old.active + n \in Int /\ CountModulus \in Nat \ {0}
      BY <2>1, HBAConstants DEF Session
    <3>2. count \in 0 .. CountModulus - 1
      BY <3>1
    <3> HIDE DEF count
    <3>3. new \in Session
      BY <2>1, <3>2 DEF Session
    <3> QED
      BY <3>3, NoSessionIsNone
  <2> HIDE DEF new
  <2> QED
    BY <1>1, <2>3, <2>4, <2>5 DEF SameSessions, Exists, Linked, Alive
<1>2. CASE ~Alive(sid, gen)
  BY <1>2 DEF AddToActive, SameSessions, Exists, Linked
<1> QED
  BY <1>1, <1>2

LEMMA CreateSessionLinks ==
  ASSUME TypeOK, NEW iqn \in IQNs, CreateSession(iqn)
  PROVE  /\ NewSid \in SessionIds /\ ~Exists(NewSid)
         /\ sessionList'[NewSid] # NoSession /\ sessionList'[NewSid].iqn = iqn
         /\ \A s \in SessionIds \ {NewSid} : sessionList'[s] = sessionList[s]
         /\ targetList' = [targetList EXCEPT ![iqn] = NewSid]
<1> DEFINE new == [gen |-> created + 1, iqn |-> iqn, active |-> 0,
                   connections |-> [cid \in ConnectionIds |->
                                      IF cid = 0 THEN "idle" ELSE "none"]]
<1>1. /\ sessionList' = [sessionList EXCEPT ![NewSid] = new]
      /\ targetList' = [targetList EXCEPT ![iqn] = NewSid]
      /\ FreeSlots # {}
  BY DEF CreateSession, NewSid
<1>2. NewSid \in FreeSlots
  BY <1>1, MinOfIds, Ids DEF NewSid, FreeSlots
<1>3. NewSid \in SessionIds /\ ~Exists(NewSid)
  BY <1>2 DEF FreeSlots
<1>4. new \in Session /\ new.iqn = iqn
  <2>1. 0 \in 0 .. CountModulus - 1 /\ created + 1 \in 1 .. MaxCreated
    BY HBAConstants DEF CreateSession, TypeOK
  <2> QED
    BY <2>1 DEF Session
<1>5. new # NoSession
  BY <1>4, NoSessionIsNone
<1> HIDE DEF new
<1> QED
  BY <1>1, <1>3, <1>4, <1>5 DEF TypeOK

\* Where each call of a stack comes from, whose head is replaced.
Replacing(s, next, new) ==
    /\ new \in Seq(AnyCall) /\ Len(next) \in Nat /\ Len(s) \in Nat \ {0} /\ Head(s) = s[1]
    /\ Len(new) = Len(next) + Len(s) - 1
    /\ \A i \in 1 .. Len(next) : i \in 1 .. Len(new) /\ new[i] = next[i]
    /\ \A j \in 2 .. Len(s) : j - 1 + Len(next) \in 1 .. Len(new) /\ new[j - 1 + Len(next)] = s[j]
    /\ \A i \in 1 .. Len(new) : \/ i \in 1 .. Len(next)
                                \/ \E j \in 2 .. Len(s) : i = j - 1 + Len(next)

LEMMA Replaced ==
  ASSUME NEW s \in Seq(AnyCall), s # <<>>, NEW next \in Seq(AnyCall), NEW new, new = next \o Tail(s)
  PROVE  Replacing(s, next, new)
<1>1. /\ Tail(s) \in Seq(AnyCall) /\ Len(Tail(s)) = Len(s) - 1 /\ Head(s) = s[1]
      /\ \A i \in 1 .. Len(s) - 1 : Tail(s)[i] = s[i + 1]
  BY HeadTailProperties
<1>2. /\ new \in Seq(AnyCall)
      /\ Len(new) = Len(next) + Len(Tail(s))
      /\ \A i \in 1 .. Len(next) : new[i] = next[i]
      /\ \A i \in 1 .. Len(Tail(s)) : new[Len(next) + i] = Tail(s)[i]
  BY <1>1, ConcatProperties
<1>3. Len(next) \in Nat /\ Len(s) \in Nat \ {0}
  BY LenProperties, EmptySeq
<1>4. ASSUME NEW j \in 2 .. Len(s)
      PROVE  j - 1 + Len(next) \in 1 .. Len(new) /\ new[j - 1 + Len(next)] = s[j]
  <2>1. j - 1 \in 1 .. Len(s) - 1 /\ (j - 1) + 1 = j
    BY <1>3
  <2>2. new[Len(next) + (j - 1)] = s[j]
    BY <1>1, <1>2, <2>1
  <2>3. Len(next) + (j - 1) = j - 1 + Len(next)
    BY <1>3
  <2> QED
    BY <1>1, <1>2, <1>3, <2>1, <2>2, <2>3
<1>5. ASSUME NEW i \in 1 .. Len(new), i \notin 1 .. Len(next)
      PROVE  \E j \in 2 .. Len(s) : i = j - 1 + Len(next)
  <2>1. i \in Nat /\ i > Len(next) /\ i <= Len(next) + Len(s) - 1
    BY <1>1, <1>2, <1>3, <1>5
  <2>2. i - Len(next) + 1 \in 2 .. Len(s) /\ i = (i - Len(next) + 1) - 1 + Len(next)
    BY <1>3, <2>1
  <2> QED
    BY <2>2
<1>6. \A i \in 1 .. Len(next) : i \in 1 .. Len(new)
  BY <1>1, <1>2, <1>3
<1> QED
  BY <1>1, <1>2, <1>3, <1>4, <1>5, <1>6 DEF Replacing

-----------------------------------------------------------------------------
(* The names.  A name that stands for a slot that has just been emptied is *)
(* in the hand of a thread of the daemon, which holds accessLock, as long  *)
(* as no target drops a whole session: then the workloop frees none.       *)

Frees == {"ReleaseSession", "free", "removeName", "ReleaseConnectionMethod"}
NeverFrees ==
    \A i \in 1 .. Len(calls[Workloop]) : calls[Workloop][i].op \notin Frees

\* A number has one name.
OneName ==
    \A a, b \in IQNs : targetList[a] = targetList[b] /\ targetList[a] # None => a = b

\* What a name stands for, as NamesStandForSessions says, number by number.
StandsFor(iqn, sid) ==
    \/ Exists(sid) /\ sessionList[sid].iqn = iqn
    \/ /\ ~Exists(sid)
       /\ \E t \in Threads : Running(t, "removeName") /\ Head(calls[t]).sid = sid

Named ==
    /\ \A iqn \in IQNs, sid \in SessionIds : targetList[iqn] = sid => StandsFor(iqn, sid)
    /\ OneName
NamesInv == IInv /\ Named /\ NeverFrees

LEMMA NobodyRemoves ==
  ASSUME IInv, NeverFrees, accessLock = None, NEW t \in Threads
  PROVE  ~Running(t, "removeName")
<1>1. SUFFICES ASSUME Running(t, "removeName") PROVE FALSE
  OBVIOUS
<1>2. "removeName" \in Within /\ "removeName" \in KernelCalls /\ "removeName" \in Frees
  BY DEF Within, KernelCalls, LookUpCalls, Frees
<1>3. calls[t] # <<>> /\ Head(calls[t]).op = "removeName"
  BY <1>1 DEF Running
<1>4. CASE t \in Clients
  <2>1. Inside(t) /\ t # None
    BY <1>2, <1>3, <1>4, HBAConstants DEF Inside
  <2> QED
    BY <1>4, <2>1 DEF IInv, UserClientExcludes
<1>5. CASE t = Workloop
  <2>1. Head(calls[t]) = calls[t][1] /\ 1 \in 1 .. Len(calls[t])
    BY <1>3, HeadTailProperties, LenProperties, EmptySeq DEF IInv, TypeOK
  <2> QED
    BY <1>2, <1>3, <1>5, <2>1 DEF NeverFrees
<1> QED
  BY <1>4, <1>5 DEF Threads

\* A thread goes on whose next call is not to remove a name.
RemoversStay == \A u \in Threads : Running(u, "removeName") => calls'[u] = calls[u]

LEMMA OthersRemove ==
  ASSUME IInv, NEW t \in Threads, ~Running(t, "removeName"),
         NEW stack, calls' = [calls EXCEPT ![t] = stack]
  PROVE  RemoversStay
BY DEF RemoversStay, IInv, TypeOK

LEMMA SameNames ==
  ASSUME IInv, Named, SameSessions, RemoversStay,
         \A iqn \in IQNs : targetList'[iqn] \in {targetList[iqn], None}
  PROVE  Named'
<1>1. ASSUME NEW iqn \in IQNs, NEW sid \in SessionIds, targetList'[iqn] = sid
      PROVE  StandsFor(iqn, sid)'
  <2>1. targetList[iqn] = sid /\ StandsFor(iqn, sid)
    <3>1. sid # None
      BY HBAConstants DEF SessionIds
    <3> QED
      BY <1>1, <3>1 DEF Named
  <2>2. CASE Exists(sid) /\ sessionList[sid].iqn = iqn
    BY <2>2 DEF SameSessions, StandsFor
  <2>3. CASE ~Exists(sid) /\ \E t \in Threads : Running(t, "removeName") /\ Head(calls[t]).sid = sid
    <3>1. ~Exists(sid)'
      BY <2>3 DEF SameSessions
    <3>2. \E t \in Threads : Running(t, "removeName")' /\ Head(calls'[t]).sid = sid
      BY <2>3 DEF RemoversStay, Running
    <3> QED
      BY <3>1, <3>2 DEF StandsFor
  <2> QED
    BY <2>1, <2>2, <2>3 DEF StandsFor
<1>2. OneName'
  BY DEF Named, OneName
<1> QED
  BY <1>1, <1>2 DEF Named

\* A session is created when nobody is inside: every name stands for a session.
LEMMA CreateSessionNames ==
  ASSUME IInv, Named, NeverFrees, NEW iqn \in IQNs, CreateSession(iqn)
  PROVE  Named'
<1>1. \A t \in Threads : ~Running(t, "removeName")
  BY NobodyRemoves DEF CreateSession
<1>2. \A name \in IQNs : targetList[name] # None =>
         /\ targetList[name] \in SessionIds /\ Exists(targetList[name])
         /\ sessionList[targetList[name]].iqn = name
  BY <1>1 DEF Named, StandsFor, IInv, TypeOK
<1>3. targetList'[iqn] = NewSid /\ \A name \in IQNs \ {iqn} : targetList'[name] = targetList[name]
  BY CreateSessionLinks DEF IInv, TypeOK
<1>4. /\ NewSid \in SessionIds /\ ~Exists(NewSid)
      /\ sessionList'[NewSid] # NoSession /\ sessionList'[NewSid].iqn = iqn
      /\ \A s \in SessionIds \ {NewSid} : sessionList'[s] = sessionList[s]
  BY CreateSessionLinks DEF IInv
<1> DEFINE new == NewSid
<1> HIDE DEF new
<1>5. new # None /\ \A sid \in SessionIds : sid # None
  BY <1>4, HBAConstants DEF SessionIds, new
<1>6. \A name \in IQNs \ {iqn} : targetList'[name] # new
  BY <1>2, <1>3, <1>4, <1>5 DEF new
<1>7. ASSUME NEW name \in IQNs, NEW sid \in SessionIds, targetList'[name] = sid
      PROVE  StandsFor(name, sid)'
  <2>1. CASE sid = new
    <3>1. name = iqn
      BY <1>6, <1>7, <2>1
    <3>2. sessionList'[sid] # NoSession /\ sessionList'[sid].iqn = name
      BY <1>4, <2>1, <3>1 DEF new
    <3> QED
      BY <3>2 DEF StandsFor, Exists
  <2>2. CASE sid # new
    <3>1. targetList[name] = sid
      BY <1>3, <1>7, <2>2 DEF new
    <3>2. Exists(sid) /\ sessionList[sid].iqn = name /\ sessionList'[sid] = sessionList[sid]
      BY <1>2, <1>4, <1>5, <2>2, <3>1 DEF new
    <3> QED
      BY <3>2 DEF StandsFor, Exists
  <2> QED
    BY <2>1, <2>2
<1>8. OneName'
  BY <1>3, <1>6 DEF OneName, Named, new
<1> QED
  BY <1>7, <1>8 DEF Named

\* The slot is emptied, and the thread is about to remove its name ...
LEMMA FreeSessionNames ==
  ASSUME IInv, Named, NEW t \in Threads, FreeSession(t)
  PROVE  Named'
<1> DEFINE c == Head(calls[t])
           sid == c.sid
<1>1. sid \in SessionIds /\ calls[t] # <<>> /\ c.op = "free"
  <2>1. Running(t, "free") /\ "free" \in KernelCalls
    BY CallNames DEF FreeSession
  <2> QED
    BY <2>1, RunningType DEF IInv
<1>2. /\ sessionList' = [sessionList EXCEPT ![sid] = NoSession]
      /\ CallNext(t, <<Call("removeName", sid, c.cid)>>)
      /\ targetList' = targetList
  BY DEF FreeSession
<1>3. sessionList'[sid] = NoSession /\ \A s \in SessionIds \ {sid} : sessionList'[s] = sessionList[s]
  BY <1>1, <1>2 DEF IInv, TypeOK
<1> DEFINE d == Call("removeName", sid, c.cid)
           rest == Tail(calls[t])
<1>4. rest \in Seq(AnyCall) /\ d \in AnyCall /\ d.op = "removeName" /\ d.sid = sid
  <2>1. calls[t] \in Seq(AnyCall)
    BY DEF IInv, TypeOK
  <2>2. c \in SessionCall
    BY <1>1, HeadType, CallNames DEF IInv
  <2>3. "removeName" \in LookUpCalls /\ c.cid \in ConnectionIds
    BY <2>2 DEF LookUpCalls, SessionCall
  <2> QED
    BY <1>1, <2>1, <2>3, CallType, HeadTailProperties DEF AnyCall, Call
<1>5. calls'[t] = <<d>> \o rest
  BY <1>2 DEF CallNext, IInv, TypeOK
<1> HIDE DEF d, rest
<1>6. <<d>> \o rest # <<>> /\ Head(<<d>> \o rest) = d
  BY <1>4
<1>7. Running(t, "removeName")' /\ Head(calls'[t]).sid = sid
  BY <1>4, <1>5, <1>6 DEF Running
<1>8. RemoversStay
  <2>1. \E stack : calls' = [calls EXCEPT ![t] = stack]
    BY <1>2 DEF CallNext
  <2>2. ~Running(t, "removeName")
    BY <1>1 DEF Running
  <2> QED
    BY <2>1, <2>2, OthersRemove
<1> HIDE DEF sid, c
<1>9. ASSUME NEW iqn \in IQNs, NEW s \in SessionIds, targetList'[iqn] = s
      PROVE  StandsFor(iqn, s)'
  <2>1. StandsFor(iqn, s)
    BY <1>2, <1>9 DEF Named
  <2>2. CASE s = sid
    BY <1>3, <1>7, <2>2 DEF Exists, StandsFor
  <2>3. CASE s # sid /\ Exists(s) /\ sessionList[s].iqn = iqn
    BY <1>3, <2>3 DEF Exists, StandsFor
  <2>4. CASE s # sid /\ ~Exists(s) /\ \E u \in Threads : Running(u, "removeName") /\ Head(calls[u]).sid = s
    <3>1. ~Exists(s)'
      BY <1>3, <2>4 DEF Exists
    <3>2. \E u \in Threads : Running(u, "removeName")' /\ Head(calls'[u]).sid = s
      BY <1>8, <2>4 DEF RemoversStay, Running
    <3> QED
      BY <3>1, <3>2 DEF StandsFor
  <2> QED
    BY <2>1, <2>2, <2>3, <2>4 DEF StandsFor
<1>10. OneName'
  BY <1>2 DEF Named, OneName
<1> QED
  BY <1>9, <1>10 DEF Named

\* ... which is the only one.
LEMMA RemoveNameNames ==
  ASSUME IInv, Named, NEW t \in Threads, RemoveName(t)
  PROVE  Named'
<1> DEFINE sid == Head(calls[t]).sid
           names == {iqn \in IQNs : targetList[iqn] = sid}
<1>1. sid \in SessionIds
  <2>1. Running(t, "removeName") /\ "removeName" \in KernelCalls
    BY DEF RemoveName, KernelCalls, LookUpCalls
  <2> QED
    BY <2>1, RunningType DEF IInv
<1>2. /\ sessionList' = sessionList
      /\ \E stack : calls' = [calls EXCEPT ![t] = stack]
      /\ \/ names = {} /\ targetList' = targetList
         \/ \E iqn \in names : targetList' = [targetList EXCEPT ![iqn] = None]
  BY DEF RemoveName, Return, CallNext
<1>3. \A u \in Threads \ {t} : calls'[u] = calls[u]
  BY <1>2 DEF IInv, TypeOK
<1>4. sid # None
  BY <1>1, HBAConstants DEF SessionIds
<1>5. \A a, b \in names : a = b
  BY <1>4 DEF Named, OneName
<1>6. \A iqn \in IQNs : targetList'[iqn] # None =>
         targetList'[iqn] = targetList[iqn] /\ targetList[iqn] # sid
  BY <1>2, <1>5 DEF IInv, TypeOK
<1> HIDE DEF names
<1>7. ASSUME NEW iqn \in IQNs, NEW s \in SessionIds, targetList'[iqn] = s
      PROVE  StandsFor(iqn, s)'
  <2>1. s # sid /\ StandsFor(iqn, s)
    <3>1. s # None
      BY HBAConstants DEF SessionIds
    <3> QED
      BY <1>6, <1>7, <3>1 DEF Named
  <2>2. CASE Exists(s) /\ sessionList[s].iqn = iqn
    BY <1>2, <2>2 DEF Exists, StandsFor
  <2>3. CASE ~Exists(s) /\ \E u \in Threads : Running(u, "removeName") /\ Head(calls[u]).sid = s
    <3>1. PICK u \in Threads : Running(u, "removeName") /\ Head(calls[u]).sid = s
      BY <2>3
    <3>2. u # t
      BY <2>1, <3>1
    <3>3. ~Exists(s)' /\ Running(u, "removeName")' /\ Head(calls'[u]).sid = s
      BY <1>2, <1>3, <2>3, <3>1, <3>2 DEF Exists, Running
    <3> QED
      BY <3>3 DEF StandsFor
  <2> QED
    BY <2>1, <2>2, <2>3 DEF StandsFor
<1>8. OneName'
  BY <1>6 DEF Named, OneName
<1> QED
  BY <1>7, <1>8 DEF Named

\* A step of a call that frees no session.
LEMMA StepNames ==
  ASSUME IInv, NEW t \in Threads, Step(t), ~FreeSession(t), ~RemoveName(t)
  PROVE  SameSessions /\ targetList' = targetList
<1> DEFINE c == Head(calls[t])
<1>0. TypeOK
  BY DEF IInv
<1>1. CASE UNCHANGED <<sessionList, targetList>>
  BY <1>1 DEF SameSessions, Exists
<1>2. CASE ActivateConnection(t)
  <2>1. Running(t, "ActivateConnection") /\ "ActivateConnection" \in KernelCalls
    BY <1>2 DEF ActivateConnection, KernelCalls, LookUpCalls
  <2>2. c.sid \in SessionIds /\ c.cid \in ConnectionIds
    BY <2>1, <1>0, RunningType
  <2>3. Exists(c.sid) /\ SetConnection(c.sid, c.cid, "enabled") /\ targetList' = targetList
    BY <1>2 DEF ActivateConnection, Connected
  <2> QED
    BY <2>2, <2>3, <1>0, SetConnectionLinks
<1>3. CASE MountFirst(t)
  <2>1. Running(t, "mount") /\ "mount" \in KernelCalls
    BY <1>3, CallNames DEF MountFirst
  <2>2. c.sid \in SessionIds /\ c.cid \in ConnectionIds
    BY <2>1, <1>0, RunningType
  <2>3. /\ targetList' = targetList
        /\ \/ sessionList' = sessionList
           \/ Exists(c.sid) /\ SetConnection(c.sid, c.cid, "idle")
    BY <1>3 DEF MountFirst, Alive
  <2> QED
    BY <1>1, <2>2, <2>3, <1>0, SetConnectionLinks
<1>4. CASE CountActive(t) \/ CountInactive(t)
  <2>1. PICK op \in {"increment", "decrement"} : Running(t, op)
    BY <1>4 DEF CountActive, CountInactive
  <2>2. c.sid \in SessionIds
    BY <2>1, CallNames, <1>0, RunningType
  <2>3. targetList' = targetList /\ \E n \in {1, -1} : AddToActive(c.sid, c.gen, n)
    BY <1>4 DEF CountActive, CountInactive
  <2> QED
    BY <2>2, <2>3, <1>0, AddToActiveLinks
<1>5. CASE DeactivateConnection(t)
  <2>1. Running(t, "DeactivateConnection") /\ "DeactivateConnection" \in KernelCalls
    BY <1>5 DEF DeactivateConnection, KernelCalls, LookUpCalls
  <2>2. c.sid \in SessionIds /\ c.cid \in ConnectionIds
    BY <2>1, <1>0, RunningType
  <2>3. Exists(c.sid) /\ SetConnection(c.sid, c.cid, "idle") /\ targetList' = targetList
    BY <1>5 DEF DeactivateConnection, Connected
  <2> QED
    BY <2>2, <2>3, <1>0, SetConnectionLinks
<1>6. CASE UnlinkConnection(t)
  <2>1. Running(t, "unlink") /\ "unlink" \in KernelCalls
    BY <1>6, CallNames DEF UnlinkConnection
  <2>2. c.sid \in SessionIds /\ c.cid \in ConnectionIds
    BY <2>1, <1>0, RunningType
  <2>3. /\ targetList' = targetList
        /\ \/ sessionList' = sessionList
           \/ Exists(c.sid) /\ SetConnection(c.sid, c.cid, "none")
    BY <1>6 DEF UnlinkConnection, Alive
  <2> QED
    BY <1>1, <2>2, <2>3, <1>0, SetConnectionLinks
<1> HIDE DEF c
<1>7. CASE \/ EnterUserClient(t) \/ LeaveUserClient(t) \/ UnmountLast(t) \/ DeactivateAllConnections(t)
            \/ ReleaseConnection(t) \/ RemoveEventSources(t) \/ ReleaseSession(t)
            \/ ReleaseConnectionMethod(t) \/ HandleConnectionTimeout(t) \/ SendTimeoutNotification(t)
            \/ SendAsyncNotification(t) \/ LookUpFails(t)
  <2>1. UNCHANGED <<sessionList, targetList>>
    BY <1>7 DEF EnterUserClient, LeaveUserClient, UnmountLast, DeactivateAllConnections, ReleaseConnection,
                RemoveEventSources, ReleaseSession, ReleaseConnectionMethod, HandleConnectionTimeout,
                SendTimeoutNotification, SendAsyncNotification, LookUpFails
  <2> QED
    BY <1>1, <2>1
<1> QED
  BY <1>1, <1>2, <1>3, <1>4, <1>5, <1>6, <1>7 DEF Step

\* What the daemon's threads and the workloop do besides.
LEMMA CreateConnectionLinks ==
  ASSUME IInv, NEW sid \in SessionIds, CreateConnection(sid)
  PROVE  /\ SameSessions /\ targetList' = targetList /\ accessLock = None
         /\ \A s \in SessionIds, c \in ConnectionIds : Exists(s) /\ Linked(s, c) => Linked(s, c)'
<1>1. /\ Exists(sid) /\ NewCid(sid) \in ConnectionIds
      /\ SetConnection(sid, NewCid(sid), "idle")
      /\ accessLock = None /\ targetList' = targetList
  BY FreeConnectionIsId DEF CreateConnection, NewCid
<1> QED
  BY <1>1, SetConnectionLinks DEF IInv

LEMMA StepCalls ==
  ASSUME NEW t \in Threads, Step(t)
  PROVE  /\ \E next : CallNext(t, next)
         /\ Running(t, "removeName") => RemoveName(t)
<1>1. CASE \/ EnterUserClient(t) \/ LeaveUserClient(t) \/ ActivateConnection(t) \/ MountFirst(t)
           \/ CountActive(t) \/ DeactivateConnection(t) \/ CountInactive(t) \/ UnmountLast(t)
  BY <1>1 DEF EnterUserClient, LeaveUserClient, ActivateConnection, MountFirst, CountActive,
              DeactivateConnection, CountInactive, UnmountLast, Return, Running
<1>2. CASE DeactivateAllConnections(t) \/ ReleaseSession(t)
  BY <1>2 DEF DeactivateAllConnections, ReleaseSession, Running
<1>3. CASE ReleaseConnection(t)
  BY <1>3 DEF ReleaseConnection, Running
<1>4. CASE UnlinkConnection(t) \/ RemoveEventSources(t) \/ FreeSession(t) \/ RemoveName(t)
  BY <1>4 DEF UnlinkConnection, RemoveEventSources, FreeSession, RemoveName, Return, Running
<1>5. CASE ReleaseConnectionMethod(t) \/ HandleConnectionTimeout(t)
  BY <1>5 DEF ReleaseConnectionMethod, HandleConnectionTimeout, Running
<1>6. CASE SendTimeoutNotification(t) \/ SendAsyncNotification(t) \/ LookUpFails(t)
  BY <1>6 DEF SendTimeoutNotification, SendAsyncNotification, LookUpFails, Return, Running
<1> QED
  BY <1>1, <1>2, <1>3, <1>4, <1>5, <1>6 DEF Step

LEMMA StepKeepsNames ==
  ASSUME IInv, Named, NEW t \in Threads, Step(t)
  PROVE  Named'
<1>1. CASE FreeSession(t)
  BY <1>1, FreeSessionNames
<1>2. CASE RemoveName(t)
  BY <1>2, RemoveNameNames
<1>3. CASE ~FreeSession(t) /\ ~RemoveName(t)
  <2>1. SameSessions /\ targetList' = targetList
    BY <1>3, StepNames
  <2>2. RemoversStay
    BY <1>3, StepCalls, OthersRemove DEF CallNext
  <2> QED
    BY <2>1, <2>2, SameNames
<1> QED
  BY <1>1, <1>2, <1>3

LEMMA SessionListKept ==
  ASSUME IInv, Named, RemoversStay, UNCHANGED <<sessionList, targetList>>
  PROVE  Named'
<1>1. SameSessions
  BY DEF SameSessions, Exists
<1> QED
  BY <1>1, SameNames

LEMMA CreateOrFailNames ==
  ASSUME IInv, Named, NeverFrees, NEW iqn \in IQNs, CreateSession(iqn) \/ CreateSessionFails(iqn)
  PROVE  Named'
<1>1. CASE CreateSessionFails(iqn)
  <2>1. sessionList' = sessionList /\ \A name \in IQNs : targetList'[name] \in {targetList[name], None}
    BY <1>1 DEF CreateSessionFails, IInv, TypeOK
  <2>2. SameSessions
    BY <2>1 DEF SameSessions, Exists
  <2>3. RemoversStay
    BY <1>1, NobodyRemoves DEF CreateSessionFails, RemoversStay
  <2> QED
    BY <2>1, <2>2, <2>3, SameNames
<1> QED
  BY <1>1, CreateSessionNames

\* A call of the daemon that runs, and one that begins, is not to remove a name.
LEMMA ExchangeRemoves ==
  ASSUME NEW t \in Clients,
         LoginExchange(t) \/ Exchange(t) \/ LogoutExchange(t) \/ DiscoveryLogin(t) \/ CopyPortal(t)
  PROVE  /\ UNCHANGED <<sessionList, targetList>> /\ ~Running(t, "removeName")
         /\ \E next : CallNext(t, next)
<1>1. CASE LoginExchange(t) \/ LogoutExchange(t)
  BY <1>1 DEF LoginExchange, LogoutExchange, Running, Return
<1>2. CASE Exchange(t) \/ DiscoveryLogin(t)
  BY <1>2 DEF Exchange, DiscoveryLogin, Running, Return
<1>3. CASE CopyPortal(t)
  BY <1>3 DEF CopyPortal, Running
<1> QED
  BY <1>1, <1>2, <1>3

LEMMA ClientStepNames ==
  ASSUME IInv, Named, NeverFrees, NEW t \in Clients, ClientStep(t)
  PROVE  Named'
<1>1. CASE Step(t)
  BY <1>1, StepKeepsNames DEF Threads
<1>2. CASE SessionLogin(t)
  <2>1. Head(calls[t]).iqn \in IQNs
    BY <1>2, DaemonCallType DEF SessionLogin, DaemonCalls, IInv
  <2> QED
    BY <1>2, <2>1, CreateOrFailNames DEF SessionLogin
<1>3. CASE SessionAddConnection(t)
  <2> DEFINE sid == targetList[Head(calls[t]).iqn]
  <2>1. Head(calls[t]).iqn \in IQNs
    BY <1>3, DaemonCallType DEF SessionAddConnection, DaemonCalls, IInv
  <2>2. sid \in SessionIds
    BY <1>3, <2>1 DEF SessionAddConnection, IInv, TypeOK
  <2>3. CreateConnection(sid) \/ UNCHANGED <<sessionList, targetList>>
    BY <1>3 DEF SessionAddConnection
  <2>4. RemoversStay
    BY <1>3, NobodyRemoves DEF SessionAddConnection, RemoversStay
  <2> HIDE DEF sid
  <2>5. CASE CreateConnection(sid)
    <3>1. SameSessions /\ targetList' = targetList
      BY <2>2, <2>5, CreateConnectionLinks
    <3> QED
      BY <2>4, <3>1, SameNames
  <2> QED
    BY <2>3, <2>4, <2>5, SessionListKept
<1>4. CASE LoginExchange(t) \/ Exchange(t) \/ LogoutExchange(t) \/ DiscoveryLogin(t) \/ CopyPortal(t)
  <2>1. UNCHANGED <<sessionList, targetList>>
    BY <1>4, ExchangeRemoves
  <2>2. RemoversStay
    BY <1>4, ExchangeRemoves, OthersRemove DEF CallNext, Threads
  <2> QED
    BY <2>1, <2>2, SessionListKept
<1> QED
  BY <1>1, <1>2, <1>3, <1>4 DEF ClientStep

LEMMA BeginNames ==
  ASSUME IInv, Named, NEW t \in Threads, calls[t] = <<>>,
         NEW todo, calls' = [calls EXCEPT ![t] = todo], UNCHANGED <<sessionList, targetList>>
  PROVE  Named'
<1>1. ~Running(t, "removeName")
  BY DEF Running
<1> QED
  BY <1>1, OthersRemove, SessionListKept

LEMMA NextNames ==
  ASSUME IInv, Named, NeverFrees, [Next]_hbaVars
  PROVE  Named'
<1>0. Main \in Threads /\ Workloop \in Threads
  BY SessionManagerConstants DEF Threads
<1>1. CASE \E t \in Clients : ClientStep(t)
  BY <1>1, ClientStepNames
<1>2. CASE WorkloopStep
  BY <1>2, StepKeepsNames DEF WorkloopStep, Threads
<1>3. CASE ConnectionLost \/ ProcessAsyncMsg
  <2>1. PICK handler : StartHandler(handler)
    BY <1>3 DEF ConnectionLost, ProcessAsyncMsg
  <2> QED
    BY <1>0, <2>1, BeginNames DEF StartHandler
<1>4. CASE \E iqn \in IQNs \ {DiscoveryIQN} : Login(iqn) \/ Logout(iqn) \/ QueryTarget(iqn)
  <2>1. PICK iqn \in IQNs : Login(iqn) \/ Logout(iqn) \/ QueryTarget(iqn)
    BY <1>4
  <2>2. CASE QueryTarget(iqn)
    BY <2>2, CreateOrFailNames DEF QueryTarget
  <2>3. CASE Login(iqn) \/ Logout(iqn)
    BY <1>0, <2>3, BeginNames DEF Login, Logout, Begin, Idle
  <2> QED
    BY <2>1, <2>2, <2>3
<1>5. CASE HandleNotification
  <2>1. UNCHANGED <<sessionList, targetList>> /\ Idle(Main)
    BY <1>5, NotificationBegins DEF IInv
  <2>2. PICK todo : Begin(Main, todo)
    BY <1>5, NotificationBegins DEF IInv
  <2> QED
    BY <1>0, <2>1, <2>2, BeginNames DEF Begin, Idle
<1>6. CASE Discover
  <2>1. CreateSession(DiscoveryIQN) \/ CreateSessionFails(DiscoveryIQN)
    BY <1>6 DEF Discover
  <2> QED
    BY <2>1, CreateOrFailNames, SessionManagerConstants
<1>7. CASE UNCHANGED hbaVars
  <2>1. UNCHANGED <<sessionList, targetList, calls>>
    BY <1>7 DEF hbaVars
  <2>2. RemoversStay
    BY <2>1 DEF RemoversStay
  <2> QED
    BY <2>1, <2>2, SessionListKept
<1> QED
  BY <1>1, <1>2, <1>3, <1>4, <1>5, <1>6, <1>7 DEF Next, LiveStep

\* The workloop frees no session.
LEMMA HandlerNext ==
  ASSUME IInv, NeverFrees, calls[Workloop] # <<>>, NEW next \in Seq(AnyCall),
         \A i \in 1 .. Len(next) : next[i].op \notin Frees, CallNext(Workloop, next)
  PROVE  NeverFrees'
<1> DEFINE s == calls[Workloop]
           new == next \o Tail(s)
<1>1. s \in Seq(AnyCall) /\ calls'[Workloop] = new
  BY DEF IInv, TypeOK, CallNext, Threads
<1>2. Replacing(s, next, new)
  BY <1>1, Replaced
<1> HIDE DEF new
<1>3. ASSUME NEW i \in 1 .. Len(new)
      PROVE  new[i].op \notin Frees
  <2>1. CASE i \in 1 .. Len(next)
    BY <1>2, <2>1 DEF Replacing
  <2>2. CASE \E j \in 2 .. Len(s) : i = j - 1 + Len(next)
    <3>1. PICK j \in 2 .. Len(s) : i = j - 1 + Len(next)
      BY <2>2
    <3>2. new[i] = s[j] /\ j \in 1 .. Len(s)
      BY <1>2, <3>1 DEF Replacing
    <3> QED
      BY <3>2 DEF NeverFrees
  <2> QED
    BY <1>2, <2>1, <2>2 DEF Replacing
<1> QED
  BY <1>1, <1>3 DEF NeverFrees

LEMMA HandlerReturns ==
  ASSUME IInv, NeverFrees, calls[Workloop] # <<>>, Return(Workloop)
  PROVE  NeverFrees'
<1>1. <<>> \in Seq(AnyCall) /\ \A i \in 1 .. Len(<<>>) : <<>>[i].op \notin Frees
  BY KernelCallSequences
<1>2. CallNext(Workloop, <<>>)
  BY DEF Return
<1> QED
  BY <1>1, <1>2, HandlerNext

LEMMA HandlerStepFrees ==
  ASSUME IInv, NeverFrees, Step(Workloop)
  PROVE  NeverFrees'
<1> DEFINE t == Workloop
           c == Head(calls[t])
<1>0. TypeOK /\ t \in Threads
  BY DEF IInv, Threads
<1>1. calls[t] # <<>>
  BY StepCalls DEF Step, EnterUserClient, LeaveUserClient, ActivateConnection, MountFirst, CountActive,
        DeactivateConnection, CountInactive, UnmountLast, DeactivateAllConnections, ReleaseConnection,
        UnlinkConnection, RemoveEventSources, ReleaseSession, FreeSession, RemoveName,
        ReleaseConnectionMethod, HandleConnectionTimeout, SendTimeoutNotification,
        SendAsyncNotification, LookUpFails, Running
<1>2. c = calls[t][1] /\ c.op \notin Frees
  <2>1. c = calls[t][1] /\ 1 \in 1 .. Len(calls[t])
    BY <1>0, <1>1, HeadTailProperties, LenProperties, EmptySeq DEF TypeOK
  <2> QED
    BY <2>1 DEF NeverFrees
<1>3. CASE Return(t)
  BY <1>1, <1>3, HandlerReturns
<1>4. CASE ActivateConnection(t) \/ MountFirst(t)
  <2>1. PICK op \in {"mount", "increment"} : CallNext(t, <<Rest(op, c)>>) \/ Return(t)
    BY <1>4 DEF ActivateConnection, MountFirst
  <2>2. PICK run \in {"ActivateConnection", "mount"} :
           Running(t, run) /\ (run = "ActivateConnection" => Exists(c.sid))
    BY <1>4 DEF ActivateConnection, MountFirst, Connected
  <2>3. run \in KernelCalls /\ op \in PointerCalls /\ (run = "mount" => run \in PointerCalls)
    BY CallNames DEF LookUpCalls
  <2>4. c \in SessionCall /\ c.op = run /\ (run = "mount" => c.gen \in 1 .. MaxCreated)
    BY <1>0, <2>2, <2>3, RunningType
  <2>5. c.gen = 0 => Exists(c.sid)
    BY <2>2, <2>4, HBAConstants
  <2>6. Rest(op, c) \in AnyCall /\ Rest(op, c).op = op
    BY <1>0, <2>3, <2>4, <2>5, RestType DEF AnyCall
  <2> DEFINE d == Rest(op, c)
             next == <<d>>
  <2> HIDE DEF d
  <2>7. next \in Seq(AnyCall) /\ \A i \in 1 .. Len(next) : next[i].op \notin Frees
    BY <2>6 DEF Frees, d
  <2>8. CallNext(t, next) \/ Return(t)
    BY <2>1 DEF d
  <2> HIDE DEF next
  <2> QED
    BY <1>1, <2>7, <2>8, HandlerNext, HandlerReturns
<1>5. CASE DeactivateConnection(t) \/ HandleConnectionTimeout(t)
  <2>1. PICK op \in {"DeactivateConnection", "HandleConnectionTimeout"} :
           Running(t, op) /\ Exists(c.sid)
    BY <1>5 DEF DeactivateConnection, HandleConnectionTimeout, Connected
  <2>2. op \in KernelCalls
    BY CallNames DEF LookUpCalls
  <2>3. c \in SessionCall /\ c.sid \in SessionIds /\ c.cid \in ConnectionIds
    BY <1>0, <2>1, <2>2, RunningType
  <2>4. /\ \A rest \in PointerCalls : Rest(rest, c) \in AnyCall /\ Rest(rest, c).op = rest
        /\ \A call \in LookUpCalls :
              Call(call, c.sid, c.cid) \in AnyCall /\ Call(call, c.sid, c.cid).op = call
    BY <1>0, <2>1, <2>3, RestType, CallType DEF AnyCall
  <2>5. PICK d, e \in AnyCall : d.op \notin Frees /\ e.op \notin Frees /\ CallNext(t, <<d, e>>)
    <3>1. CASE DeactivateConnection(t)
      <4>1. CallNext(t, <<Rest("decrement", c), Rest("unmount", c)>>)
        BY <3>1 DEF DeactivateConnection
      <4> QED
        BY <2>4, <4>1, CallNames DEF Frees
    <3>2. CASE HandleConnectionTimeout(t)
      <4>1. PICK call \in {"DeactivateConnection", "DeactivateAllConnections"} :
               CallNext(t, <<Call(call, c.sid, c.cid), Rest("notifyTimeout", c)>>)
        BY <3>2 DEF HandleConnectionTimeout
      <4>2. call \in LookUpCalls /\ "notifyTimeout" \in PointerCalls /\ call \notin Frees
        BY CallNames DEF LookUpCalls, Frees
      <4> QED
        BY <2>4, <4>1, <4>2 DEF Frees
    <3> QED
      BY <1>5, <3>1, <3>2
  <2> DEFINE next == <<d, e>>
  <2>6. next \in Seq(AnyCall) /\ \A i \in 1 .. Len(next) : next[i].op \notin Frees
    BY <2>5
  <2> HIDE DEF next
  <2> QED
    BY <1>1, <2>5, <2>6, HandlerNext DEF next
<1>6. CASE DeactivateAllConnections(t)
  <2> DEFINE next == ForConnections("DeactivateConnection", c.sid)
  <2>1. Running(t, "DeactivateAllConnections") /\ "DeactivateAllConnections" \in KernelCalls
    BY <1>6, CallNames DEF DeactivateAllConnections, LookUpCalls
  <2>2. c.sid \in SessionIds /\ CallNext(t, next)
    BY <1>0, <1>6, <2>1, RunningType DEF DeactivateAllConnections
  <2>3. next \in Seq(AnyCall) /\ Len(next) = MaxConnections
    BY <2>2, ForConnectionsType DEF LookUpCalls
  <2>4. \A i \in 1 .. Len(next) : next[i].op \notin Frees
    BY <2>3 DEF ForConnections, Call, Frees
  <2> HIDE DEF next
  <2> QED
    BY <1>1, <2>2, <2>3, <2>4, HandlerNext
<1>7. CASE ReleaseConnection(t)
  <2>1. Running(t, "ReleaseConnection") /\ "ReleaseConnection" \in KernelCalls /\ Exists(c.sid)
    BY <1>7, CallNames DEF ReleaseConnection, LookUpCalls, Connected
  <2>2. c \in SessionCall /\ c.sid \in SessionIds /\ c.cid \in ConnectionIds
    BY <1>0, <2>1, RunningType
  <2> DEFINE d == Call("DeactivateConnection", c.sid, c.cid)
             e == Rest("unlink", c)
             f == Rest("removeEventSources", c)
  <2>3. d \in AnyCall /\ d.op \notin Frees
    BY <2>2, CallType DEF AnyCall, LookUpCalls, Frees
  <2>4. e \in AnyCall /\ f \in AnyCall /\ e.op \notin Frees /\ f.op \notin Frees
    BY <1>0, <2>1, <2>2, RestType, CallNames DEF AnyCall, Frees
  <2>5. CallNext(t, (IF c.cid \in Enabled(c.sid) THEN <<d>> ELSE <<>>) \o <<e, f>>)
    BY <1>7 DEF ReleaseConnection
  <2> HIDE DEF d, e, f, c
  <2> DEFINE first == IF c.cid \in Enabled(c.sid) THEN <<d>> ELSE <<>>
             rest == <<e, f>>
             next == first \o rest
  <2>6. first \in Seq(AnyCall) /\ \A i \in 1 .. Len(first) : first[i].op \notin Frees
    BY <2>3
  <2>7. rest \in Seq(AnyCall) /\ \A i \in 1 .. Len(rest) : rest[i].op \notin Frees
    BY <2>4
  <2> HIDE DEF first, rest
  <2>8. /\ next \in Seq(AnyCall) /\ Len(next) = Len(first) + Len(rest)
        /\ \A i \in 1 .. Len(first) : next[i] = first[i]
        /\ \A i \in 1 .. Len(rest) : next[Len(first) + i] = rest[i]
    BY <2>6, <2>7, ConcatProperties
  <2>9. Len(first) \in Nat /\ Len(rest) \in Nat
    BY <2>6, <2>7, LenProperties
  <2> HIDE DEF next
  <2>10. ASSUME NEW i \in 1 .. Len(next)
         PROVE  next[i].op \notin Frees
    <3>1. CASE i =< Len(first)
      BY <2>6, <2>8, <2>9, <3>1
    <3>2. CASE i > Len(first)
      <4>1. i - Len(first) \in 1 .. Len(rest) /\ i = Len(first) + (i - Len(first))
        BY <2>8, <2>9, <3>2
      <4>2. next[i] = rest[i - Len(first)]
        BY <2>8, <4>1
      <4> QED
        BY <2>7, <4>1, <4>2
    <3> QED
      BY <2>8, <2>9, <3>1, <3>2
  <2>11. CallNext(t, next)
    BY <2>5 DEF next, first, rest
  <2> QED
    BY <1>1, <2>8, <2>10, <2>11, HandlerNext
<1>8. CASE \/ EnterUserClient(t) \/ LeaveUserClient(t) \/ CountActive(t) \/ CountInactive(t)
           \/ UnmountLast(t) \/ UnlinkConnection(t) \/ RemoveEventSources(t)
           \/ SendTimeoutNotification(t) \/ SendAsyncNotification(t) \/ LookUpFails(t)
  BY <1>3, <1>8 DEF EnterUserClient, LeaveUserClient, CountActive, CountInactive, UnmountLast,
                    UnlinkConnection, RemoveEventSources, SendTimeoutNotification,
                    SendAsyncNotification, LookUpFails
<1>9. CASE ReleaseSession(t) \/ FreeSession(t) \/ RemoveName(t) \/ ReleaseConnectionMethod(t)
  BY <1>2, <1>9 DEF ReleaseSession, FreeSession, RemoveName, ReleaseConnectionMethod, Running, Frees
<1> QED
  BY <1>4, <1>5, <1>6, <1>7, <1>8, <1>9 DEF Step

LEMMA NextFrees ==
  ASSUME IInv, NeverFrees, "dropAllConnections" \notin AsyncEvents, [Next]_hbaVars
  PROVE  NeverFrees'
<1>1. ASSUME NEW t \in Clients, NEW stack, calls' = [calls EXCEPT ![t] = stack]
      PROVE  NeverFrees'
  <2>1. calls'[Workloop] = calls[Workloop]
    BY <1>1, HBAConstants DEF IInv, TypeOK, Threads
  <2> QED
    BY <2>1 DEF NeverFrees
<1>2. Main \in Clients /\ Discovery \in Clients
  BY SessionManagerConstants
<1>3. CASE \E t \in Clients : ClientStep(t)
  <2>1. PICK t \in Clients : ClientStep(t)
    BY <1>3
  <2>2. CASE Step(t)
    BY <1>1, <2>2, StepCalls DEF CallNext, Threads
  <2>3. CASE SessionLogin(t) \/ SessionAddConnection(t)
    <3>1. \E next : CallNext(t, next)
      BY <2>3 DEF SessionLogin, SessionAddConnection, Return
    <3> QED
      BY <1>1, <3>1 DEF CallNext
  <2>4. CASE LoginExchange(t) \/ Exchange(t) \/ LogoutExchange(t) \/ DiscoveryLogin(t) \/ CopyPortal(t)
    BY <1>1, <2>4, ExchangeRemoves DEF CallNext
  <2> QED
    BY <2>1, <2>2, <2>3, <2>4 DEF ClientStep
<1>4. CASE WorkloopStep
  BY <1>4, HandlerStepFrees DEF WorkloopStep
<1>5. ASSUME NEW handler, StartHandler(handler), \A i \in 1 .. Len(handler) : handler[i].op \notin Frees
      PROVE  NeverFrees'
  <2>1. calls'[Workloop] = handler
    BY <1>5 DEF StartHandler, IInv, TypeOK, Threads
  <2> QED
    BY <1>5, <2>1 DEF NeverFrees
<1>6. CASE ConnectionLost
  <2>1. PICK sid \in SessionIds, cid \in ConnectionIds, failures \in {1, 2} :
           StartHandler([i \in 1 .. failures |-> Call("HandleConnectionTimeout", sid, cid)])
    BY <1>6 DEF ConnectionLost
  <2> DEFINE handler == [i \in 1 .. failures |-> Call("HandleConnectionTimeout", sid, cid)]
  <2>2. Len(handler) = failures
    BY DEF Call
  <2>3. \A i \in 1 .. Len(handler) : handler[i].op \notin Frees
    BY <2>2 DEF Call, Frees
  <2> QED
    BY <1>5, <2>1, <2>3
<1>7. CASE ProcessAsyncMsg
  <2>1. PICK sid \in SessionIds, cid \in ConnectionIds, event \in AsyncEvents :
           StartHandler(<<AsyncCall(event, sid, cid), Rest("notifyAsync", Call(event, sid, cid))>>)
    BY <1>7 DEF ProcessAsyncMsg
  <2>2. event \in {"dropConnection", "logout"}
    BY HBAConstants
  <2>3. AsyncCall(event, sid, cid).op \notin Frees
    BY <2>2 DEF AsyncCall, Call, Frees
  <2>4. Rest("notifyAsync", Call(event, sid, cid)).op \notin Frees
    BY DEF Rest, Frees
  <2> QED
    BY <1>5, <2>1, <2>3, <2>4
<1>8. CASE \E iqn \in IQNs \ {DiscoveryIQN} : Login(iqn) \/ Logout(iqn) \/ QueryTarget(iqn)
  <2>1. (\E stack : calls' = [calls EXCEPT ![Main] = stack]) \/ UNCHANGED calls
    BY <1>8 DEF Login, Logout, QueryTarget, Begin
  <2> QED
    BY <1>1, <1>2, <2>1 DEF NeverFrees
<1>9. CASE HandleNotification
  BY <1>1, <1>2, <1>9, NotificationBegins DEF Begin, IInv
<1>10. CASE Discover
  <2>1. (\E stack : calls' = [calls EXCEPT ![Discovery] = stack]) \/ UNCHANGED calls
    BY <1>10 DEF Discover, Begin
  <2> QED
    BY <1>1, <1>2, <2>1 DEF NeverFrees
<1>11. CASE UNCHANGED hbaVars
  BY <1>11 DEF hbaVars, NeverFrees
<1> QED
  BY <1>3, <1>4, <1>6, <1>7, <1>8, <1>9, <1>10, <1>11 DEF Next, LiveStep

\* As long as no target drops a whole session by an asynchronous message, the
\* dictionary of targets agrees with the slots in every reachable state, whatever
\* order sessions are created and released in by the daemon's threads: a name stands
\* for a session of that name, or for a slot that has just been emptied by the thread
\* that has still to remove the name (iSCSIVirtualHBA::CreateSession, ReleaseSession).
THEOREM NamesAgree ==
  ASSUME "dropAllConnections" \notin AsyncEvents
  PROVE  Spec => []NamesStandForSessions
<1>1. HBAInit => NamesInv
  <2>1. HBAInit => Named /\ NeverFrees
    BY HBAConstants DEF HBAInit, Named, OneName, NeverFrees, Threads, SessionIds
  <2> QED
    BY <2>1, InitOK DEF NamesInv
<1>2. NamesInv /\ [Next]_hbaVars => NamesInv'
  BY NextOK, NextNames, NextFrees DEF NamesInv
<1>3. NamesInv => NamesStandForSessions
  BY DEF NamesInv, Named, NamesStandForSessions, StandsFor, IInv, TypeOK
<1> QED
  BY <1>1, <1>2, <1>3, PTL DEF Spec

-----------------------------------------------------------------------------
(* The order of the calls on a stack, and what they point to.              *)

\* Calls after which a thread has nothing more to do with a session: no pointer is
\* below them on the stack.
LastCalls == {"ActivateConnection", "mount", "increment", "ReleaseSession", "free",
              "ReleaseConnectionMethod"}
\* Calls that a handler of the workloop makes, as long as no target drops a session
\* or connection by an asynchronous message.
HandlerCalls == {"HandleConnectionTimeout", "DeactivateConnection",
                 "DeactivateAllConnections", "decrement", "unmount",
                 "notifyTimeout", "notifyAsync"}

Removes(c, sid, cid) ==
    c.op \in {"ReleaseConnection", "unlink"} /\ c.sid = sid /\ c.cid = cid
Waits(c, sid) == c.op = "removeEventSources" /\ c.sid = sid

\* The order of a stack: pointers within the method that got them, none after one of
\* the last calls, and after a connection is taken out of its session the wait for
\* the gate.
Ordered(s) ==
    /\ \A i \in 1 .. Len(s) : s[i].op \in PointerCalls =>
          \A j \in 1 .. i : s[j].op \in KernelCalls
    /\ \A i, j \in 1 .. Len(s) :
          i < j /\ s[i].op \in LastCalls => s[j].op \notin PointerCalls
    /\ \A i \in 1 .. Len(s) :
          s[i].op = "unlink" => i < Len(s) /\ Waits(s[i + 1], s[i].sid)

\* Its pointers are to sessions that are there, and before a session is freed all
\* its connections are removed.
PointersLive(s) ==
    \A i \in 1 .. Len(s) : s[i].op \in PointerCalls => Alive(s[i].sid, s[i].gen)
FreesEmptied(s) ==
    \A i \in 1 .. Len(s) : s[i].op = "free" =>
        \A cid \in ConnectionIds : Linked(s[i].sid, cid) =>
            \E k \in 1 .. i - 1 : Removes(s[k], s[i].sid, cid)

StacksSafe ==
    \A t \in Clients : /\ Ordered(calls[t]) /\ PointersLive(calls[t])
                       /\ FreesEmptied(calls[t])

\* A session that a handler of the workloop works on still has a connection, or
\* somebody who removed one waits for the handler's end.
Pinned(sid) ==
    \/ \E cid \in ConnectionIds : Linked(sid, cid)
    \/ \E t \in Clients : \E i \in 1 .. Len(calls[t]) : Waits(calls[t][i], sid)

HandlerSafe ==
    calls[Workloop] # <<>> =>
        \E sid \in SessionIds :
            /\ Exists(sid) /\ Pinned(sid)
            /\ \A i \in 1 .. Len(calls[Workloop]) :
                  LET c == calls[Workloop][i]
                  IN  /\ c.op \in HandlerCalls /\ c.sid = sid
                      /\ c.op \in PointerCalls => c.gen = sessionList[sid].gen

Safe == StacksSafe /\ HandlerSafe

LEMMA CallLists ==
  /\ LastCalls \subseteq KernelCalls /\ HandlerCalls \subseteq KernelCalls
  /\ LastCalls \cap HandlerCalls = {}
  /\ "unlink" \in PointerCalls /\ "removeEventSources" \in PointerCalls /\ "free" \in PointerCalls
  /\ "ReleaseConnection" \notin PointerCalls
  /\ "free" \in LastCalls /\ "unlink" \notin LastCalls
  /\ {"unlink", "free", "removeEventSources", "ReleaseConnection"} \cap HandlerCalls = {}
  /\ HoldsSession \subseteq PointerCalls
BY DEF LastCalls, HandlerCalls, KernelCalls, PointerCalls, HoldsSession, LookUpCalls

NoPointers(s) == \A i \in 1 .. Len(s) : s[i].op \notin PointerCalls

LEMMA StackType ==
  ASSUME IInv, NEW t \in Threads
  PROVE  calls[t] \in Seq(AnyCall) /\ Len(calls[t]) \in Nat
BY LenProperties DEF IInv, TypeOK

\* Somebody with a pointer is inside the user client: nobody else has one.
LEMMA PointersInside ==
  ASSUME IInv, StacksSafe, NEW t \in Clients, ~NoPointers(calls[t])
  PROVE  /\ accessLock = t /\ calls[t] # <<>> /\ Head(calls[t]).op \in KernelCalls
         /\ \A u \in Clients \ {t} : NoPointers(calls[u])
<1>1. ASSUME NEW u \in Clients, ~NoPointers(calls[u])
      PROVE  accessLock = u /\ calls[u] # <<>> /\ Head(calls[u]).op \in KernelCalls
  <2>1. PICK i \in 1 .. Len(calls[u]) : calls[u][i].op \in PointerCalls
    BY <1>1 DEF NoPointers
  <2>2. calls[u] \in Seq(AnyCall) /\ Len(calls[u]) \in Nat
    BY StackType DEF Threads
  <2>3. 1 \in 1 .. i /\ Len(calls[u]) # 0
    BY <2>2
  <2>4. calls[u][1].op \in KernelCalls
    BY <2>1, <2>3 DEF StacksSafe, Ordered
  <2>5. calls[u] # <<>> /\ Head(calls[u]) = calls[u][1]
    BY <2>2, <2>3, HeadTailProperties, EmptySeq
  <2>6. Inside(u)
    BY <2>4, <2>5 DEF Inside, Within
  <2> QED
    BY <2>4, <2>5, <2>6 DEF IInv, UserClientExcludes
<1> QED
  BY <1>1

\* Nothing to order on a stack without pointers.
LEMMA NoPointersSafe ==
  ASSUME NEW s, NoPointers(s)
  PROVE  Ordered(s) /\ PointersLive(s) /\ FreesEmptied(s) /\ \A i \in 1 .. Len(s) : \A sid : ~Waits(s[i], sid)
BY CallLists DEF NoPointers, Ordered, PointersLive, FreesEmptied, Waits

Stays ==
    \A sid \in SessionIds :
        Exists(sid) => Exists(sid)' /\ sessionList'[sid].gen = sessionList[sid].gen

\* What a call of this state finds in the next one.
AliveNext(sid, gen) == sessionList'[sid] # NoSession /\ sessionList'[sid].gen = gen
LinkedNext(sid, cid) == sessionList'[sid].connections[cid] # "none"

\* A thread of the daemon that holds no pointer, before or after, creates something,
\* or only goes on.
LEMMA OutsideSafe ==
  ASSUME IInv, Safe, NEW t \in Clients, NoPointers(calls[t]), NoPointers(calls'[t]),
         \A u \in Threads \ {t} : calls'[u] = calls[u],
         Stays,
         \A sid \in SessionIds, cid \in ConnectionIds :
            Exists(sid) => /\ Linked(sid, cid) => Linked(sid, cid)'
                           /\ Linked(sid, cid)' => Linked(sid, cid) \/ accessLock = None
  PROVE  Safe'
<1>1. t # Workloop /\ Workloop \in Threads /\ Clients \subseteq Threads
  BY HBAConstants DEF Threads
<1>2. ASSUME NEW u \in Clients
      PROVE  (Ordered(calls[u]) /\ PointersLive(calls[u]) /\ FreesEmptied(calls[u]))'
  <2>1. CASE NoPointers(calls'[u])
    <3>1. Ordered(calls[u])'
      BY <2>1, CallLists DEF NoPointers, Ordered
    <3>2. PointersLive(calls[u])' /\ FreesEmptied(calls[u])'
      BY <2>1, CallLists DEF NoPointers, PointersLive, FreesEmptied
    <3> QED
      BY <3>1, <3>2
  <2>2. CASE ~NoPointers(calls'[u])
    <3>1. u # t /\ calls'[u] = calls[u] /\ accessLock = u /\ u # None
      BY <1>1, <2>2, PointersInside, HBAConstants DEF Safe
    <3>2. calls[u] \in Seq(AnyCall)
      BY <1>1, StackType
    <3>3. \A i \in 1 .. Len(calls[u]) : calls[u][i].op \in PointerCalls =>
             calls[u][i].sid \in SessionIds
      BY <3>2 DEF AnyCall, SessionCall, OtherCall, LoginRequest, PortalRequest, PointerCalls, HoldsSession
    <3>4. Ordered(calls[u]) /\ PointersLive(calls[u]) /\ FreesEmptied(calls[u])
      BY DEF Safe, StacksSafe
    <3>5. PointersLive(calls[u])'
      BY <3>1, <3>3, <3>4 DEF PointersLive, Stays, Alive
    <3>6. FreesEmptied(calls[u])'
      <4> SUFFICES ASSUME NEW i \in 1 .. Len(calls[u]), calls[u][i].op = "free",
                          NEW cid \in ConnectionIds, Linked(calls[u][i].sid, cid)'
                   PROVE  \E k \in 1 .. i - 1 : Removes(calls[u][k], calls[u][i].sid, cid)
        BY <3>1 DEF FreesEmptied, Linked
      <4>1. Exists(calls[u][i].sid) /\ calls[u][i].sid \in SessionIds
        BY <3>3, <3>4, CallLists DEF PointersLive, Alive
      <4>2. Linked(calls[u][i].sid, cid)
        BY <3>1, <4>1
      <4> QED
        BY <3>4, <4>2 DEF FreesEmptied
    <3> QED
      BY <3>1, <3>4, <3>5, <3>6 DEF Ordered
  <2> QED
    BY <2>1, <2>2
<1>3. HandlerSafe'
  <2> SUFFICES ASSUME calls[Workloop] # <<>> PROVE HandlerSafe'
    BY <1>1 DEF HandlerSafe
  <2>1. PICK sid \in SessionIds :
            /\ Exists(sid) /\ Pinned(sid)
            /\ \A i \in 1 .. Len(calls[Workloop]) :
                  LET c == calls[Workloop][i]
                  IN  /\ c.op \in HandlerCalls /\ c.sid = sid
                      /\ c.op \in PointerCalls => c.gen = sessionList[sid].gen
    BY DEF Safe, HandlerSafe
  <2>2. Exists(sid)' /\ sessionList'[sid].gen = sessionList[sid].gen
    BY <2>1 DEF Stays
  <2>3. Pinned(sid)'
    <3>1. CASE \E cid \in ConnectionIds : Linked(sid, cid)
      BY <2>1, <3>1 DEF Pinned
    <3>2. CASE \E u \in Clients : \E i \in 1 .. Len(calls[u]) : Waits(calls[u][i], sid)
      <4>1. PICK u \in Clients : \E i \in 1 .. Len(calls[u]) : Waits(calls[u][i], sid)
        BY <3>2
      <4>2. u # t
        BY <4>1, NoPointersSafe
      <4> QED
        BY <1>1, <4>1, <4>2 DEF Pinned
    <3> QED
      BY <2>1, <3>1, <3>2 DEF Pinned
  <2> QED
    BY <1>1, <2>1, <2>2, <2>3 DEF HandlerSafe
<1> QED
  BY <1>2, <1>3 DEF Safe, StacksSafe


\* The session of every pointer has an identifier.
LEMMA CallIds ==
  ASSUME NEW c \in AnyCall
  PROVE  /\ c.op \in KernelCalls => c \in SessionCall /\ c.sid \in SessionIds /\ c.cid \in ConnectionIds
         /\ c.op \in PointerCalls => c.op \in KernelCalls
BY CallNames DEF AnyCall, SessionCall, OtherCall, LoginRequest, PortalRequest, KernelCalls,
                 PointerCalls, HoldsSession, LookUpCalls

\* A thread of the daemon takes the next step inside the user client, and frees
\* no session.
LEMMA InsideSafe ==
  ASSUME IInv, Safe, NEW t \in Clients, calls[t] # <<>>, Head(calls[t]).op \in KernelCalls,
         NEW next \in Seq(AnyCall), \A i \in 1 .. Len(next) : next[i].op \in KernelCalls,
         CallNext(t, next), Stays,
         \A sid \in SessionIds, cid \in ConnectionIds : Exists(sid) =>
            /\ Linked(sid, cid)' => Linked(sid, cid) \/ Head(calls[t]).op \in LastCalls
            /\ Linked(sid, cid) =>
                  Linked(sid, cid)' \/ (next = <<>> /\ Head(calls[t]).op = "unlink" /\ Head(calls[t]).sid = sid)
            /\ Removes(Head(calls[t]), sid, cid) =>
                  ~Linked(sid, cid)' \/ \E k \in 1 .. Len(next) : Removes(next[k], sid, cid),
         \A i \in 1 .. Len(next) :
            /\ next[i].op \in PointerCalls => AliveNext(next[i].sid, next[i].gen)
            /\ next[i].op \in LastCalls =>
                  /\ Head(calls[t]).op \in LastCalls
                  /\ \A j \in 1 .. Len(next) : i < j => next[j].op \notin PointerCalls
            /\ next[i].op = "unlink" => i < Len(next) /\ Waits(next[i + 1], next[i].sid)
            /\ next[i].op = "free" => \A cid \in ConnectionIds : LinkedNext(next[i].sid, cid) =>
                  \E k \in 1 .. i - 1 : Removes(next[k], next[i].sid, cid),
         Head(calls[t]).op = "removeEventSources" => calls[Workloop] = <<>>
  PROVE  Safe'
<1> DEFINE s == calls[t]
           new == calls'[t]
           n == Len(next)
           h == Head(calls[t])
<1>1. t # Workloop /\ Workloop \in Threads /\ Clients \subseteq Threads
  BY HBAConstants DEF Threads
<1>2. s \in Seq(AnyCall)
  BY <1>1, StackType
<1>3. calls' = [calls EXCEPT ![t] = next \o Tail(s)]
  BY DEF CallNext
<1>4. new = next \o Tail(s) /\ \A u \in Threads \ {t} : calls'[u] = calls[u]
  BY <1>1, <1>3 DEF IInv, TypeOK
<1>0. s # <<>> /\ h = Head(s) /\ n = Len(next)
  OBVIOUS
<1> HIDE DEF s, new, n, h
<1>5. /\ new \in Seq(AnyCall) /\ n \in Nat /\ Len(s) \in Nat \ {0} /\ h = s[1]
      /\ Len(new) = n + Len(s) - 1
      /\ \A i \in 1 .. n : i \in 1 .. Len(new) /\ new[i] = next[i]
      /\ \A j \in 2 .. Len(s) : j - 1 + n \in 1 .. Len(new) /\ new[j - 1 + n] = s[j]
      /\ \A i \in 1 .. Len(new) : \/ i \in 1 .. n
                                  \/ \E j \in 2 .. Len(s) : i = j - 1 + n
  <2>1. Replacing(s, next, new)
    BY <1>0, <1>2, <1>4, Replaced
  <2> QED
    BY <1>0, <2>1 DEF Replacing
<1>6. Ordered(s) /\ PointersLive(s) /\ FreesEmptied(s)
  BY DEF Safe, StacksSafe, s
<1>7. \A j \in 2 .. Len(s) : s[j].op \in PointerCalls => s[j].sid \in SessionIds /\ Exists(s[j].sid)
  <2>1. \A j \in 2 .. Len(s) : j \in 1 .. Len(s) /\ s[j] \in AnyCall
    BY <1>2, <1>5
  <2> QED
    BY <1>6, <2>1, CallIds DEF PointersLive, Alive
<1>8. h.op \in LastCalls => \A j \in 2 .. Len(s) : s[j].op \notin PointerCalls
  <2> SUFFICES ASSUME h.op \in LastCalls, NEW j \in 2 .. Len(s) PROVE s[j].op \notin PointerCalls
    OBVIOUS
  <2>1. 1 \in 1 .. Len(s) /\ j \in 1 .. Len(s) /\ 1 < j
    BY <1>5
  <2> QED
    BY <1>5, <1>6, <2>1 DEF Ordered
<1>9. Ordered(new)
  <2>1. ASSUME NEW i \in 1 .. Len(new), new[i].op \in PointerCalls, NEW j \in 1 .. i
        PROVE  new[j].op \in KernelCalls
    <3>1. CASE j \in 1 .. n
      BY <1>5, <3>1 DEF n
    <3>2. CASE j \notin 1 .. n
      <4>1. j \in 1 .. Len(new)
        BY <1>5
      <4>2. PICK k \in 2 .. Len(s) : j = k - 1 + n
        BY <1>5, <3>2, <4>1
      <4>3. i \notin 1 .. n
        BY <1>5, <3>2
      <4>4. PICK l \in 2 .. Len(s) : i = l - 1 + n
        BY <1>5, <4>3
      <4>5. k \in 1 .. l /\ l \in 1 .. Len(s) /\ new[i] = s[l] /\ new[j] = s[k]
        BY <1>5, <4>2, <4>4
      <4> QED
        BY <1>6, <2>1, <4>5 DEF Ordered
    <3> QED
      BY <3>1, <3>2
  <2>2. ASSUME NEW i \in 1 .. Len(new), NEW j \in 1 .. Len(new), i < j, new[i].op \in LastCalls
        PROVE  new[j].op \notin PointerCalls
    <3>1. CASE i \in 1 .. n
      <4>1. next[i].op \in LastCalls
        BY <1>5, <2>2, <3>1
      <4>2. h.op \in LastCalls /\ \A k \in 1 .. n : i < k => next[k].op \notin PointerCalls
        BY <3>1, <4>1 DEF n, h
      <4>3. CASE j \in 1 .. n
        BY <1>5, <2>2, <4>2, <4>3
      <4>4. CASE j \notin 1 .. n
        <5>1. PICK l \in 2 .. Len(s) : j = l - 1 + n
          BY <1>5, <4>4
        <5>2. new[j] = s[l]
          BY <1>5, <5>1
        <5> QED
          BY <1>8, <4>2, <5>2
      <4> QED
        BY <4>3, <4>4
    <3>2. CASE i \notin 1 .. n
      <4>1. PICK k \in 2 .. Len(s) : i = k - 1 + n
        BY <1>5, <3>2
      <4>2. j \notin 1 .. n
        BY <1>5, <2>2, <3>2
      <4>3. PICK l \in 2 .. Len(s) : j = l - 1 + n
        BY <1>5, <4>2
      <4>4. k < l /\ k \in 1 .. Len(s) /\ l \in 1 .. Len(s) /\ new[i] = s[k] /\ new[j] = s[l]
        BY <1>5, <2>2, <4>1, <4>3
      <4> QED
        BY <1>6, <2>2, <4>4 DEF Ordered
    <3> QED
      BY <3>1, <3>2
  <2>3. ASSUME NEW i \in 1 .. Len(new), new[i].op = "unlink"
        PROVE  i < Len(new) /\ Waits(new[i + 1], new[i].sid)
    <3>1. CASE i \in 1 .. n
      <4>1. new[i] = next[i] /\ i < n /\ Waits(next[i + 1], next[i].sid)
        BY <1>5, <2>3, <3>1 DEF n
      <4>2. i + 1 \in 1 .. n /\ i < Len(new)
        BY <1>5, <3>1, <4>1
      <4> QED
        BY <1>5, <4>1, <4>2
    <3>2. CASE i \notin 1 .. n
      <4>1. PICK k \in 2 .. Len(s) : i = k - 1 + n
        BY <1>5, <3>2
      <4>2. k \in 1 .. Len(s) /\ new[i] = s[k]
        BY <1>5, <4>1
      <4>3. k < Len(s) /\ Waits(s[k + 1], s[k].sid)
        BY <1>6, <2>3, <4>2 DEF Ordered
      <4>4. k + 1 \in 2 .. Len(s) /\ (k + 1) - 1 + n = i + 1 /\ i < Len(new)
        BY <1>5, <4>1, <4>3
      <4>5. new[i + 1] = s[k + 1]
        BY <1>5, <4>4
      <4> QED
        BY <4>2, <4>3, <4>4, <4>5
    <3> QED
      BY <3>1, <3>2
  <2> QED
    BY <2>1, <2>2, <2>3 DEF Ordered
<1>10. ASSUME NEW i \in 1 .. Len(new), new[i].op \in PointerCalls
       PROVE  AliveNext(new[i].sid, new[i].gen)
  <2>1. CASE i \in 1 .. n
    <3>1. new[i] = next[i] /\ next[i].op \in PointerCalls
      BY <1>5, <1>10, <2>1
    <3>2. AliveNext(next[i].sid, next[i].gen)
      BY <2>1, <3>1 DEF n
    <3> QED
      BY <3>1, <3>2
  <2>2. CASE i \notin 1 .. n
    <3>1. PICK j \in 2 .. Len(s) : i = j - 1 + n
      BY <1>5, <2>2
    <3>2. new[i] = s[j] /\ j \in 1 .. Len(s)
      BY <1>5, <3>1
    <3>3. s[j].sid \in SessionIds /\ Alive(s[j].sid, s[j].gen)
      BY <1>6, <1>7, <1>10, <3>1, <3>2 DEF PointersLive
    <3> QED
      BY <3>2, <3>3 DEF Alive, AliveNext, Exists, Stays
  <2> QED
    BY <2>1, <2>2
<1>11. ASSUME NEW i \in 1 .. Len(new), new[i].op = "free", NEW cid \in ConnectionIds,
              LinkedNext(new[i].sid, cid)
       PROVE  \E k \in 1 .. i - 1 : Removes(new[k], new[i].sid, cid)
  <2>1. CASE i \in 1 .. n
    <3>1. new[i] = next[i] /\ next[i].op = "free" /\ LinkedNext(next[i].sid, cid)
      BY <1>5, <1>11, <2>1
    <3>2. PICK k \in 1 .. i - 1 : Removes(next[k], next[i].sid, cid)
      BY <2>1, <3>1 DEF n
    <3>3. k \in 1 .. n /\ new[k] = next[k]
      BY <1>5, <2>1
    <3> QED
      BY <3>1, <3>2, <3>3
  <2>2. CASE i \notin 1 .. n
    <3>1. PICK j \in 2 .. Len(s) : i = j - 1 + n
      BY <1>5, <2>2
    <3>2. new[i] = s[j] /\ j \in 1 .. Len(s) /\ s[j].op = "free" /\ s[j].op \in PointerCalls
      BY <1>5, <1>11, <3>1, CallLists
    <3> DEFINE sid == s[j].sid
    <3>3. sid \in SessionIds /\ Exists(sid) /\ h.op \notin LastCalls
      BY <1>7, <1>8, <3>1, <3>2
    <3>4. LinkedNext(sid, cid) /\ Linked(sid, cid)
      BY <1>11, <3>2, <3>3 DEF Linked, LinkedNext, h
    <3>5. PICK k \in 1 .. j - 1 : Removes(s[k], sid, cid)
      BY <1>6, <3>2, <3>4 DEF FreesEmptied
    <3>6. CASE k = 1
      <4>1. Removes(h, sid, cid)
        BY <1>5, <3>5, <3>6
      <4>2. PICK l \in 1 .. n : Removes(next[l], sid, cid)
        BY <3>3, <3>4, <4>1 DEF n, h, Linked, LinkedNext
      <4>3. l \in 1 .. i - 1 /\ new[l] = next[l]
        BY <1>5, <3>1, <4>2
      <4> QED
        BY <3>2, <4>2, <4>3
    <3>7. CASE k # 1
      <4>1. k \in 2 .. Len(s) /\ k - 1 + n \in 1 .. i - 1
        BY <1>5, <3>1, <3>5, <3>7
      <4>2. new[k - 1 + n] = s[k]
        BY <1>5, <4>1
      <4> QED
        BY <3>2, <3>5, <4>1, <4>2
    <3> QED
      BY <3>6, <3>7
  <2> QED
    BY <2>1, <2>2
<1>12. ASSUME NEW u \in Clients
       PROVE  (Ordered(calls[u]) /\ PointersLive(calls[u]) /\ FreesEmptied(calls[u]))'
  <2>1. CASE u = t
    <3>1. Ordered(calls[u])'
      BY <1>9, <2>1 DEF Ordered, new
    <3>2. PointersLive(calls[u])'
      BY <1>10, <2>1 DEF PointersLive, new, Alive, AliveNext, Exists
    <3>3. FreesEmptied(calls[u])'
      BY <1>11, <2>1 DEF FreesEmptied, new, Linked, LinkedNext
    <3> QED
      BY <3>1, <3>2, <3>3
  <2>2. CASE u # t
    <3>1. calls'[u] = calls[u] /\ ~Inside(u) /\ Inside(t)
      BY <1>1, <1>4, <2>2 DEF IInv, UserClientExcludes, Inside, Within
    <3>2. NoPointers(calls[u])
      BY <1>1, <2>2, <3>1, PointersInside DEF Safe, Inside, Within
    <3>3. Ordered(calls[u])' /\ PointersLive(calls[u])' /\ FreesEmptied(calls[u])'
      BY <3>1, <3>2, CallLists DEF NoPointers, Ordered, PointersLive, FreesEmptied
    <3> QED
      BY <3>3
  <2> QED
    BY <2>1, <2>2
<1>13. HandlerSafe'
  <2> SUFFICES ASSUME calls[Workloop] # <<>> PROVE HandlerSafe'
    BY <1>1, <1>4 DEF HandlerSafe
  <2>0. calls'[Workloop] = calls[Workloop]
    BY <1>1, <1>4
  <2>1. PICK sid \in SessionIds :
            /\ Exists(sid) /\ Pinned(sid)
            /\ \A i \in 1 .. Len(calls[Workloop]) :
                  LET c == calls[Workloop][i]
                  IN  /\ c.op \in HandlerCalls /\ c.sid = sid
                      /\ c.op \in PointerCalls => c.gen = sessionList[sid].gen
    BY DEF Safe, HandlerSafe
  <2>2. Exists(sid)' /\ sessionList'[sid].gen = sessionList[sid].gen
    BY <2>1 DEF Stays
  <2>3. Pinned(sid)'
    <3>1. CASE \E cid \in ConnectionIds : Linked(sid, cid)
      <4>1. PICK cid \in ConnectionIds : Linked(sid, cid)
        BY <3>1
      <4>2. CASE Linked(sid, cid)'
        BY <4>2 DEF Pinned
      <4>3. CASE next = <<>> /\ h.op = "unlink" /\ h.sid = sid
        <5>1. 1 \in 1 .. Len(s) /\ s[1].op = "unlink"
          BY <1>5, <4>3
        <5>2. 1 < Len(s) /\ Waits(s[1 + 1], s[1].sid)
          BY <1>6, <5>1 DEF Ordered
        <5>3. n = 0 /\ 2 \in 2 .. Len(s) /\ 2 - 1 + n = 1 /\ 1 + 1 = 2
          BY <1>5, <4>3, <5>2 DEF n
        <5>4. 1 \in 1 .. Len(new) /\ new[1] = s[2]
          BY <1>5, <5>3
        <5>5. Waits(new[1], sid)
          BY <1>5, <4>3, <5>2, <5>3, <5>4
        <5> QED
          BY <5>4, <5>5 DEF Pinned, new
      <4> QED
        BY <2>1, <4>1, <4>2, <4>3 DEF h
    <3>2. CASE \E u \in Clients : \E i \in 1 .. Len(calls[u]) : Waits(calls[u][i], sid)
      <4>0. PICK u \in Clients : \E i \in 1 .. Len(calls[u]) : Waits(calls[u][i], sid)
        BY <3>2
      <4>1. PICK i \in 1 .. Len(calls[u]) : Waits(calls[u][i], sid)
        BY <4>0
      <4>2. CASE u # t
        BY <1>1, <1>4, <4>1, <4>2 DEF Pinned
      <4>3. CASE u = t
        <5>1. i \in 1 .. Len(s) /\ Waits(s[i], sid)
          BY <4>1, <4>3 DEF s
        <5>2. i # 1
          BY <1>5, <5>1 DEF Waits, h
        <5>3. i \in 2 .. Len(s)
          BY <1>5, <5>1, <5>2
        <5>4. i - 1 + n \in 1 .. Len(new) /\ Waits(new[i - 1 + n], sid)
          BY <1>5, <5>1, <5>3
        <5> QED
          BY <5>4 DEF Pinned, new
      <4> QED
        BY <4>2, <4>3
    <3> QED
      BY <2>1, <3>1, <3>2 DEF Pinned
  <2> QED
    BY <2>0, <2>1, <2>2, <2>3 DEF HandlerSafe
<1> QED
  BY <1>12, <1>13 DEF Safe, StacksSafe

-----------------------------------------------------------------------------
(* The workloop's steps, and steps like those of its handlers.             *)

\* What a thread of the daemon has still to do when another one is at work.
LEMMA ClientKept ==
  ASSUME IInv, Safe, NEW u \in Clients, calls'[u] = calls[u], Stays,
         \A sid \in SessionIds, cid \in ConnectionIds :
            Exists(sid) => (Linked(sid, cid)' => Linked(sid, cid))
  PROVE  (Ordered(calls[u]) /\ PointersLive(calls[u]) /\ FreesEmptied(calls[u]))'
<1>1. calls[u] \in Seq(AnyCall)
  BY StackType DEF Threads
<1>2. Ordered(calls[u]) /\ PointersLive(calls[u]) /\ FreesEmptied(calls[u])
  BY DEF Safe, StacksSafe
<1>3. \A i \in 1 .. Len(calls[u]) : calls[u][i].op \in PointerCalls =>
         calls[u][i].sid \in SessionIds /\ Exists(calls[u][i].sid)
  BY <1>1, <1>2, CallIds DEF PointersLive, Alive
<1>4. PointersLive(calls[u])'
  BY <1>2, <1>3 DEF PointersLive, Stays, Alive
<1>5. FreesEmptied(calls[u])'
  <2> SUFFICES ASSUME NEW i \in 1 .. Len(calls[u]), calls[u][i].op = "free",
                      NEW cid \in ConnectionIds, Linked(calls[u][i].sid, cid)'
               PROVE  \E k \in 1 .. i - 1 : Removes(calls[u][k], calls[u][i].sid, cid)
    BY DEF FreesEmptied, Linked
  <2>1. Exists(calls[u][i].sid) /\ calls[u][i].sid \in SessionIds
    BY <1>3, CallLists
  <2>2. Linked(calls[u][i].sid, cid)
    BY <2>1
  <2> QED
    BY <1>2, <2>2 DEF FreesEmptied
<1> QED
  BY <1>2, <1>4, <1>5 DEF Ordered

\* The workloop makes calls of handlers only.
LEMMA HandlerHead ==
  ASSUME IInv, Safe, calls[Workloop] # <<>>
  PROVE  /\ Head(calls[Workloop]).op \in HandlerCalls
         /\ Head(calls[Workloop]) = calls[Workloop][1] /\ 1 \in 1 .. Len(calls[Workloop])
<1>1. Workloop \in Threads
  BY DEF Threads
<1>2. calls[Workloop] \in Seq(AnyCall) /\ Len(calls[Workloop]) \in Nat
  BY <1>1, StackType
<1>3. Head(calls[Workloop]) = calls[Workloop][1] /\ 1 \in 1 .. Len(calls[Workloop])
  BY <1>2, HeadTailProperties, EmptySeq
<1> QED
  BY <1>3 DEF Safe, HandlerSafe

\* A handler's call is replaced by calls of handlers for the same session.
LEMMA WorkloopSafe ==
  ASSUME IInv, Safe, calls[Workloop] # <<>>,
         NEW next \in Seq(AnyCall), CallNext(Workloop, next), Stays,
         \A sid \in SessionIds, cid \in ConnectionIds :
            Exists(sid) => (Linked(sid, cid)' <=> Linked(sid, cid)),
         \A i \in 1 .. Len(next) :
            /\ next[i].op \in HandlerCalls /\ next[i].sid = Head(calls[Workloop]).sid
            /\ next[i].op \in PointerCalls => AliveNext(next[i].sid, next[i].gen)
  PROVE  Safe'
<1> DEFINE s == calls[Workloop]
           new == calls'[Workloop]
<1>1. Workloop \notin Clients /\ Workloop \in Threads /\ Clients \subseteq Threads
  BY HBAConstants DEF Threads
<1>2. s \in Seq(AnyCall)
  BY <1>1, StackType
<1>3. new = next \o Tail(s) /\ \A u \in Clients : calls'[u] = calls[u]
  BY <1>1 DEF CallNext, IInv, TypeOK
<1>4. s # <<>> /\ Head(s) = s[1] /\ 1 \in 1 .. Len(s)
  BY HandlerHead
<1>5. PICK sid \in SessionIds :
         /\ Exists(sid) /\ Pinned(sid)
         /\ \A i \in 1 .. Len(s) :
               LET c == s[i]
               IN  /\ c.op \in HandlerCalls /\ c.sid = sid
                   /\ c.op \in PointerCalls => c.gen = sessionList[sid].gen
  BY DEF Safe, HandlerSafe
<1> HIDE DEF s, new
<1>6. Replacing(s, next, new)
  BY <1>2, <1>3, <1>4, Replaced
<1>7. Exists(sid)' /\ sessionList'[sid].gen = sessionList[sid].gen
  BY <1>5 DEF Stays
<1>8. Pinned(sid)'
  BY <1>3, <1>5 DEF Pinned
<1>9. ASSUME NEW i \in 1 .. Len(new)
      PROVE  /\ new[i].op \in HandlerCalls /\ new[i].sid = sid
             /\ new[i].op \in PointerCalls => new[i].gen = sessionList'[sid].gen
  <2>1. CASE i \in 1 .. Len(next)
    <3>1. new[i] = next[i]
      BY <1>6, <2>1 DEF Replacing
    <3>2. next[i].op \in HandlerCalls /\ next[i].sid = sid
      BY <1>4, <1>5, <2>1 DEF s
    <3>3. next[i].op \in PointerCalls => next[i].gen = sessionList'[sid].gen
      BY <2>1, <3>2 DEF AliveNext
    <3> QED
      BY <3>1, <3>2, <3>3
  <2>2. CASE i \notin 1 .. Len(next)
    <3>1. PICK j \in 2 .. Len(s) : i = j - 1 + Len(next)
      BY <1>6, <2>2 DEF Replacing
    <3>2. new[i] = s[j] /\ j \in 1 .. Len(s)
      BY <1>6, <3>1 DEF Replacing
    <3> QED
      BY <1>5, <1>7, <3>2
  <2> QED
    BY <2>1, <2>2
<1>10. HandlerSafe'
  BY <1>5, <1>7, <1>8, <1>9 DEF HandlerSafe, new
<1>11. \A u \in Clients : (Ordered(calls[u]) /\ PointersLive(calls[u]) /\ FreesEmptied(calls[u]))'
  BY <1>3, ClientKept
<1> QED
  BY <1>10, <1>11 DEF Safe, StacksSafe

\* A step that a handler and a thread of the daemon may take.
LEMMA PlainSafe ==
  ASSUME IInv, Safe, NEW t \in Threads, calls[t] # <<>>, Head(calls[t]).op \in KernelCalls,
         NEW next \in Seq(AnyCall), CallNext(t, next), Stays,
         \A sid \in SessionIds, cid \in ConnectionIds :
            Exists(sid) => /\ Linked(sid, cid)' <=> Linked(sid, cid)
                           /\ Removes(Head(calls[t]), sid, cid) => ~Linked(sid, cid),
         \A i \in 1 .. Len(next) :
            /\ next[i].op \in HandlerCalls /\ next[i].sid = Head(calls[t]).sid
            /\ next[i].op \in PointerCalls => AliveNext(next[i].sid, next[i].gen),
         Head(calls[t]).op = "removeEventSources" => GateOpenFor(t)
  PROVE  Safe'
<1>1. CASE t = Workloop
  BY <1>1, WorkloopSafe
<1>2. CASE t # Workloop
  <2>1. t \in Clients
    BY <1>2 DEF Threads
  <2>2. \A i \in 1 .. Len(next) : /\ next[i].op \in KernelCalls
                                  /\ next[i].op \notin LastCalls
                                  /\ next[i].op \notin {"unlink", "free"}
    BY CallLists
  <2>3. Head(calls[t]).op = "removeEventSources" => calls[Workloop] = <<>>
    BY <1>2 DEF GateOpenFor
  <2>4. \A sid \in SessionIds, cid \in ConnectionIds : Exists(sid) =>
           /\ Linked(sid, cid)' => Linked(sid, cid)
           /\ Linked(sid, cid) => Linked(sid, cid)'
           /\ Removes(Head(calls[t]), sid, cid) => ~Linked(sid, cid)'
    OBVIOUS
  <2> QED
    BY <2>1, <2>2, <2>3, <2>4, InsideSafe
<1> QED
  BY <1>1, <1>2

-----------------------------------------------------------------------------
(* One lemma for each call of the kernel: its pointers stay alive.         *)

LEMMA SameStays ==
  ASSUME SameSessions
  PROVE  Stays /\ \A sid \in SessionIds : Exists(sid) <=> Exists(sid)'
BY DEF SameSessions, Stays

LEMMA SameList ==
  ASSUME UNCHANGED sessionList
  PROVE  /\ SameSessions /\ Stays
         /\ \A sid \in SessionIds, cid \in ConnectionIds : Linked(sid, cid)' <=> Linked(sid, cid)
BY DEF SameSessions, Stays, Exists, Linked

\* The pointer at the head of a stack is to a session that is there.
LEMMA HeadLive ==
  ASSUME IInv, Safe, NEW t \in Threads, NEW op \in PointerCalls, Running(t, op)
  PROVE  /\ Alive(Head(calls[t]).sid, Head(calls[t]).gen)
         /\ Head(calls[t]).sid \in SessionIds
<1> DEFINE c == Head(calls[t])
<1>1. calls[t] # <<>> /\ c.op = op /\ c.sid \in SessionIds
  BY CallNames, RunningType DEF IInv
<1>2. CASE t = Workloop
  <2>1. c = calls[Workloop][1] /\ 1 \in 1 .. Len(calls[Workloop])
    BY <1>1, <1>2, HandlerHead
  <2> HIDE DEF c
  <2> QED
    BY <1>1, <1>2, <2>1 DEF Safe, HandlerSafe, Alive, c
<1>3. CASE t # Workloop
  <2>1. t \in Clients
    BY <1>3 DEF Threads
  <2>2. c = calls[t][1] /\ 1 \in 1 .. Len(calls[t])
    BY <1>1, StackType, HeadTailProperties, EmptySeq
  <2> HIDE DEF c
  <2> QED
    BY <1>1, <2>1, <2>2 DEF Safe, StacksSafe, PointersLive, c
<1> QED
  BY <1>1, <1>2, <1>3

\* What remains of a call that looked its session up, or had before.
LEMMA RestAlive ==
  ASSUME IInv, Safe, NEW t \in Threads, NEW op \in KernelCalls, Running(t, op),
         op \in PointerCalls \/ Exists(Head(calls[t]).sid),
         NEW rest \in PointerCalls, Stays
  PROVE  /\ AliveNext(Rest(rest, Head(calls[t])).sid, Rest(rest, Head(calls[t])).gen)
         /\ Rest(rest, Head(calls[t])) \in SessionCall
         /\ Rest(rest, Head(calls[t])).op = rest
         /\ Rest(rest, Head(calls[t])).sid = Head(calls[t]).sid
<1> DEFINE c == Head(calls[t])
           r == Rest(rest, c)
<1>1. c \in SessionCall /\ c.sid \in SessionIds /\ c.op = op
  BY RunningType DEF IInv
<1>2. Exists(c.sid) /\ (op \in PointerCalls => c.gen = sessionList[c.sid].gen /\ c.gen # 0)
  <2>1. CASE op \in PointerCalls
    <3>1. c.gen \in 1 .. MaxCreated
      BY <2>1, RunningType DEF IInv
    <3> QED
      BY <2>1, <3>1, HeadLive DEF Alive
  <2>2. CASE op \notin PointerCalls
    BY <2>2
  <2> QED
    BY <2>1, <2>2
<1>3. op \notin PointerCalls => c.gen = 0
  BY <1>1 DEF SessionCall
<1>4. r.gen = sessionList[c.sid].gen /\ r.sid = c.sid /\ r.op = rest
  BY <1>2, <1>3 DEF Rest
<1>5. r \in SessionCall
  BY <1>1, <1>2, RestType DEF IInv
<1>6. sessionList'[c.sid] # NoSession /\ sessionList'[c.sid].gen = sessionList[c.sid].gen
  BY <1>1, <1>2 DEF Stays, Exists
<1>7. AliveNext(r.sid, r.gen)
  BY <1>4, <1>6 DEF AliveNext
<1> QED
  BY <1>4, <1>5, <1>7

\* A call that is done.
LEMMA ReturnSafe ==
  ASSUME IInv, Safe, NEW t \in Threads, calls[t] # <<>>, Head(calls[t]).op \in KernelCalls,
         Return(t), Stays,
         \A sid \in SessionIds, cid \in ConnectionIds :
            Exists(sid) => /\ Linked(sid, cid)' <=> Linked(sid, cid)
                           /\ Removes(Head(calls[t]), sid, cid) => ~Linked(sid, cid),
         Head(calls[t]).op = "removeEventSources" => GateOpenFor(t)
  PROVE  Safe'
<1>1. <<>> \in Seq(AnyCall) /\ Len(<<>>) = 0
  BY KernelCallSequences
<1> DEFINE next == <<>>
<1>2. CallNext(t, next)
  BY DEF Return
<1>3. next \in Seq(AnyCall) /\ \A i \in 1 .. Len(next) :
         /\ next[i].op \in HandlerCalls /\ next[i].sid = Head(calls[t]).sid
         /\ next[i].op \in PointerCalls => AliveNext(next[i].sid, next[i].gen)
  BY <1>1
<1> HIDE DEF next
<1> QED
  BY <1>2, <1>3, PlainSafe

LEMMA CountSafe ==
  ASSUME IInv, Safe, NEW t \in Threads, CountActive(t) \/ CountInactive(t)
  PROVE  Safe'
<1> DEFINE c == Head(calls[t])
<1>1. PICK op \in {"increment", "decrement"} : Running(t, op)
  BY DEF CountActive, CountInactive
<1>2. calls[t] # <<>> /\ c.op \in KernelCalls /\ c.op = op /\ c.sid \in SessionIds
  BY <1>1, CallNames, RunningType DEF IInv
<1>3. Return(t) /\ \E n \in {1, -1} : AddToActive(c.sid, c.gen, n)
  BY DEF CountActive, CountInactive
<1>4. SameSessions /\ \A sid \in SessionIds, cid \in ConnectionIds :
         Exists(sid) => (Linked(sid, cid)' <=> Linked(sid, cid))
  BY <1>2, <1>3, AddToActiveLinks DEF IInv
<1>5. \A sid, cid : ~Removes(c, sid, cid)
  BY <1>1, <1>2 DEF Removes
<1> HIDE DEF c
<1> QED
  BY <1>2, <1>3, <1>4, <1>5, SameStays, ReturnSafe DEF c

\* Calls that are done and leave the sessions alone.
LEMMA DoneSafe ==
  ASSUME IInv, Safe, NEW t \in Threads,
         \/ UnmountLast(t) \/ RemoveEventSources(t) \/ SendTimeoutNotification(t)
         \/ SendAsyncNotification(t) \/ LookUpFails(t)
  PROVE  Safe'
<1> DEFINE c == Head(calls[t])
<1>1. Return(t) /\ UNCHANGED sessionList
  BY DEF UnmountLast, RemoveEventSources, SendTimeoutNotification, SendAsyncNotification, LookUpFails
<1>2. calls[t] # <<>> /\ c.op \in KernelCalls
  <2>1. CASE LookUpFails(t)
    BY <2>1 DEF LookUpFails, KernelCalls, LookUpCalls
  <2>2. CASE ~LookUpFails(t)
    <3>1. PICK op \in {"unmount", "removeEventSources", "notifyTimeout", "notifyAsync"} : Running(t, op)
      BY <2>2 DEF UnmountLast, RemoveEventSources, SendTimeoutNotification, SendAsyncNotification
    <3> QED
      BY <3>1, CallNames, RunningType DEF IInv
  <2> QED
    BY <2>1, <2>2
<1>3. c.op = "removeEventSources" => GateOpenFor(t)
  BY DEF UnmountLast, RemoveEventSources, SendTimeoutNotification, SendAsyncNotification, LookUpFails, Running
<1>4. ASSUME NEW sid \in SessionIds, NEW cid \in ConnectionIds, Exists(sid), Removes(c, sid, cid)
      PROVE  ~Linked(sid, cid)
  <2>1. c.op \in {"ReleaseConnection", "unlink"} /\ c.sid = sid /\ c.cid = cid
    BY <1>4 DEF Removes
  <2>2. LookUpFails(t)
    BY <2>1 DEF UnmountLast, RemoveEventSources, SendTimeoutNotification, SendAsyncNotification, Running
  <2>3. ~Connected(sid, cid)
    BY <2>1, <2>2 DEF LookUpFails
  <2> QED
    BY <1>4, <2>3 DEF Connected, Connections, Linked
<1> HIDE DEF c
<1> QED
  BY <1>1, <1>2, <1>3, <1>4, SameList, ReturnSafe DEF c

\* Two calls by a handler, for the session of the call that made them.
LEMMA PlainTwo ==
  ASSUME IInv, Safe, NEW t \in Threads, NEW op \in KernelCalls, Running(t, op),
         op \notin {"ReleaseConnection", "unlink", "removeEventSources"},
         NEW a \in SessionCall, NEW b \in SessionCall, CallNext(t, <<a, b>>),
         SameSessions,
         \A sid \in SessionIds, cid \in ConnectionIds :
            Exists(sid) => (Linked(sid, cid)' <=> Linked(sid, cid)),
         \A c \in {a, b} :
            /\ c.op \in HandlerCalls /\ c.sid = Head(calls[t]).sid
            /\ c.op \in PointerCalls => AliveNext(c.sid, c.gen)
  PROVE  Safe'
<1> DEFINE next == <<a, b>>
<1>1. calls[t] # <<>> /\ Head(calls[t]).op = op /\ op \in KernelCalls
  BY DEF Running
<1>2. next \in Seq(AnyCall) /\ Len(next) = 2 /\ next[1] = a /\ next[2] = b
  BY KernelCallSequences, CallLists
<1>3. CallNext(t, next)
  OBVIOUS
<1> HIDE DEF next
<1>4. \A i \in 1 .. Len(next) :
         /\ next[i].op \in HandlerCalls /\ next[i].sid = Head(calls[t]).sid
         /\ next[i].op \in PointerCalls => AliveNext(next[i].sid, next[i].gen)
  <2>1. \A i \in 1 .. Len(next) : next[i] \in {a, b}
    BY <1>2
  <2> QED
    BY <2>1
<1>5. \A sid, cid : ~Removes(Head(calls[t]), sid, cid)
  BY <1>1 DEF Removes
<1> QED
  BY <1>1, <1>2, <1>3, <1>4, <1>5, SameStays, PlainSafe

LEMMA DeactivateConnectionSafe ==
  ASSUME IInv, Safe, NEW t \in Threads, DeactivateConnection(t)
  PROVE  Safe'
<1> DEFINE c == Head(calls[t])
           a == Rest("decrement", c)
           b == Rest("unmount", c)
           op == "DeactivateConnection"
<1>1. /\ Running(t, op) /\ op \in KernelCalls /\ op \notin PointerCalls
      /\ {"decrement", "unmount"} \subseteq PointerCalls \cap HandlerCalls
  BY DEF DeactivateConnection, KernelCalls, LookUpCalls, PointerCalls, HoldsSession, HandlerCalls
<1>2. c.sid \in SessionIds /\ c.cid \in ConnectionIds
  BY <1>1, RunningType DEF IInv
<1>3. /\ Connected(c.sid, c.cid) /\ Exists(c.sid)
      /\ SetConnection(c.sid, c.cid, "idle") /\ CallNext(t, <<a, b>>)
  BY DEF DeactivateConnection, Connected
<1>4. Linked(c.sid, c.cid)
  BY <1>3 DEF Connected, Connections, Linked
<1>5. SameSessions /\ \A sid \in SessionIds, cid \in ConnectionIds :
         Exists(sid) => (Linked(sid, cid)' <=> Linked(sid, cid))
  <2> HIDE DEF c
  <2> QED
    BY <1>2, <1>3, <1>4, SetConnectionLinks DEF IInv
<1>6. /\ AliveNext(a.sid, a.gen) /\ a \in SessionCall /\ a.op = "decrement" /\ a.sid = c.sid
      /\ AliveNext(b.sid, b.gen) /\ b \in SessionCall /\ b.op = "unmount" /\ b.sid = c.sid
  BY <1>1, <1>3, <1>5, SameStays, RestAlive
<1> HIDE DEF a, b
<1>7. \A d \in {a, b} : /\ d.op \in HandlerCalls /\ d.sid = c.sid
                        /\ d.op \in PointerCalls => AliveNext(d.sid, d.gen)
  BY <1>1, <1>6
<1> QED
  BY <1>1, <1>3, <1>5, <1>6, <1>7, PlainTwo

LEMMA HandleConnectionTimeoutSafe ==
  ASSUME IInv, Safe, NEW t \in Threads, HandleConnectionTimeout(t)
  PROVE  Safe'
<1> DEFINE c == Head(calls[t])
           op == "HandleConnectionTimeout"
<1>1. /\ Running(t, op) /\ op \in KernelCalls /\ op \notin PointerCalls
      /\ "notifyTimeout" \in PointerCalls \cap HandlerCalls
      /\ {"DeactivateConnection", "DeactivateAllConnections"} \subseteq LookUpCalls \cap HandlerCalls
      /\ {"DeactivateConnection", "DeactivateAllConnections"} \cap PointerCalls = {}
  BY DEF HandleConnectionTimeout, KernelCalls, LookUpCalls, PointerCalls, HoldsSession, HandlerCalls
<1>2. c.sid \in SessionIds /\ c.cid \in ConnectionIds
  BY <1>1, RunningType DEF IInv
<1>3. PICK first \in {"DeactivateConnection", "DeactivateAllConnections"} :
         /\ Exists(c.sid) /\ UNCHANGED sessionList
         /\ CallNext(t, <<Call(first, c.sid, c.cid), Rest("notifyTimeout", c)>>)
  BY DEF HandleConnectionTimeout
<1> DEFINE a == Call(first, c.sid, c.cid)
           b == Rest("notifyTimeout", c)
<1>4. CallNext(t, <<a, b>>)
  BY <1>3
<1>5. a \in SessionCall /\ a.op = first /\ a.sid = c.sid
  BY <1>1, <1>2, CallType DEF Call
<1>6. AliveNext(b.sid, b.gen) /\ b \in SessionCall /\ b.op = "notifyTimeout" /\ b.sid = c.sid
  BY <1>1, <1>3, SameList, RestAlive
<1> HIDE DEF a, b
<1>7. \A d \in {a, b} : /\ d.op \in HandlerCalls /\ d.sid = c.sid
                        /\ d.op \in PointerCalls => AliveNext(d.sid, d.gen)
  BY <1>1, <1>5, <1>6
<1> QED
  BY <1>1, <1>3, <1>4, <1>5, <1>6, <1>7, SameList, PlainTwo

LEMMA ForConnectionsCalls ==
  ASSUME NEW op \in LookUpCalls, NEW sid \in SessionIds
  PROVE  /\ ForConnections(op, sid) \in Seq(AnyCall)
         /\ Len(ForConnections(op, sid)) = MaxConnections
         /\ \A i \in 1 .. MaxConnections :
               /\ ForConnections(op, sid)[i].op = op /\ ForConnections(op, sid)[i].sid = sid
               /\ ForConnections(op, sid)[i].cid = i - 1
BY ForConnectionsType DEF ForConnections, Call

LEMMA DeactivateAllConnectionsSafe ==
  ASSUME IInv, Safe, NEW t \in Threads, DeactivateAllConnections(t)
  PROVE  Safe'
<1> DEFINE c == Head(calls[t])
           next == ForConnections("DeactivateConnection", c.sid)
<1>1. /\ Running(t, "DeactivateAllConnections") /\ "DeactivateAllConnections" \in KernelCalls
      /\ "DeactivateConnection" \in LookUpCalls \cap HandlerCalls
      /\ "DeactivateConnection" \notin PointerCalls
  BY DEF DeactivateAllConnections, KernelCalls, LookUpCalls, PointerCalls, HoldsSession, HandlerCalls
<1>2. calls[t] # <<>> /\ c.op = "DeactivateAllConnections" /\ c.sid \in SessionIds
  BY <1>1, RunningType DEF IInv
<1>3. CallNext(t, next) /\ UNCHANGED sessionList
  BY DEF DeactivateAllConnections
<1>4. next \in Seq(AnyCall) /\ \A i \in 1 .. Len(next) : next[i].op = "DeactivateConnection" /\ next[i].sid = c.sid
  BY <1>1, <1>2, ForConnectionsCalls
<1>5. \A sid, cid : ~Removes(c, sid, cid)
  BY <1>2 DEF Removes
<1> HIDE DEF next
<1> QED
  BY <1>1, <1>2, <1>3, <1>4, <1>5, SameList, PlainSafe

\* The handlers of the workloop create and release nothing.
LEMMA ClientOnly ==
  ASSUME IInv, Safe, NEW t \in Threads, NEW op, op \notin HandlerCalls, Running(t, op)
  PROVE  t \in Clients
<1>1. t # Workloop
  BY HandlerHead DEF Running
<1> QED
  BY <1>1 DEF Threads

\* The last call that a thread makes for a session makes another one in its place.
LEMMA OneSafe ==
  ASSUME IInv, Safe, NEW t \in Threads, NEW op \in LastCalls, Running(t, op),
         NEW a \in SessionCall, a.op \in KernelCalls, a.op \notin {"unlink", "free"},
         CallNext(t, <<a>>), SameSessions,
         \A sid \in SessionIds, cid \in ConnectionIds :
            Exists(sid) => (Linked(sid, cid)' <=> Linked(sid, cid)),
         a.op \in PointerCalls => AliveNext(a.sid, a.gen)
  PROVE  Safe'
<1> DEFINE next == <<a>>
           h == Head(calls[t])
<1>1. /\ op \notin HandlerCalls /\ op \in KernelCalls
      /\ op \notin {"ReleaseConnection", "unlink", "removeEventSources"}
  BY DEF LastCalls, HandlerCalls, KernelCalls, LookUpCalls, PointerCalls, HoldsSession
<1>2. t \in Clients /\ calls[t] # <<>> /\ h.op = op /\ h.op \in KernelCalls
  BY <1>1, ClientOnly DEF Running
<1>3. next \in Seq(AnyCall) /\ Len(next) = 1 /\ next[1] = a
  BY KernelCallSequences
<1>4. CallNext(t, next)
  OBVIOUS
<1>5. \A sid, cid : ~Removes(h, sid, cid)
  BY <1>1, <1>2 DEF Removes
<1> HIDE DEF next, h
<1>6. \A i \in 1 .. Len(next) : i = 1 /\ next[i] = a
  BY <1>3
<1>7. \A i \in 1 .. Len(next) :
         /\ next[i].op \in KernelCalls
         /\ next[i].op \in PointerCalls => AliveNext(next[i].sid, next[i].gen)
         /\ next[i].op \in LastCalls =>
               /\ h.op \in LastCalls
               /\ \A j \in 1 .. Len(next) : i < j => next[j].op \notin PointerCalls
         /\ next[i].op = "unlink" => i < Len(next) /\ Waits(next[i + 1], next[i].sid)
         /\ next[i].op = "free" => \A cid \in ConnectionIds : LinkedNext(next[i].sid, cid) =>
               \E k \in 1 .. i - 1 : Removes(next[k], next[i].sid, cid)
  <2> SUFFICES ASSUME NEW i \in 1 .. Len(next)
               PROVE  /\ next[i].op \in KernelCalls /\ next[i].op \notin {"unlink", "free"}
                      /\ next[i].op \in PointerCalls => AliveNext(next[i].sid, next[i].gen)
                      /\ h.op \in LastCalls /\ \A j \in 1 .. Len(next) : ~(i < j)
    OBVIOUS
  <2>1. i = 1 /\ next[i] = a /\ \A j \in 1 .. Len(next) : ~(i < j)
    BY <1>6
  <2> QED
    BY <1>2, <2>1
<1>8. h.op # "removeEventSources"
  BY <1>1, <1>2
<1>9. \A sid \in SessionIds, cid \in ConnectionIds : Exists(sid) =>
         /\ Linked(sid, cid)' => Linked(sid, cid)
         /\ Linked(sid, cid) => Linked(sid, cid)'
         /\ ~Removes(h, sid, cid)
  BY <1>5
<1>10. Stays
  BY SameStays
<1> QED
  BY <1>2, <1>3, <1>4, <1>7, <1>8, <1>9, <1>10, InsideSafe DEF h

\* A call of a thread of the daemon that is done.
LEMMA InsideReturn ==
  ASSUME IInv, Safe, NEW t \in Clients, calls[t] # <<>>, Head(calls[t]).op \in KernelCalls,
         Return(t), Stays,
         \A sid \in SessionIds, cid \in ConnectionIds : Exists(sid) =>
            /\ Linked(sid, cid)' => Linked(sid, cid) \/ Head(calls[t]).op \in LastCalls
            /\ Linked(sid, cid) =>
                  Linked(sid, cid)' \/ (Head(calls[t]).op = "unlink" /\ Head(calls[t]).sid = sid)
            /\ Removes(Head(calls[t]), sid, cid) => ~Linked(sid, cid)',
         Head(calls[t]).op # "removeEventSources"
  PROVE  Safe'
<1> DEFINE next == <<>>
<1>1. CallNext(t, next)
  BY DEF Return
<1>2. next \in Seq(AnyCall) /\ next = <<>> /\ \A i \in 1 .. Len(next) : FALSE
  BY KernelCallSequences
<1> HIDE DEF next
<1> QED
  BY <1>1, <1>2, InsideSafe

LEMMA ActivateConnectionSafe ==
  ASSUME IInv, Safe, NEW t \in Threads, ActivateConnection(t)
  PROVE  Safe'
<1> DEFINE c == Head(calls[t])
           a == Rest("mount", c)
           op == "ActivateConnection"
<1>1. /\ Running(t, op) /\ op \in KernelCalls /\ op \in LastCalls
      /\ "mount" \in PointerCalls /\ "mount" \in KernelCalls
  BY DEF ActivateConnection, KernelCalls, LookUpCalls, LastCalls, PointerCalls, HoldsSession
<1>2. c.sid \in SessionIds /\ c.cid \in ConnectionIds
  BY <1>1, RunningType DEF IInv
<1>3. /\ Connected(c.sid, c.cid) /\ Exists(c.sid)
      /\ SetConnection(c.sid, c.cid, "enabled") /\ CallNext(t, <<a>>)
  BY DEF ActivateConnection, Connected
<1>4. Linked(c.sid, c.cid)
  BY <1>3 DEF Connected, Connections, Linked
<1>5. SameSessions /\ \A sid \in SessionIds, cid \in ConnectionIds :
         Exists(sid) => (Linked(sid, cid)' <=> Linked(sid, cid))
  <2> HIDE DEF c
  <2> QED
    BY <1>2, <1>3, <1>4, SetConnectionLinks DEF IInv
<1>6. AliveNext(a.sid, a.gen) /\ a \in SessionCall /\ a.op = "mount"
  BY <1>1, <1>3, <1>5, SameStays, RestAlive
<1> HIDE DEF a
<1> QED
  BY <1>1, <1>3, <1>5, <1>6, OneSafe

LEMMA MountFirstSafe ==
  ASSUME IInv, Safe, NEW t \in Threads, MountFirst(t)
  PROVE  Safe'
<1> DEFINE c == Head(calls[t])
           a == Rest("increment", c)
           op == "mount"
<1>1. /\ Running(t, op) /\ op \in KernelCalls /\ op \in LastCalls /\ op \in PointerCalls
      /\ "increment" \in PointerCalls /\ "increment" \in KernelCalls
  BY DEF MountFirst, KernelCalls, LookUpCalls, LastCalls, PointerCalls, HoldsSession
<1>2. /\ calls[t] # <<>> /\ c.op = op
      /\ c.sid \in SessionIds /\ c.cid \in ConnectionIds
  BY <1>1, RunningType DEF IInv
<1>3. CASE CallNext(t, <<a>>) /\ UNCHANGED sessionList
  <2>1. AliveNext(a.sid, a.gen) /\ a \in SessionCall /\ a.op = "increment"
    BY <1>1, <1>3, SameList, RestAlive
  <2> HIDE DEF a
  <2> QED
    BY <1>1, <1>3, <2>1, SameList, OneSafe
<1>4. CASE Alive(c.sid, c.gen) /\ SetConnection(c.sid, c.cid, "idle") /\ Return(t)
  <2>1. SameSessions /\ \A sid \in SessionIds, cid \in ConnectionIds :
           Exists(sid) => (Linked(sid, cid) => Linked(sid, cid)')
    <3>1. Exists(c.sid)
      BY <1>4 DEF Alive
    <3> HIDE DEF c
    <3> QED
      BY <1>2, <1>4, <3>1, SetConnectionLinks DEF IInv
  <2>2. \A sid, cid : ~Removes(c, sid, cid)
    BY <1>2 DEF Removes
  <2>3. t \in Clients /\ c.op \in LastCalls /\ c.op \in KernelCalls /\ c.op # "removeEventSources"
    <3>1. op \notin HandlerCalls
      BY DEF HandlerCalls
    <3> QED
      BY <1>1, <1>2, <3>1, ClientOnly
  <2> HIDE DEF c
  <2> QED
    BY <1>2, <1>4, <2>1, <2>2, <2>3, SameStays, InsideReturn DEF c
<1> QED
  BY <1>3, <1>4 DEF MountFirst

LEMMA UnlinkConnectionSafe ==
  ASSUME IInv, Safe, NEW t \in Threads, UnlinkConnection(t)
  PROVE  Safe'
<1> DEFINE c == Head(calls[t])
           op == "unlink"
<1>1. Running(t, op) /\ op \in KernelCalls /\ op \in PointerCalls /\ op \notin HandlerCalls
  BY CallNames DEF UnlinkConnection, HandlerCalls
<1>2. /\ calls[t] # <<>> /\ c.op = op
      /\ c.sid \in SessionIds /\ c.cid \in ConnectionIds /\ t \in Clients
  BY <1>1, RunningType, ClientOnly DEF IInv
<1>3. Alive(c.sid, c.gen) /\ Exists(c.sid)
  BY <1>1, HeadLive DEF Alive
<1>4. SetConnection(c.sid, c.cid, "none") /\ Return(t)
  BY <1>3 DEF UnlinkConnection
<1> HIDE DEF c
<1>5. SameSessions /\ \A s \in SessionIds, d \in ConnectionIds : Exists(s) =>
        (Linked(s, d)' <=> Linked(s, d) /\ ~(s = c.sid /\ d = c.cid))
  BY <1>2, <1>3, <1>4, SetConnectionLinks DEF IInv
<1>6. \A s, d : Removes(c, s, d) => s = c.sid /\ d = c.cid
  BY DEF Removes
<1> QED
  BY <1>1, <1>2, <1>4, <1>5, <1>6, SameStays, InsideReturn DEF c

LEMMA ReleaseConnectionMethodSafe ==
  ASSUME IInv, Safe, NEW t \in Threads, ReleaseConnectionMethod(t)
  PROVE  Safe'
<1> DEFINE c == Head(calls[t])
           op == "ReleaseConnectionMethod"
<1>1. /\ Running(t, op) /\ op \in KernelCalls /\ op \in LastCalls
      /\ {"ReleaseSession", "ReleaseConnection"} \subseteq LookUpCalls \cap KernelCalls
      /\ {"ReleaseSession", "ReleaseConnection"} \cap PointerCalls = {}
  BY DEF ReleaseConnectionMethod, KernelCalls, LookUpCalls, LastCalls, PointerCalls, HoldsSession
<1>2. c.sid \in SessionIds /\ c.cid \in ConnectionIds
  BY <1>1, RunningType DEF IInv
<1>3. PICK next \in {"ReleaseSession", "ReleaseConnection"} :
         CallNext(t, <<Call(next, c.sid, c.cid)>>) /\ UNCHANGED sessionList
  BY DEF ReleaseConnectionMethod
<1> DEFINE a == Call(next, c.sid, c.cid)
<1>4. a \in SessionCall /\ a.op = next
  BY <1>1, <1>2, CallType
<1>5. CallNext(t, <<a>>)
  BY <1>3
<1> HIDE DEF a
<1> QED
  BY <1>1, <1>3, <1>4, <1>5, SameList, OneSafe

\* The connection will be taken out of its session, and the wait for the gate follows.
LEMMA ReleaseConnectionSafe ==
  ASSUME IInv, Safe, NEW t \in Threads, ReleaseConnection(t)
  PROVE  Safe'
<1> DEFINE c == Head(calls[t])
           op == "ReleaseConnection"
           d == Call("DeactivateConnection", c.sid, c.cid)
           a == Rest("unlink", c)
           b == Rest("removeEventSources", c)
           first == IF c.cid \in Enabled(c.sid) THEN <<d>> ELSE <<>>
           next == first \o <<a, b>>
           n == Len(first)
<1>1. /\ Running(t, op) /\ op \in KernelCalls /\ op \notin HandlerCalls /\ op \notin LastCalls
      /\ op \notin PointerCalls
      /\ {"unlink", "removeEventSources"} \subseteq PointerCalls \cap KernelCalls
      /\ "DeactivateConnection" \in LookUpCalls \cap KernelCalls
      /\ "DeactivateConnection" \notin PointerCalls
      /\ {"DeactivateConnection", "unlink", "removeEventSources"} \cap LastCalls = {}
  BY DEF ReleaseConnection, KernelCalls, LookUpCalls, LastCalls, HandlerCalls, PointerCalls, HoldsSession
<1>2. /\ calls[t] # <<>> /\ c.op = op /\ t \in Clients
      /\ c.sid \in SessionIds /\ c.cid \in ConnectionIds
  BY <1>1, RunningType, ClientOnly DEF IInv
<1>3. Exists(c.sid) /\ CallNext(t, next) /\ UNCHANGED sessionList
  BY DEF ReleaseConnection, Connected
<1>4. d \in SessionCall /\ d.op = "DeactivateConnection"
  BY <1>1, <1>2, CallType
<1>5. /\ AliveNext(a.sid, a.gen) /\ a \in SessionCall /\ a.op = "unlink" /\ a.sid = c.sid /\ a.cid = c.cid
      /\ AliveNext(b.sid, b.gen) /\ b \in SessionCall /\ b.op = "removeEventSources" /\ b.sid = c.sid
  <2>1. a.cid = c.cid
    BY DEF Rest
  <2> QED
    BY <1>1, <1>3, <2>1, SameList, RestAlive
<1> HIDE DEF a, b, d
<1>6. first \in Seq(AnyCall) /\ n \in {0, 1} /\ \A i \in 1 .. n : first[i] = d
  BY <1>1, <1>4, KernelCallSequences
<1>7. <<a, b>> \in Seq(AnyCall) /\ Len(<<a, b>>) = 2
  BY <1>1, <1>5, KernelCallSequences
<1> HIDE DEF first
<1>8. /\ next \in Seq(AnyCall) /\ Len(next) = n + 2
      /\ \A i \in 1 .. n : next[i] = d
      /\ next[n + 1] = a /\ next[n + 2] = b
  BY <1>6, <1>7, ConcatProperties
<1> HIDE DEF next, n, c
<1>9. \A i \in 1 .. Len(next) : \/ i \in 1 .. n /\ next[i] = d
                                \/ i = n + 1 /\ next[i] = a
                                \/ i = n + 2 /\ next[i] = b
  BY <1>6, <1>8
<1>10. ASSUME NEW i \in 1 .. Len(next)
       PROVE  /\ next[i].op \in KernelCalls /\ next[i].op \notin LastCalls /\ next[i].op # "free"
              /\ next[i].op \in PointerCalls => AliveNext(next[i].sid, next[i].gen)
              /\ next[i].op = "unlink" => i < Len(next) /\ Waits(next[i + 1], next[i].sid)
  <2>1. CASE next[i] = d
    BY <1>1, <1>4, <2>1
  <2>2. CASE i = n + 1 /\ next[i] = a
    <3>1. i < Len(next) /\ next[i + 1] = b
      BY <1>6, <1>8, <2>2
    <3> QED
      BY <1>1, <1>5, <2>2, <3>1 DEF Waits
  <2>3. CASE next[i] = b
    BY <1>1, <1>5, <2>3
  <2> QED
    BY <1>9, <2>1, <2>2, <2>3
<1>11. ASSUME NEW sid, NEW cid, Removes(c, sid, cid)
       PROVE  \E k \in 1 .. Len(next) : Removes(next[k], sid, cid)
  <2>1. n + 1 \in 1 .. Len(next)
    BY <1>6, <1>8
  <2>2. Removes(a, sid, cid)
    BY <1>5, <1>11 DEF Removes
  <2> QED
    BY <1>8, <2>1, <2>2
<1>12. c.op \in KernelCalls /\ c.op # "removeEventSources"
  BY <1>1, <1>2
<1> QED
  BY <1>2, <1>3, <1>8, <1>10, <1>11, <1>12, SameList, InsideSafe DEF c

\* Every slot of the session is released before the session is freed.
LEMMA ReleaseSessionSafe ==
  ASSUME IInv, Safe, NEW t \in Threads, ReleaseSession(t)
  PROVE  Safe'
<1> DEFINE c == Head(calls[t])
           op == "ReleaseSession"
           first == ForConnections("ReleaseConnection", c.sid)
           a == Rest("free", c)
           next == first \o <<a>>
           n == MaxConnections
<1>1. /\ Running(t, op) /\ op \in KernelCalls /\ op \notin HandlerCalls /\ op \in LastCalls
      /\ "free" \in PointerCalls \cap KernelCalls
      /\ "ReleaseConnection" \in LookUpCalls \cap KernelCalls
      /\ "ReleaseConnection" \notin PointerCalls /\ "ReleaseConnection" \notin LastCalls
  BY DEF ReleaseSession, KernelCalls, LookUpCalls, LastCalls, HandlerCalls, PointerCalls, HoldsSession
<1>2. calls[t] # <<>> /\ c.op = op /\ t \in Clients /\ c.sid \in SessionIds
  BY <1>1, RunningType, ClientOnly DEF IInv
<1>3. Exists(c.sid) /\ CallNext(t, next) /\ UNCHANGED sessionList
  BY DEF ReleaseSession
<1>4. AliveNext(a.sid, a.gen) /\ a \in SessionCall /\ a.op = "free" /\ a.sid = c.sid
  BY <1>1, <1>3, SameList, RestAlive
<1>5. n \in Nat /\ first \in Seq(AnyCall) /\ Len(first) = n
      /\ \A i \in 1 .. n : first[i].op = "ReleaseConnection" /\ first[i].sid = c.sid /\ first[i].cid = i - 1
  BY <1>1, <1>2, HBAConstants, ForConnectionsCalls
<1> HIDE DEF a, first
<1>6. <<a>> \in Seq(AnyCall) /\ Len(<<a>>) = 1
  BY <1>1, <1>4, KernelCallSequences
<1>7. /\ next \in Seq(AnyCall) /\ Len(next) = n + 1
      /\ \A i \in 1 .. n : next[i] = first[i]
      /\ next[n + 1] = a
  BY <1>5, <1>6, ConcatProperties
<1> HIDE DEF next, n, c
<1>8. \A i \in 1 .. Len(next) : \/ i \in 1 .. n
                                \/ i = n + 1 /\ next[i] = a
  BY <1>5, <1>7
<1>9. ASSUME NEW i \in 1 .. Len(next)
       PROVE  /\ next[i].op \in KernelCalls /\ next[i].op # "unlink"
              /\ next[i].op \in PointerCalls => AliveNext(next[i].sid, next[i].gen)
              /\ next[i].op \in LastCalls => \A j \in 1 .. Len(next) : i < j => next[j].op \notin PointerCalls
              /\ next[i].op = "free" => \A cid \in ConnectionIds :
                    \E k \in 1 .. i - 1 : Removes(next[k], next[i].sid, cid)
  <2>1. CASE i \in 1 .. n
    <3>1. next[i].op = "ReleaseConnection"
      BY <1>5, <1>7, <2>1
    <3> QED
      BY <1>1, <3>1
  <2>2. CASE i = n + 1 /\ next[i] = a
    <3>1. \A j \in 1 .. Len(next) : ~(i < j)
      BY <1>5, <1>7, <2>2
    <3>2. ASSUME NEW cid \in ConnectionIds
          PROVE  \E k \in 1 .. i - 1 : Removes(next[k], next[i].sid, cid)
      <4>1. cid + 1 \in 1 .. n /\ (cid + 1) - 1 = cid /\ i - 1 = n
        BY <1>5, <2>2 DEF ConnectionIds, n
      <4>2. Removes(next[cid + 1], c.sid, cid)
        BY <1>5, <1>7, <4>1 DEF Removes
      <4> QED
        BY <1>4, <2>2, <4>1, <4>2
    <3> QED
      BY <1>1, <1>4, <2>2, <3>1, <3>2
  <2> QED
    BY <1>8, <2>1, <2>2
<1>10. \A sid, cid : ~Removes(c, sid, cid)
  BY <1>2 DEF Removes
<1>11. c.op \in KernelCalls /\ c.op \in LastCalls /\ c.op # "removeEventSources"
  BY <1>1, <1>2
<1> QED
  BY <1>2, <1>3, <1>7, <1>9, <1>10, <1>11, SameList, InsideSafe DEF c

\* Nobody has a pointer to the session that is freed, or to any other one but the
\* workloop, whose handler's session still has a connection.
LEMMA FreeSessionSafe ==
  ASSUME IInv, Safe, NEW t \in Threads, FreeSession(t)
  PROVE  Safe'
<1> DEFINE s == calls[t]
           c == Head(calls[t])
           sid == c.sid
           d == Call("removeName", sid, c.cid)
           next == <<d>>
           op == "free"
<1>1. Running(t, op) /\ op \in PointerCalls /\ op \in KernelCalls /\ op \in LastCalls /\ op \notin HandlerCalls
  BY CallNames DEF FreeSession, HandlerCalls, LastCalls
<1>2. calls[t] # <<>> /\ c.op = op /\ t \in Clients /\ sid \in SessionIds /\ t # Workloop
      /\ c.cid \in ConnectionIds
  BY <1>1, RunningType, ClientOnly, HBAConstants DEF IInv
<1>3. sessionList' = [sessionList EXCEPT ![sid] = NoSession] /\ CallNext(t, next)
  BY DEF FreeSession
<1>4. d \in AnyCall /\ d.op \notin PointerCalls
  <2>1. "removeName" \in LookUpCalls /\ "removeName" \notin PointerCalls
    BY CallNames DEF LookUpCalls
  <2> QED
    BY <1>2, <2>1, CallType DEF AnyCall
<1> HIDE DEF d
<1>5. s \in Seq(AnyCall) /\ s # <<>> /\ next \in Seq(AnyCall)
      /\ \A i \in 1 .. Len(next) : next[i].op \notin PointerCalls
  BY <1>2, <1>4, StackType
<1>6. /\ calls'[t] = next \o Tail(s) /\ \A u \in Threads \ {t} : calls'[u] = calls[u]
      /\ Replacing(s, next, calls'[t])
  <2>1. calls'[t] = next \o Tail(s) /\ \A u \in Threads \ {t} : calls'[u] = calls[u]
    BY <1>3 DEF CallNext, IInv, TypeOK
  <2> HIDE DEF next
  <2> QED
    BY <1>5, <2>1, Replaced
<1> HIDE DEF next
<1>7. Len(s) \in Nat \ {0} /\ s[1] = c /\ 1 \in 1 .. Len(s)
  BY <1>6 DEF Replacing
<1>8. Ordered(s) /\ FreesEmptied(s)
  BY <1>2 DEF Safe, StacksSafe
<1>9. \A j \in 2 .. Len(s) : s[j].op \notin PointerCalls
  <2>1. \A j \in 2 .. Len(s) : j \in 1 .. Len(s) /\ 1 < j
    BY <1>7
  <2> HIDE DEF s, c
  <2> QED
    BY <1>1, <1>2, <1>7, <1>8, <2>1 DEF Ordered
<1>10. \A cid \in ConnectionIds : ~Linked(sid, cid)
  <2>1. \A k \in 1 .. 1 - 1 : FALSE
    OBVIOUS
  <2> HIDE DEF s, c
  <2> QED
    BY <1>2, <1>7, <1>8, <2>1 DEF FreesEmptied
<1>11. \A u \in Clients \ {t} : NoPointers(calls[u])
  <2>1. ~NoPointers(s)
    BY <1>1, <1>2, <1>7 DEF NoPointers
  <2> QED
    BY <1>2, <2>1, PointersInside DEF Safe
<1> HIDE DEF s, c
<1>12. NoPointers(calls'[t])
  <2>1. \A i \in 1 .. Len(calls'[t]) : \/ \E k \in 1 .. Len(next) : calls'[t][i] = next[k]
                                       \/ \E j \in 2 .. Len(s) : calls'[t][i] = s[j]
    BY <1>6 DEF Replacing
  <2> QED
    BY <1>5, <1>9, <2>1 DEF NoPointers
<1>13. ASSUME NEW u \in Clients
       PROVE  (Ordered(calls[u]) /\ PointersLive(calls[u]) /\ FreesEmptied(calls[u]))'
  <2>1. NoPointers(calls'[u])
    BY <1>6, <1>11, <1>12 DEF Threads
  <2>2. Ordered(calls[u])'
    BY <2>1, CallLists DEF NoPointers, Ordered
  <2>3. PointersLive(calls[u])' /\ FreesEmptied(calls[u])'
    BY <2>1, CallLists DEF NoPointers, PointersLive, FreesEmptied
  <2> QED
    BY <2>2, <2>3
<1>14. HandlerSafe'
  <2> SUFFICES ASSUME calls[Workloop] # <<>> PROVE HandlerSafe'
    BY <1>2, <1>6 DEF HandlerSafe, Threads
  <2>1. PICK w \in SessionIds :
            /\ Exists(w) /\ Pinned(w)
            /\ \A i \in 1 .. Len(calls[Workloop]) :
                  LET e == calls[Workloop][i]
                  IN  /\ e.op \in HandlerCalls /\ e.sid = w
                      /\ e.op \in PointerCalls => e.gen = sessionList[w].gen
    BY DEF Safe, HandlerSafe
  <2>2. ASSUME NEW u \in Clients, NEW i \in 1 .. Len(calls[u]) PROVE ~Waits(calls[u][i], w)
    <3>1. CASE u = t
      <4>1. i = 1 \/ i \in 2 .. Len(s)
        BY <1>7, <3>1 DEF s
      <4>2. "removeEventSources" \in PointerCalls
        BY CallNames
      <4> QED
        BY <1>2, <1>7, <1>9, <3>1, <4>1, <4>2 DEF Waits, s
    <3>2. CASE u # t
      BY <1>11, <3>2, NoPointersSafe
    <3> QED
      BY <3>1, <3>2
  <2>3. PICK cid \in ConnectionIds : Linked(w, cid)
    BY <2>1, <2>2 DEF Pinned
  <2>4. w # sid
    BY <1>10, <2>3
  <2>5. sessionList'[w] = sessionList[w]
    BY <1>3, <2>4 DEF IInv, TypeOK
  <2>6. Pinned(w)' /\ Exists(w)'
    BY <2>1, <2>3, <2>5 DEF Pinned, Linked, Exists
  <2>7. calls'[Workloop] = calls[Workloop]
    BY <1>2, <1>6 DEF Threads
  <2> QED
    BY <2>1, <2>5, <2>6, <2>7 DEF HandlerSafe
<1> QED
  BY <1>13, <1>14 DEF Safe, StacksSafe

LEMMA RemoveNameSafe ==
  ASSUME IInv, Safe, NEW t \in Threads, RemoveName(t)
  PROVE  Safe'
<1> DEFINE c == Head(calls[t])
<1>1. Running(t, "removeName") /\ "removeName" \in KernelCalls
  BY DEF RemoveName, KernelCalls, LookUpCalls
<1>2. calls[t] # <<>> /\ c.op = "removeName" /\ c.op \in KernelCalls
  BY <1>1 DEF Running
<1>3. Return(t) /\ UNCHANGED sessionList
  BY DEF RemoveName
<1>4. c.op # "removeEventSources" /\ \A sid, cid : ~Removes(c, sid, cid)
  BY <1>2 DEF Removes
<1> HIDE DEF c
<1> QED
  BY <1>2, <1>3, <1>4, SameList, ReturnSafe DEF c

-----------------------------------------------------------------------------
(* The daemon's threads hold no pointer between their calls.               *)

PlainCall == {c \in AnyCall : c.op \notin PointerCalls}

LEMMA PlainStack ==
  ASSUME NEW s \in Seq(PlainCall)
  PROVE  s \in Seq(AnyCall) /\ NoPointers(s)
<1>1. Len(s) \in Nat /\ \A i \in 1 .. Len(s) : s[i] \in PlainCall
  BY LenProperties, ElementOfSeq
<1>2. \A i \in 1 .. Len(s) : s[i] \in AnyCall /\ s[i].op \notin PointerCalls
  BY <1>1 DEF PlainCall
<1>3. s \in [1 .. Len(s) -> AnyCall]
  BY <1>2, LenProperties
<1> QED
  BY <1>1, <1>2, <1>3, SeqDef DEF NoPointers

\* The calls that the daemon's threads put on their stacks.
LEMMA PlainCalls ==
  ASSUME NEW sid \in SessionIds, NEW cid \in ConnectionIds
  PROVE  /\ \A op \in LookUpCalls : Method(Call(op, sid, cid)) \in Seq(PlainCall)
         /\ \A op \in Exchanges : <<Call(op, sid, cid)>> \in Seq(PlainCall)
         /\ LogoutCalls(sid) \in Seq(PlainCall)
<1>1. (LookUpCalls \cup Exchanges \cup {"IOLockLock", "IOLockUnlock"}) \cap PointerCalls = {}
  BY DEF LookUpCalls, Exchanges, PointerCalls, HoldsSession
<1>2. \A op \in LookUpCalls \cup Exchanges, d \in ConnectionIds : Call(op, sid, d) \in PlainCall
  BY <1>1, CallType DEF PlainCall, AnyCall
<1>3. LockAccess \in PlainCall /\ UnlockAccess \in PlainCall
  BY <1>1 DEF LockAccess, UnlockAccess, PlainCall, AnyCall, OtherCall
<1>4. \A op \in LookUpCalls, d \in ConnectionIds : Method(Call(op, sid, d)) \in Seq(PlainCall)
  BY <1>2, <1>3 DEF Method
<1>5. \A op \in Exchanges, d \in ConnectionIds : <<Call(op, sid, d)>> \in Seq(PlainCall)
  BY <1>2
<1> DEFINE a == Method(Call("DeactivateAllConnections", sid, 0))
           b == <<Call("logoutExchange", sid, 0)>>
           c == Method(Call("ReleaseSession", sid, 0))
<1>6. a \in Seq(PlainCall) /\ b \in Seq(PlainCall) /\ c \in Seq(PlainCall)
  BY <1>4, <1>5, Ids DEF LookUpCalls, Exchanges
<1>7. LogoutCalls(sid) = (a \o b) \o c
  BY DEF LogoutCalls
<1> HIDE DEF a, b, c
<1>8. (a \o b) \o c \in Seq(PlainCall)
  BY <1>6
<1> QED
  BY <1>4, <1>5, <1>7, <1>8

\* A step outside the user client, or through its lock: sessions and connections are
\* created only when nobody is inside.
LEMMA OutsideNext ==
  ASSUME IInv, Safe, NEW t \in Clients, calls[t] # <<>>, Head(calls[t]).op \notin KernelCalls,
         NEW next \in Seq(PlainCall), CallNext(t, next), Stays,
         \A sid \in SessionIds, cid \in ConnectionIds :
            Exists(sid) => /\ Linked(sid, cid) => Linked(sid, cid)'
                           /\ Linked(sid, cid)' => Linked(sid, cid) \/ accessLock = None
  PROVE  Safe'
<1> DEFINE s == calls[t]
           new == calls'[t]
<1>1. t \in Threads
  BY DEF Threads
<1>2. s \in Seq(AnyCall) /\ s # <<>> /\ next \in Seq(AnyCall) /\ NoPointers(next)
  BY <1>1, StackType, PlainStack
<1>3. new = next \o Tail(s) /\ \A u \in Threads \ {t} : calls'[u] = calls[u]
  BY <1>1 DEF CallNext, IInv, TypeOK
<1>4. NoPointers(s)
  BY PointersInside DEF Safe
<1> HIDE DEF s, new
<1>5. Replacing(s, next, new)
  BY <1>2, <1>3, Replaced
<1>6. NoPointers(new)
  <2> SUFFICES ASSUME NEW i \in 1 .. Len(new) PROVE new[i].op \notin PointerCalls
    BY DEF NoPointers
  <2>1. CASE i \in 1 .. Len(next)
    BY <1>2, <1>5, <2>1 DEF NoPointers, Replacing
  <2>2. CASE i \notin 1 .. Len(next)
    <3>1. PICK j \in 2 .. Len(s) : i = j - 1 + Len(next)
      BY <1>5, <2>2 DEF Replacing
    <3>2. new[i] = s[j] /\ j \in 1 .. Len(s)
      BY <1>5, <3>1 DEF Replacing
    <3> QED
      BY <1>4, <3>2 DEF NoPointers
  <2> QED
    BY <2>1, <2>2
<1> QED
  BY <1>3, <1>4, <1>6, OutsideSafe DEF s, new

LEMMA OutsideBegin ==
  ASSUME IInv, Safe, NEW t \in Clients, Idle(t), NEW todo \in Seq(PlainCall), Begin(t, todo), Stays,
         \A sid \in SessionIds, cid \in ConnectionIds : Exists(sid) => (Linked(sid, cid)' <=> Linked(sid, cid))
  PROVE  Safe'
<1>1. calls'[t] = todo /\ \A u \in Threads \ {t} : calls'[u] = calls[u]
  BY DEF Begin, Threads, IInv, TypeOK
<1>2. NoPointers(todo)
  BY PlainStack
<1>3. NoPointers(calls[t]) /\ NoPointers(calls'[t])
  BY <1>1, <1>2 DEF Idle, NoPointers
<1> QED
  BY <1>1, <1>3, OutsideSafe

\* Nothing changes that matters.
LEMMA Undisturbed ==
  ASSUME Safe, UNCHANGED <<sessionList, calls>>
  PROVE  Safe'
<1>1. \A t \in Clients : (Ordered(calls[t]) /\ PointersLive(calls[t]) /\ FreesEmptied(calls[t]))'
  <2> SUFFICES ASSUME NEW t \in Clients
               PROVE  Ordered(calls[t])' /\ PointersLive(calls[t])' /\ FreesEmptied(calls[t])'
    OBVIOUS
  <2>1. Ordered(calls[t]) /\ PointersLive(calls[t]) /\ FreesEmptied(calls[t])
    BY DEF Safe, StacksSafe
  <2> QED
    BY <2>1 DEF Ordered, PointersLive, FreesEmptied, Alive, Exists, Linked
<1>2. HandlerSafe'
  BY DEF Safe, HandlerSafe, Pinned, Linked, Exists
<1> QED
  BY <1>1, <1>2 DEF Safe, StacksSafe

\* A session is created: the others stay as they are.
LEMMA CreateSessionStays ==
  ASSUME IInv, NEW iqn \in IQNs, CreateSession(iqn) \/ CreateSessionFails(iqn)
  PROVE  /\ Stays
         /\ \A sid \in SessionIds, cid \in ConnectionIds : Exists(sid) => (Linked(sid, cid)' <=> Linked(sid, cid))
<1>1. \A sid \in SessionIds : Exists(sid) => sessionList'[sid] = sessionList[sid]
  <2>1. CASE CreateSession(iqn)
    BY <2>1, CreateSessionLinks DEF IInv
  <2>2. CASE CreateSessionFails(iqn)
    BY <2>2 DEF CreateSessionFails
  <2> QED
    BY <2>1, <2>2
<1> QED
  BY <1>1 DEF Stays, Exists, Linked

LEMMA UserClientSafe ==
  ASSUME IInv, Safe, NEW t \in Threads, EnterUserClient(t) \/ LeaveUserClient(t)
  PROVE  Safe'
<1>1. PICK op \in {"IOLockLock", "IOLockUnlock"} : Running(t, op)
  BY DEF EnterUserClient, LeaveUserClient
<1>2. op \notin HandlerCalls /\ op \notin KernelCalls
  BY DEF HandlerCalls, KernelCalls, LookUpCalls, PointerCalls, HoldsSession
<1>3. t \in Clients /\ calls[t] # <<>> /\ Head(calls[t]).op \notin KernelCalls
  BY <1>1, <1>2, ClientOnly DEF Running
<1>4. CallNext(t, <<>>) /\ UNCHANGED sessionList
  BY DEF EnterUserClient, LeaveUserClient, Return
<1>5. <<>> \in Seq(PlainCall)
  OBVIOUS
<1> QED
  BY <1>3, <1>4, <1>5, SameList, OutsideNext

LEMMA StepSafe ==
  ASSUME IInv, Safe, NEW t \in Threads, Step(t)
  PROVE  Safe'
BY UserClientSafe, ActivateConnectionSafe, MountFirstSafe, CountSafe, DeactivateConnectionSafe, DoneSafe,
   DeactivateAllConnectionsSafe, ReleaseConnectionSafe, UnlinkConnectionSafe, ReleaseSessionSafe,
   FreeSessionSafe, RemoveNameSafe, ReleaseConnectionMethodSafe, HandleConnectionTimeoutSafe
DEF Step

\* A thread of the daemon that makes its next calls.
LEMMA DaemonStepSafe ==
  ASSUME IInv, Safe, NEW t \in Clients, NEW op \in DaemonCalls, Running(t, op),
         NEW next \in Seq(PlainCall), CallNext(t, next), Stays,
         \A sid \in SessionIds, cid \in ConnectionIds :
            Exists(sid) => /\ Linked(sid, cid) => Linked(sid, cid)'
                           /\ Linked(sid, cid)' => Linked(sid, cid) \/ accessLock = None
  PROVE  Safe'
<1>1. op \notin KernelCalls
  BY DEF DaemonCalls, Exchanges, KernelCalls, LookUpCalls, PointerCalls, HoldsSession
<1>2. calls[t] # <<>> /\ Head(calls[t]).op = op
  BY DEF Running
<1> QED
  BY <1>1, <1>2, OutsideNext

LEMMA SessionLoginSafe ==
  ASSUME IInv, Safe, NEW t \in Clients, SessionLogin(t) \/ SessionAddConnection(t)
  PROVE  Safe'
<1> DEFINE iqn == Head(calls[t]).iqn
           sid == targetList[iqn]
           first == <<Call("loginExchange", NewSid, 0)>>
           release == Method(Call("ReleaseConnectionMethod", sid, NewCid(sid)))
           op == "login"
<1>1. Running(t, op) /\ op \in DaemonCalls
  BY DEF SessionLogin, SessionAddConnection, DaemonCalls
<1>2. iqn \in IQNs
  BY <1>1, DaemonCallType DEF IInv
<1>3. <<>> \in Seq(PlainCall)
  OBVIOUS
<1>4. CASE CreateSession(iqn) /\ CallNext(t, first)
  <2>1. NewSid \in SessionIds
    BY <1>2, <1>4, CreateSessionType DEF IInv
  <2>2. first \in Seq(PlainCall)
    BY <2>1, Ids, PlainCalls DEF Exchanges
  <2> HIDE DEF first, iqn
  <2> QED
    BY <1>1, <1>2, <1>4, <2>2, CreateSessionStays, DaemonStepSafe
<1>5. CASE CreateSessionFails(iqn) /\ Return(t)
  <2> HIDE DEF iqn
  <2> QED
    BY <1>1, <1>2, <1>3, <1>5, CreateSessionStays, DaemonStepSafe DEF Return
<1>6. CASE sid # None /\ CreateConnection(sid) /\ CallNext(t, release)
  <2>1. sid \in SessionIds
    BY <1>2, <1>6 DEF IInv, TypeOK
  <2>2. NewCid(sid) \in ConnectionIds
    BY <1>6, FreeConnectionIsId DEF CreateConnection, NewCid
  <2>3. release \in Seq(PlainCall)
    BY <2>1, <2>2, PlainCalls DEF LookUpCalls
  <2> HIDE DEF release, sid
  <2> QED
    BY <1>1, <1>6, <2>1, <2>3, CreateConnectionLinks, SameStays, DaemonStepSafe
<1>7. CASE Return(t) /\ UNCHANGED sessionList
  BY <1>1, <1>3, <1>7, SameList, DaemonStepSafe DEF Return
<1> QED
  BY <1>4, <1>5, <1>6, <1>7 DEF SessionLogin, SessionAddConnection

\* The exchanges leave the sessions alone.
LEMMA ExchangeSafe ==
  ASSUME IInv, Safe, NEW t \in Clients,
         LoginExchange(t) \/ Exchange(t) \/ LogoutExchange(t) \/ DiscoveryLogin(t)
  PROVE  Safe'
<1> DEFINE c == Head(calls[t])
           release == Method(Call("ReleaseSession", c.sid, 0))
           activate == Method(Call("ActivateConnection", c.sid, c.cid))
           lost == LostIn(c)
           exchange == <<Call("exchange", c.sid, c.cid)>>
           logout == LogoutCalls(c.sid)
           first == LostIn(Call("exchange", c.sid, Min(Connections(c.sid))))
<1>1. PICK op \in Exchanges : Running(t, op)
  BY DEF LoginExchange, Exchange, LogoutExchange, DiscoveryLogin, Exchanges
<1>2. op \in DaemonCalls
  BY DEF DaemonCalls
<1>3. c.sid \in SessionIds /\ c.cid \in ConnectionIds
  BY <1>1, <1>2, DaemonCallType DEF IInv
<1>4. UNCHANGED sessionList
  BY DEF LoginExchange, Exchange, LogoutExchange, DiscoveryLogin
<1>5. {"ReleaseSession", "ActivateConnection", "HandleConnectionTimeout"} \subseteq LookUpCalls /\ "exchange" \in Exchanges
  BY DEF LookUpCalls, Exchanges
<1>6. /\ release \in Seq(PlainCall) /\ activate \in Seq(PlainCall) /\ lost \in Seq(PlainCall)
      /\ exchange \in Seq(PlainCall) /\ logout \in Seq(PlainCall) /\ <<>> \in Seq(PlainCall)
  <2>1. \A other \in LookUpCalls, d \in ConnectionIds : Method(Call(other, c.sid, d)) \in Seq(PlainCall)
    BY <1>3, PlainCalls
  <2>2. exchange \in Seq(PlainCall) /\ logout \in Seq(PlainCall)
    BY <1>3, <1>5, PlainCalls
  <2>3. lost = Method(Call("HandleConnectionTimeout", c.sid, c.cid)) /\ 0 \in ConnectionIds
    BY Ids DEF LostIn
  <2> HIDE DEF lost
  <2> QED
    BY <1>3, <1>5, <2>1, <2>2, <2>3
<1>7. Connections(c.sid) # {} => first \in Seq(PlainCall)
  <2> SUFFICES ASSUME Connections(c.sid) # {} PROVE first \in Seq(PlainCall)
    OBVIOUS
  <2>1. Connections(c.sid) \subseteq ConnectionIds
    BY DEF Connections
  <2>2. Min(Connections(c.sid)) \in ConnectionIds
    BY <2>1, MinOfIds, Ids
  <2> DEFINE d == Min(Connections(c.sid))
  <2> HIDE DEF d
  <2>3. Method(Call("HandleConnectionTimeout", c.sid, d)) \in Seq(PlainCall)
    BY <1>3, <1>5, <2>2, PlainCalls DEF d
  <2> QED
    BY <2>3 DEF LostIn, Call, d
<1>8. \/ \E next \in {<<>>, activate, release, lost, lost \o release, exchange \o logout,
                      release \o (exchange \o logout)} : CallNext(t, next)
      \/ Connections(c.sid) # {} /\ CallNext(t, first)
  BY DEF LoginExchange, Exchange, LogoutExchange, DiscoveryLogin, Return
<1> HIDE DEF release, activate, lost, exchange, logout, first, c
<1>9. PICK next \in Seq(PlainCall) : CallNext(t, next)
  <2>1. /\ lost \o release \in Seq(PlainCall) /\ exchange \o logout \in Seq(PlainCall)
        /\ release \o (exchange \o logout) \in Seq(PlainCall)
    BY <1>6
  <2> QED
    BY <1>6, <1>7, <1>8, <2>1
<1> QED
  BY <1>1, <1>2, <1>4, <1>9, SameList, DaemonStepSafe

\* What follows a notification.
LEMMA PlainNotification ==
  ASSUME NEW sid \in SessionIds, NEW cid \in ConnectionIds
  PROVE  /\ ReleaseLost(sid, cid) \in Seq(PlainCall)
         /\ <<Crash>> \in Seq(PlainCall) /\ <<>> \in Seq(PlainCall)
         /\ \A iqn \in IQNs : /\ <<LoginCall(iqn)>> \in Seq(PlainCall)
                              /\ <<PortalCall(iqn, sid, cid)>> \in Seq(PlainCall)
<1>1. ReleaseLost(sid, cid) \in Seq(PlainCall)
  BY PlainCalls DEF ReleaseLost, LookUpCalls
<1>2. Crash \in PlainCall
  BY DEF Crash, PlainCall, AnyCall, OtherCall, PointerCalls, HoldsSession
<1>3. ASSUME NEW iqn \in IQNs
      PROVE  LoginCall(iqn) \in PlainCall /\ PortalCall(iqn, sid, cid) \in PlainCall
  <2>1. LoginCall(iqn) \in PlainCall
    BY DEF LoginCall, PlainCall, AnyCall, LoginRequest, PointerCalls, HoldsSession
  <2>2. PortalCall(iqn, sid, cid) \in PlainCall
    BY DEF PortalCall, PlainCall, AnyCall, PortalRequest, PointerCalls, HoldsSession
  <2> QED
    BY <2>1, <2>2
<1> QED
  BY <1>1, <1>2, <1>3

LEMMA CopyPortalSafe ==
  ASSUME IInv, Safe, NEW t \in Clients, CopyPortal(t)
  PROVE  Safe'
<1> DEFINE c == Head(calls[t])
           release == ReleaseLost(c.sid, c.cid)
           op == "copyPortal"
<1>1. Running(t, op) /\ op \in DaemonCalls
  BY DEF CopyPortal, DaemonCalls
<1>2. c.sid \in SessionIds /\ c.cid \in ConnectionIds /\ c.iqn \in IQNs /\ UNCHANGED sessionList
  BY CopyPortalCalls DEF IInv
<1>3. PICK next \in AfterPortal(c) : CallNext(t, release \o next)
  BY CopyPortalCalls DEF IInv
<1>4. release \in Seq(PlainCall)
  BY <1>2, PlainNotification
<1>5. next \in Seq(PlainCall)
  BY <1>2, <1>3, PlainNotification DEF AfterPortal
<1> HIDE DEF release, c
<1>6. release \o next \in Seq(PlainCall)
  BY <1>4, <1>5
<1> QED
  BY <1>1, <1>2, <1>3, <1>6, SameList, DaemonStepSafe

LEMMA ClientStepSafe ==
  ASSUME IInv, Safe, NEW t \in Clients, ClientStep(t)
  PROVE  Safe'
BY StepSafe, SessionLoginSafe, ExchangeSafe, CopyPortalSafe DEF ClientStep, Threads

-----------------------------------------------------------------------------
(* Handlers, and what the daemon's threads start.                          *)

LEMMA HandlerStarts ==
  ASSUME IInv, Safe, NEW handler \in Seq(AnyCall), StartHandler(handler),
         NEW sid \in SessionIds, NEW cid \in ConnectionIds, Exists(sid), Linked(sid, cid),
         \A i \in 1 .. Len(handler) :
            /\ handler[i].op \in HandlerCalls /\ handler[i].sid = sid
            /\ handler[i].op \in PointerCalls => handler[i].gen = sessionList[sid].gen
  PROVE  Safe'
<1>1. Workloop \notin Clients /\ Workloop \in Threads /\ Clients \subseteq Threads
  BY HBAConstants DEF Threads
<1>2. UNCHANGED sessionList /\ calls'[Workloop] = handler /\ \A t \in Clients : calls'[t] = calls[t]
  BY <1>1 DEF StartHandler, IInv, TypeOK
<1>3. Exists(sid)' /\ Pinned(sid)' /\ sessionList'[sid].gen = sessionList[sid].gen
  BY <1>2 DEF Exists, Linked, Pinned
<1>4. HandlerSafe'
  BY <1>2, <1>3 DEF HandlerSafe
<1>5. \A t \in Clients : (Ordered(calls[t]) /\ PointersLive(calls[t]) /\ FreesEmptied(calls[t]))'
  BY <1>2, SameList, ClientKept
<1> QED
  BY <1>4, <1>5 DEF Safe, StacksSafe

LEMMA ConnectionLostSafe ==
  ASSUME IInv, Safe, ConnectionLost
  PROVE  Safe'
<1>1. PICK sid \in SessionIds, cid \in ConnectionIds, failures \in {1, 2} :
         /\ Connected(sid, cid)
         /\ StartHandler([i \in 1 .. failures |-> Call("HandleConnectionTimeout", sid, cid)])
  BY DEF ConnectionLost
<1> DEFINE c == Call("HandleConnectionTimeout", sid, cid)
           handler == [i \in 1 .. failures |-> c]
<1>2. Exists(sid) /\ Linked(sid, cid)
  BY <1>1 DEF Connected, Connections, Linked
<1>3. "HandleConnectionTimeout" \in LookUpCalls \cap HandlerCalls /\ "HandleConnectionTimeout" \notin PointerCalls
  BY DEF LookUpCalls, HandlerCalls, PointerCalls, HoldsSession
<1>4. c \in AnyCall /\ c.op = "HandleConnectionTimeout" /\ c.sid = sid
  BY <1>3, CallType DEF AnyCall, Call
<1>5. StartHandler(handler)
  BY <1>1
<1> HIDE DEF c
<1>6. /\ handler \in Seq(AnyCall)
      /\ \A i \in 1 .. Len(handler) : handler[i] = c
  <2>1. failures \in Nat /\ handler \in [1 .. failures -> AnyCall]
    BY <1>4
  <2>2. handler \in Seq(AnyCall)
    BY <2>1, SeqDef
  <2>3. Len(handler) = failures
    BY <2>1, <2>2, LenProperties
  <2> QED
    BY <2>2, <2>3
<1> HIDE DEF handler
<1> QED
  BY <1>2, <1>3, <1>4, <1>5, <1>6, HandlerStarts

LEMMA ProcessAsyncMsgSafe ==
  ASSUME IInv, Safe, ProcessAsyncMsg, AsyncEvents \subseteq {"logout"}
  PROVE  Safe'
<1>1. PICK sid \in SessionIds, cid \in ConnectionIds :
         /\ Connected(sid, cid)
         /\ StartHandler(<<AsyncCall("logout", sid, cid),
                           Rest("notifyAsync", Call("logout", sid, cid))>>)
  BY DEF ProcessAsyncMsg
<1> DEFINE c == AsyncCall("logout", sid, cid)
           d == Rest("notifyAsync", Call("logout", sid, cid))
           handler == <<c, d>>
<1>2. Exists(sid) /\ Linked(sid, cid)
  BY <1>1 DEF Connected, Connections, Linked
<1>3. /\ "DeactivateConnection" \in LookUpCalls \cap HandlerCalls /\ "DeactivateConnection" \notin PointerCalls
      /\ "notifyAsync" \in PointerCalls \cap HandlerCalls
  BY DEF LookUpCalls, HandlerCalls, PointerCalls, HoldsSession
<1>4. c \in SessionCall /\ c.op = "DeactivateConnection" /\ c.sid = sid
  <2>1. c = Call("DeactivateConnection", sid, cid)
    BY DEF AsyncCall
  <2> QED
    BY <1>3, <2>1, CallType DEF Call
<1>5. d \in SessionCall /\ d.op = "notifyAsync" /\ d.sid = sid /\ d.gen = sessionList[sid].gen
  <2>1. sessionList[sid].gen \in 1 .. MaxCreated
    BY <1>2 DEF IInv, TypeOK, Exists, Session
  <2>2. d = [op |-> "notifyAsync", sid |-> sid, cid |-> cid, gen |-> sessionList[sid].gen]
    BY DEF Rest, Call
  <2> HIDE DEF d
  <2> QED
    BY <1>3, <2>1, <2>2 DEF SessionCall
<1>6. StartHandler(handler)
  BY <1>1
<1> HIDE DEF c, d
<1>7. handler \in Seq(AnyCall) /\ \A i \in 1 .. Len(handler) : handler[i] \in {c, d}
  BY <1>3, <1>4, <1>5, KernelCallSequences, CallLists
<1>8. \A i \in 1 .. Len(handler) :
         /\ handler[i].op \in HandlerCalls /\ handler[i].sid = sid
         /\ handler[i].op \in PointerCalls => handler[i].gen = sessionList[sid].gen
  BY <1>3, <1>4, <1>5, <1>7
<1> HIDE DEF handler
<1> QED
  BY <1>2, <1>6, <1>7, <1>8, HandlerStarts

LEMMA BeginSessionSafe ==
  ASSUME IInv, Safe, NEW t \in Clients, Idle(t), NEW iqn \in IQNs, NEW todo,
         NewSid \in SessionIds => todo \in Seq(PlainCall),
         \/ CreateSession(iqn) /\ Begin(t, todo)
         \/ CreateSessionFails(iqn) /\ UNCHANGED calls
  PROVE  Safe'
<1>1. CASE CreateSession(iqn) /\ Begin(t, todo)
  <2>1. NewSid \in SessionIds
    BY <1>1, CreateSessionType DEF IInv
  <2> QED
    BY <1>1, <2>1, CreateSessionStays, OutsideBegin
<1>2. CASE CreateSessionFails(iqn) /\ UNCHANGED calls
  BY <1>2, Undisturbed DEF CreateSessionFails
<1> QED
  BY <1>1, <1>2

LEMMA StartsSafe ==
  ASSUME IInv, Safe, NEW iqn \in IQNs, Login(iqn) \/ Logout(iqn) \/ QueryTarget(iqn) \/ Discover
  PROVE  Safe'
<1>1. Main \in Clients /\ Discovery \in Clients /\ DiscoveryIQN \in IQNs
  BY SessionManagerConstants
<1>2. CASE Login(iqn)
  <2>1. LoginCall(iqn) \in PlainCall
    BY DEF LoginCall, PlainCall, AnyCall, LoginRequest, PointerCalls, HoldsSession
  <2>2. <<LoginCall(iqn)>> \in Seq(PlainCall)
    BY <2>1
  <2> QED
    BY <1>1, <1>2, <2>2, SameList, OutsideBegin DEF Login
<1>3. CASE Logout(iqn)
  <2>1. targetList[iqn] \in SessionIds
    BY <1>3 DEF Logout, IInv, TypeOK
  <2>2. LogoutCalls(targetList[iqn]) \in Seq(PlainCall)
    BY <2>1, Ids, PlainCalls
  <2> QED
    BY <1>1, <1>3, <2>2, SameList, OutsideBegin DEF Logout
<1>4. CASE QueryTarget(iqn)
  <2> DEFINE exchange == <<Call("exchange", NewSid, 0)>>
             release == Method(Call("ReleaseSession", NewSid, 0))
             todo == exchange \o release
  <2>1. ASSUME NewSid \in SessionIds
        PROVE  exchange \in Seq(PlainCall) /\ release \in Seq(PlainCall)
    BY <2>1, Ids, PlainCalls DEF LookUpCalls, Exchanges
  <2>2. \/ CreateSession(iqn) /\ Begin(Main, todo)
        \/ CreateSessionFails(iqn) /\ UNCHANGED calls
    BY <1>4 DEF QueryTarget
  <2> HIDE DEF exchange, release
  <2>3. NewSid \in SessionIds => todo \in Seq(PlainCall)
    BY <2>1
  <2> HIDE DEF todo
  <2> QED
    BY <1>1, <1>4, <2>2, <2>3, BeginSessionSafe DEF QueryTarget
<1>5. CASE Discover
  <2> DEFINE todo == <<Call("discoveryLogin", NewSid, 0)>>
  <2>1. NewSid \in SessionIds => todo \in Seq(PlainCall)
    BY Ids, PlainCalls DEF Exchanges
  <2>2. \/ CreateSession(DiscoveryIQN) /\ Begin(Discovery, todo)
        \/ CreateSessionFails(DiscoveryIQN) /\ UNCHANGED calls
    BY <1>5 DEF Discover
  <2> HIDE DEF todo
  <2> QED
    BY <1>1, <1>5, <2>1, <2>2, BeginSessionSafe DEF Discover
<1> QED
  BY <1>2, <1>3, <1>4, <1>5

LEMMA HandleNotificationSafe ==
  ASSUME IInv, Safe, HandleNotification
  PROVE  Safe'
<1> DEFINE n == Head(notifications)
           release == ReleaseLost(n.sid, n.cid)
<1>1. /\ Main \in Clients /\ Idle(Main) /\ UNCHANGED sessionList
      /\ n.sid \in SessionIds /\ n.cid \in ConnectionIds
  BY NotificationBegins DEF IInv
<1>2. PICK todo \in NotificationCalls(n) : Begin(Main, todo)
  BY NotificationBegins DEF IInv
<1>3. release \in Seq(PlainCall) /\ <<Crash>> \in Seq(PlainCall)
  BY <1>1, PlainNotification
<1> HIDE DEF release
<1>4. release \o <<Crash>> \in Seq(PlainCall)
  BY <1>3
<1>5. todo \in Seq(PlainCall)
  <2>1. CASE todo = release \o <<Crash>>
    BY <1>4, <2>1
  <2>2. CASE todo \in {<<>>} \cup {<<PortalCall(iqn, n.sid, n.cid)>> : iqn \in IQNs}
    BY <1>1, <2>2, PlainNotification
  <2> QED
    BY <1>2, <2>1, <2>2 DEF NotificationCalls, release
<1> QED
  BY <1>1, <1>2, <1>5, SameList, OutsideBegin

LEMMA InitSafe ==
  ASSUME HBAInit
  PROVE  Safe
<1>1. \A t \in Threads : calls[t] = <<>>
  BY DEF HBAInit
<1>2. \A t \in Threads : NoPointers(calls[t])
  BY <1>1 DEF NoPointers
<1>3. HandlerSafe
  BY <1>1 DEF HandlerSafe, Threads
<1> QED
  BY <1>2, <1>3, NoPointersSafe DEF Safe, StacksSafe, Threads

LEMMA NextSafe ==
  ASSUME IInv, Safe, [Next]_hbaVars, AsyncEvents \subseteq {"logout"}
  PROVE  Safe'
<1>1. CASE \E t \in Clients : ClientStep(t)
  BY <1>1, ClientStepSafe
<1>2. CASE WorkloopStep
  BY <1>2, StepSafe DEF WorkloopStep, Threads
<1>3. CASE ConnectionLost \/ ProcessAsyncMsg
  BY <1>3, ConnectionLostSafe, ProcessAsyncMsgSafe
<1>4. CASE \E iqn \in IQNs \ {DiscoveryIQN} : Login(iqn) \/ Logout(iqn) \/ QueryTarget(iqn)
  BY <1>4, StartsSafe
<1>5. CASE HandleNotification
  BY <1>5, HandleNotificationSafe
<1>6. CASE Discover
  BY <1>6, StartsSafe, SessionManagerConstants
<1>7. CASE UNCHANGED hbaVars
  BY <1>7, Undisturbed DEF hbaVars
<1> QED
  BY <1>1, <1>2, <1>3, <1>4, <1>5, <1>6, <1>7 DEF Next, LiveStep

SafeInv == IInv /\ Safe

LEMMA SafeMeansAlive ==
  ASSUME IInv, Safe
  PROVE  NoUseAfterFree
<1> SUFFICES ASSUME NEW t \in Threads, NEW i \in 1 .. Len(calls[t]), calls[t][i].op \in HoldsSession
             PROVE  Alive(calls[t][i].sid, calls[t][i].gen)
  BY DEF NoUseAfterFree
<1>1. calls[t][i].op \in PointerCalls
  BY DEF PointerCalls
<1>2. CASE t = Workloop
  <2>1. calls[Workloop] # <<>>
    <3>1. Len(calls[Workloop]) # 0
      BY <1>2, StackType
    <3> QED
      BY <3>1, EmptySeq
  <2> QED
    BY <1>1, <1>2, <2>1 DEF Safe, HandlerSafe, Alive
<1>3. CASE t # Workloop
  <2>1. t \in Clients
    BY <1>3 DEF Threads
  <2> QED
    BY <1>1, <2>1 DEF Safe, StacksSafe, PointersLive
<1> QED
  BY <1>2, <1>3

\* As long as no target drops sessions or connections by asynchronous messages, no
\* thread is ever left with a pointer to a session that has been freed: accessLock keeps
\* the daemon's threads apart, a session is freed only when its connections are gone,
\* and iSCSIVirtualHBA::ReleaseConnection waits for the command gate before it frees a
\* connection, so that a handler of the workloop that still works on the session ends
\* first.
THEOREM PointersStayAlive ==
  ASSUME AsyncEvents \subseteq {"logout"}
  PROVE  Spec => []NoUseAfterFree
<1>1. HBAInit => SafeInv
  BY InitOK, InitSafe DEF SafeInv
<1>2. SafeInv /\ [Next]_hbaVars => SafeInv'
  BY NextOK, NextSafe DEF SafeInv
<1>3. SafeInv => NoUseAfterFree
  BY SafeMeansAlive DEF SafeInv
<1> QED
  BY <1>1, <1>2, <1>3, PTL DEF Spec

-----------------------------------------------------------------------------
(* Enabled connections: their sessions are mounted, and counted right.     *)

\* Calls after which a session is gone.
Dooms(c) == c.op \in {"ReleaseSession", "free", "discoveryLogin"}
Doomed(sid) ==
    \E t \in Clients : \E i \in 1 .. Len(calls[t]) :
        Dooms(calls[t][i]) /\ calls[t][i].sid = sid

\* What a login does with its session, and what else the run loop may do to a session
\* without releasing it in the end.
Activating == {"loginExchange", "ActivateConnection", "mount", "increment"}
Spares == {"ReleaseConnectionMethod", "ReleaseConnection", "DeactivateConnection",
           "decrement", "unmount", "unlink", "removeEventSources", "copyPortal"} \cup Activating
MustEnd(t, c) == c.sid # None /\ c.op # "removeName" /\ ~(t = Main /\ c.op \in Spares)

\* What only the run loop does, and has nothing to do after.
Lasts == {"login", "copyPortal"}
USE DEF Lasts

\* A stack of a thread of the daemon: every other call is followed by one that dooms
\* the session.  A login is the last that the run loop has to do, and takes the first
\* connection of its session.
Course(t, s) ==
    \A i \in 1 .. Len(s) :
        /\ MustEnd(t, s[i]) => \E j \in i .. Len(s) : Dooms(s[j]) /\ s[j].sid = s[i].sid
        /\ s[i].op \in Activating =>
              /\ t = Main /\ s[i].cid = 0
              /\ \A j \in 1 .. Len(s) : j # i => s[j].sid = None /\ s[j].op \notin Lasts
        /\ s[i].op \in Lasts => t = Main /\ i = Len(s)
Courses == \A t \in Clients : Course(t, calls[t])

\* Only the first connection of a session is ever enabled.
FirstOnly == \A sid \in SessionIds : Exists(sid) => Enabled(sid) \subseteq {0}
Up(sid) == Exists(sid) /\ 0 \in Enabled(sid)

\* Calls that lower the count, or unmount the target, of a session whose first
\* connection stays enabled, and the call that disables it.
Lowers(c) ==
    \/ c.op \in {"decrement", "unmount"}
    \/ c.op \in {"DeactivateConnection", "HandleConnectionTimeout"} /\ c.cid # 0
Stops(c, sid) == c.op = "DeactivateConnection" /\ c.sid = sid /\ c.cid = 0
Covered(s) ==
    \A i \in 1 .. Len(s) : Lowers(s[i]) /\ Up(s[i].sid) =>
        Doomed(s[i].sid) \/ \E k \in 1 .. i - 1 : Stops(s[k], s[i].sid)

\* What the run loop has still to do for a session.
Pending(ops, sid) ==
    \E i \in 1 .. Len(calls[Main]) : calls[Main][i].op \in ops /\ calls[Main][i].sid = sid

\* A session that is being logged in has no enabled connection, no handler works on it,
\* and its count is 0.
FreshOK(sid) ==
    /\ ~Up(sid)
    /\ \A i \in 1 .. Len(calls[Workloop]) : calls[Workloop][i].sid # sid
    /\ Exists(sid) /\ ~Doomed(sid) => sessionList[sid].active = 0

\* A session with an enabled connection: its target is mounted, then it is counted.
UpOK(sid) ==
    /\ sid \in targets \/ Pending({"mount"}, sid)
    /\ sessionList[sid].active = IF Pending({"mount", "increment"}, sid) THEN 0 ELSE 1

Mounts ==
    /\ Courses /\ FirstOnly
    /\ \A t \in Threads : Covered(calls[t])
    /\ \A sid \in SessionIds :
          /\ Pending({"loginExchange", "ActivateConnection"}, sid) => FreshOK(sid)
          /\ Up(sid) /\ ~Doomed(sid) => UpOK(sid)

LEMMA CallSids ==
  ASSUME NEW c \in AnyCall
  PROVE  /\ c.op \in KernelCalls \cup Exchanges => c.sid \in SessionIds /\ c.cid \in ConnectionIds
         /\ c.sid # None => c.op \in KernelCalls \cup Exchanges \cup {"copyPortal"} /\ c.sid \in SessionIds
         /\ c.op \in Activating \cup {"decrement", "unmount", "DeactivateConnection",
                      "HandleConnectionTimeout", "ReleaseSession", "free", "discoveryLogin"}
               => c.sid \in SessionIds /\ c.sid # None
<1>1. None \notin SessionIds
  BY HBAConstants DEF SessionIds
<1>2. c.op \in KernelCalls \cup Exchanges => c.sid \in SessionIds /\ c.cid \in ConnectionIds
  BY DEF AnyCall, SessionCall, OtherCall, LoginRequest, PortalRequest, KernelCalls, PointerCalls,
         HoldsSession, LookUpCalls, Exchanges
<1>3. c.sid # None => c.op \in KernelCalls \cup Exchanges \cup {"copyPortal"} /\ c.sid \in SessionIds
  BY DEF AnyCall, SessionCall, OtherCall, LoginRequest, PortalRequest, KernelCalls
<1>4. Activating \cup {"decrement", "unmount", "DeactivateConnection", "HandleConnectionTimeout",
                       "ReleaseSession", "free", "discoveryLogin"} \subseteq KernelCalls \cup Exchanges
  BY DEF Activating, KernelCalls, PointerCalls, HoldsSession, LookUpCalls, Exchanges
<1> QED
  BY <1>1, <1>2, <1>3, <1>4

\* The list c is a, and then b.
Joins(c, a, b) ==
    /\ c \in Seq(AnyCall) /\ Len(c) = Len(a) + Len(b) /\ Len(a) \in Nat /\ Len(b) \in Nat
    /\ \A i \in 1 .. Len(c) : c[i] = IF i <= Len(a) THEN a[i] ELSE b[i - Len(a)]

LEMMA Concat ==
  ASSUME NEW a \in Seq(AnyCall), NEW b \in Seq(AnyCall), NEW c, c = a \o b
  PROVE  Joins(c, a, b)
<1>1. Len(a) \in Nat /\ Len(b) \in Nat
  BY LenProperties
<1> QED
  BY <1>1, ConcatProperties DEF Joins

LEMMA OneOrMore ==
  ASSUME NEW n \in Nat \ {0}, ~(n > 1)
  PROVE  n = 1
OBVIOUS

\* The stack of t changes: h, if it has one, is replaced by next.
Turn(t, h, next) ==
    /\ \A u \in Threads \ {t} : calls'[u] = calls[u]
    /\ Len(next) \in Nat /\ Len(calls[t]) \in Nat /\ Len(calls'[t]) \in Nat
    /\ \A i \in 1 .. Len(calls'[t]) :
          \/ \E k \in 1 .. Len(next) : calls'[t][i] = next[k]
          \/ \E j \in 1 .. Len(calls[t]) : calls'[t][i] = calls[t][j] /\ (j = 1 => calls[t] = <<>>)
    /\ \A j \in 1 .. Len(calls[t]) :
          (j = 1 /\ calls[t][j] = h) \/ \E i \in 1 .. Len(calls'[t]) : calls'[t][i] = calls[t][j]
    /\ \A k \in 1 .. Len(next) : \E i \in 1 .. Len(calls'[t]) : calls'[t][i] = next[k]

\* What a step with h at the head of a stack does to the sessions.
Effect(h) ==
    \A sid \in SessionIds : Exists(sid)' =>
        /\ Up(sid)' => Up(sid) \/ (h.op = "ActivateConnection" /\ h.sid = sid)
        /\ Enabled(sid)' \subseteq {0}
        /\ Exists(sid) => \/ sessionList'[sid].active = sessionList[sid].active
                          \/ h.op \in {"increment", "decrement"} /\ h.sid = sid
        /\ ~Exists(sid) => sessionList'[sid].active = 0
        /\ sid \in targets => sid \in targets' \/ (h.op = "unmount" /\ h.sid = sid)

LEMMA TurnNext ==
  ASSUME IInv, NEW t \in Threads, calls[t] # <<>>, NEW next \in Seq(AnyCall), CallNext(t, next)
  PROVE  /\ Turn(t, Head(calls[t]), next)
         /\ Replacing(calls[t], next, calls'[t])
         /\ 1 \in 1 .. Len(calls[t]) /\ Head(calls[t]) = calls[t][1]
<1> DEFINE s == calls[t]
           new == calls'[t]
<1>1. s \in Seq(AnyCall) /\ Len(s) \in Nat
  BY StackType
<1>2. new = next \o Tail(s) /\ \A u \in Threads \ {t} : calls'[u] = calls[u]
  BY DEF CallNext, IInv, TypeOK
<1>3. s # <<>>
  OBVIOUS
<1> HIDE DEF s, new
<1>4. Replacing(s, next, new)
  BY <1>1, <1>2, <1>3, Replaced
<1>5. new \in Seq(AnyCall) /\ Len(new) \in Nat
  BY <1>4, LenProperties DEF Replacing
<1>6. \A i \in 1 .. Len(new) : \/ \E k \in 1 .. Len(next) : new[i] = next[k]
                               \/ \E j \in 1 .. Len(s) : new[i] = s[j] /\ (j = 1 => s = <<>>)
  <2> SUFFICES ASSUME NEW i \in 1 .. Len(new), i \notin 1 .. Len(next)
               PROVE  \E j \in 1 .. Len(s) : new[i] = s[j] /\ (j = 1 => s = <<>>)
    BY <1>4 DEF Replacing
  <2>1. PICK j \in 2 .. Len(s) : i = j - 1 + Len(next)
    BY <1>4 DEF Replacing
  <2>2. new[i] = s[j]
    BY <1>4, <2>1 DEF Replacing
  <2>3. j \in 1 .. Len(s) /\ j # 1
    BY <1>1
  <2> QED
    BY <2>2, <2>3
<1>7. \A j \in 1 .. Len(s) : (j = 1 /\ s[j] = Head(s)) \/ \E i \in 1 .. Len(new) : new[i] = s[j]
  <2> SUFFICES ASSUME NEW j \in 1 .. Len(s), j # 1
               PROVE  \E i \in 1 .. Len(new) : new[i] = s[j]
    BY <1>4 DEF Replacing
  <2>1. j \in 2 .. Len(s)
    BY <1>1
  <2> QED
    BY <1>4, <2>1 DEF Replacing
<1>8. \A k \in 1 .. Len(next) : \E i \in 1 .. Len(new) : new[i] = next[k]
  BY <1>4 DEF Replacing
<1>9. Len(next) \in Nat /\ 1 \in 1 .. Len(s) /\ Head(s) = s[1]
  BY <1>4 DEF Replacing
<1> QED
  BY <1>1, <1>2, <1>4, <1>5, <1>6, <1>7, <1>8, <1>9 DEF Turn, s, new

LEMMA TurnBegin ==
  ASSUME IInv, NEW t \in Threads, calls[t] = <<>>, NEW todo \in Seq(AnyCall), NEW h,
         calls' = [calls EXCEPT ![t] = todo]
  PROVE  Turn(t, h, todo) /\ calls'[t] = todo
<1>1. calls'[t] = todo /\ \A u \in Threads \ {t} : calls'[u] = calls[u]
  BY DEF IInv, TypeOK
<1>2. Len(todo) \in Nat /\ Len(calls[t]) = 0
  BY LenProperties, EmptySeq
<1> QED
  BY <1>1, <1>2 DEF Turn

\* A session is doomed until it is gone.
LEMMA DoomedStays ==
  ASSUME NEW t \in Threads, NEW h, NEW next, Turn(t, h, next),
         NEW sid \in SessionIds, Exists(sid)', Doomed(sid),
         Dooms(h) /\ h.sid = sid => \E k \in 1 .. Len(next) : Dooms(next[k]) /\ next[k].sid = sid
  PROVE  Doomed(sid)'
<1>1. PICK u \in Clients : \E i \in 1 .. Len(calls[u]) : Dooms(calls[u][i]) /\ calls[u][i].sid = sid
  BY DEF Doomed
<1>2. PICK i \in 1 .. Len(calls[u]) : Dooms(calls[u][i]) /\ calls[u][i].sid = sid
  BY <1>1
<1>3. CASE u # t
  <2>1. calls'[u] = calls[u]
    BY <1>3 DEF Turn, Threads
  <2> QED
    BY <1>2, <2>1 DEF Doomed, Dooms
<1>4. CASE u = t
  <2>1. CASE \E m \in 1 .. Len(calls'[t]) : calls'[t][m] = calls[t][i]
    BY <1>2, <1>4, <2>1 DEF Doomed, Dooms
  <2>2. CASE calls[t][i] = h
    <3>1. PICK k \in 1 .. Len(next) : Dooms(next[k]) /\ next[k].sid = sid
      BY <1>2, <1>4, <2>2
    <3>2. PICK m \in 1 .. Len(calls'[t]) : calls'[t][m] = next[k]
      BY DEF Turn
    <3> QED
      BY <1>4, <3>1, <3>2 DEF Doomed, Dooms
  <2> QED
    BY <1>2, <1>4, <2>1, <2>2 DEF Turn
<1> QED
  BY <1>3, <1>4

\* What a call in the list of a thread of the daemon that is not the run loop does, it
\* does to a doomed session.
LEMMA OthersDoomed ==
  ASSUME NEW t \in Clients, t # Main, Course(t, calls[t]), NEW i \in 1 .. Len(calls[t]), Len(calls[t]) \in Nat,
         calls[t][i].sid # None, calls[t][i].op # "removeName"
  PROVE  Doomed(calls[t][i].sid)
<1>1. PICK j \in i .. Len(calls[t]) : Dooms(calls[t][j]) /\ calls[t][j].sid = calls[t][i].sid
  BY DEF Course, MustEnd
<1>2. j \in 1 .. Len(calls[t])
  OBVIOUS
<1> QED
  BY <1>1, <1>2 DEF Doomed

LEMMA StepMounts ==
  ASSUME IInv, Safe, IInv', Mounts, NEW t \in Threads, NEW h, h \in AnyCall, NEW next, Turn(t, h, next),
         h.sid # None => calls[t] # <<>> /\ calls[t][1] = h /\ 1 \in 1 .. Len(calls[t]),
         Effect(h),
         Exists(h.sid)' /\ Dooms(h) => \E k \in 1 .. Len(next) : Dooms(next[k]) /\ next[k].sid = h.sid,
         t \in Clients => Course(t, calls'[t]),
         Covered(calls[t])',
         \A k \in 1 .. Len(next) :
            /\ next[k].op \in {"loginExchange", "ActivateConnection"} => FreshOK(next[k].sid)'
            /\ next[k].op \in {"mount", "increment"} => h.op \in Activating /\ next[k].sid = h.sid
            /\ t = Workloop => next[k].sid \in {h.sid, None} \/ Up(next[k].sid),
         h.op \in Activating /\ Up(h.sid)' /\ ~Doomed(h.sid)' => UpOK(h.sid)'
  PROVE  Mounts'
<1> DEFINE F == {"loginExchange", "ActivateConnection"}
<1>1. /\ Main \in Clients /\ Main # Workloop /\ Workloop \in Threads /\ Workloop \notin Clients
      /\ Clients \subseteq Threads /\ None \notin SessionIds
  BY SessionManagerConstants, HBAConstants DEF Threads, SessionIds
<1>2. \A u \in Threads \ {t} : calls'[u] = calls[u]
  BY DEF Turn
<1>3. \A u \in Clients : Course(u, calls[u]) /\ Course(u, calls[u])'
  <2>1. \A u \in Clients : Course(u, calls[u])
    BY DEF Mounts, Courses
  <2>2. ASSUME NEW u \in Clients, u # t
        PROVE  Course(u, calls[u])'
    <3>1. calls'[u] = calls[u]
      BY <1>1, <1>2, <2>2
    <3> QED
      BY <2>1, <3>1 DEF Course
  <2>3. t \in Clients => Course(t, calls[t])'
    BY DEF Course
  <2> QED
    BY <2>1, <2>2, <2>3
<1>4. Courses'
  BY <1>3 DEF Courses
<1>5. FirstOnly'
  BY DEF Effect, FirstOnly
<1>6. \A sid \in SessionIds : Exists(sid)' /\ Doomed(sid) => Doomed(sid)'
  BY DoomedStays
<1>7. ASSUME NEW u \in Threads, NEW i \in 1 .. Len(calls[u])
      PROVE  calls[u][i] \in AnyCall /\ Len(calls[u]) \in Nat
  BY StackType
<1>8. ASSUME h.op \in Activating
      PROVE  /\ t = Main /\ h.cid = 0 /\ h.sid \in SessionIds
             /\ \A j \in 1 .. Len(calls[Main]) : j # 1 => calls[Main][j].sid = None
  <2>1. h.sid \in SessionIds /\ h.sid # None
    BY <1>8, CallSids
  <2>2. t \in Clients
    <3>1. Activating \cap HandlerCalls = {}
      BY DEF Activating, HandlerCalls
    <3>2. CASE t = Workloop
      BY <1>8, <2>1, <3>1, <3>2 DEF Safe, HandlerSafe
    <3> QED
      BY <3>2 DEF Threads
  <2> QED
    BY <1>3, <1>8, <2>1, <2>2 DEF Course
<1>9. h.op = "ActivateConnection" => FreshOK(h.sid)
  <2> SUFFICES ASSUME h.op = "ActivateConnection" PROVE FreshOK(h.sid)
    OBVIOUS
  <2>1. t = Main /\ h.sid \in SessionIds /\ h.sid # None
    BY <1>1, <1>8 DEF Activating
  <2>2. Pending(F, h.sid)
    BY <2>1 DEF Pending
  <2> QED
    BY <2>1, <2>2 DEF Mounts
<1>10. ASSUME NEW u \in Threads
       PROVE  Covered(calls[u])'
  <2> SUFFICES ASSUME u # t PROVE Covered(calls[u])'
    OBVIOUS
  <2>0. calls'[u] = calls[u]
    BY <1>2
  <2> SUFFICES ASSUME NEW i \in 1 .. Len(calls[u]), Lowers(calls[u][i]), Up(calls[u][i].sid)'
               PROVE  Doomed(calls[u][i].sid)' \/ \E k \in 1 .. i - 1 : Stops(calls[u][k], calls[u][i].sid)
    BY <2>0 DEF Covered, Lowers, Stops
  <2> PICK sid : sid = calls[u][i].sid
    OBVIOUS
  <2>1. sid \in SessionIds /\ sid # None /\ Len(calls[u]) \in Nat
    BY <1>7, CallSids DEF Lowers
  <2>2. Up(sid)' /\ Exists(sid)'
    BY <2>0 DEF Up, Exists, Enabled
  <2>3. CASE u \in Clients /\ u # Main
    <3>1. Doomed(sid)
      BY <1>3, <2>1, <2>3, OthersDoomed DEF Lowers
    <3>2. Doomed(sid)'
      BY <1>6, <2>1, <2>2, <3>1
    <3> QED
      BY <2>0, <3>2 DEF Doomed
  <2>4. CASE u \in {Main, Workloop}
    <3>1. Up(sid)
      <4>1. CASE h.op = "ActivateConnection" /\ h.sid = sid
        <5>1. u = Workloop
          BY <1>8, <2>4, <4>1 DEF Activating
        <5> QED
          BY <1>9, <4>1, <5>1 DEF FreshOK
      <4> QED
        BY <2>1, <2>2, <4>1 DEF Effect
    <3>2. Covered(calls[u])
      BY DEF Mounts
    <3>3. CASE Doomed(sid)
      <4>1. Doomed(sid)'
        BY <1>6, <2>1, <2>2, <3>3
      <4> QED
        BY <2>0, <4>1 DEF Doomed
    <3>4. CASE ~Doomed(sid)
      <4>1. \E k \in 1 .. i - 1 : Stops(calls[u][k], sid)
        BY <3>1, <3>2, <3>4 DEF Covered
      <4> QED
        BY <2>0, <4>1 DEF Stops
    <3> QED
      BY <3>3, <3>4
  <2> QED
    BY <1>1, <2>3, <2>4 DEF Threads
<1>11. ASSUME NEW sid \in SessionIds, Pending(F, sid)'
       PROVE  FreshOK(sid)'
  <2>1. PICK i \in 1 .. Len(calls'[Main]) : calls'[Main][i].op \in F /\ calls'[Main][i].sid = sid
    BY <1>11 DEF Pending
  <2>2. CASE t = Main /\ \E k \in 1 .. Len(next) : calls'[Main][i] = next[k]
    BY <2>1, <2>2
  <2>3. CASE ~(t = Main /\ \E k \in 1 .. Len(next) : calls'[Main][i] = next[k])
    <3>1. PICK j \in 1 .. Len(calls[Main]) : calls'[Main][i] = calls[Main][j] /\ (t = Main => j # 1)
      <4>1. CASE t # Main
        BY <1>1, <1>2, <4>1
      <4>2. CASE t = Main
        <5>1. \/ \E k \in 1 .. Len(next) : calls'[Main][i] = next[k]
              \/ \E j \in 1 .. Len(calls[Main]) : calls'[Main][i] = calls[Main][j] /\ (j = 1 => calls[Main] = <<>>)
          <6>1. /\ i \in 1 .. Len(calls'[t])
                /\ \A m \in 1 .. Len(calls'[t]) :
                     \/ \E k \in 1 .. Len(next) : calls'[t][m] = next[k]
                     \/ \E j \in 1 .. Len(calls[t]) : calls'[t][m] = calls[t][j] /\ (j = 1 => calls[t] = <<>>)
            BY <4>2 DEF Turn
          <6> QED
            BY <4>2, <6>1, Zenon
        <5>2. PICK j \in 1 .. Len(calls[Main]) : calls'[Main][i] = calls[Main][j] /\ (j = 1 => calls[Main] = <<>>)
          BY <2>3, <4>2, <5>1
        <5>3. Len(calls[Main]) # 0
          BY <1>1, <5>2, StackType
        <5>4. calls[Main] # <<>>
          BY <5>3, EmptySeq, Zenon
        <5> QED
          BY <5>2, <5>4
      <4> QED
        BY <4>1, <4>2
    <3>2. calls[Main][j].op \in F /\ calls[Main][j].sid = sid /\ calls[Main][j].op \in Activating
      BY <2>1, <3>1 DEF Activating
    <3>3. FreshOK(sid)
      BY <3>2 DEF Pending, Mounts
    <3>4. t = Main => h.sid = None
      BY <1>1, <1>3, <3>1, <3>2 DEF Course
    <3>5. t = Workloop => h.sid # sid
      BY <1>1, <3>3 DEF FreshOK
    <3>6. h.sid = sid /\ h.op # "removeName" => Doomed(sid)
      <4> SUFFICES ASSUME h.sid = sid, h.op # "removeName" PROVE Doomed(sid)
        OBVIOUS
      <4>1. t \in Clients /\ t # Main /\ h.sid # None
        BY <1>1, <3>4, <3>5 DEF Threads
      <4>2. Len(calls[t]) \in Nat
        BY <1>1, <4>1, StackType
      <4> QED
        BY <1>3, <4>1, <4>2, OthersDoomed
    <3>7. ~Up(sid)'
      <4> SUFFICES ASSUME Up(sid)' PROVE FALSE
        OBVIOUS
      <4>1. Exists(sid)' /\ ~Up(sid)
        BY <3>3 DEF Up, FreshOK
      <4>2. h.op = "ActivateConnection" /\ h.sid = sid
        BY <4>1 DEF Effect
      <4> QED
        BY <1>1, <1>8, <3>4, <4>2 DEF Activating
    <3>8. \A m \in 1 .. Len(calls'[Workloop]) : calls'[Workloop][m].sid # sid
      <4>1. CASE t # Workloop
        BY <1>1, <1>2, <3>3, <4>1 DEF FreshOK
      <4>2. CASE t = Workloop
        <5> SUFFICES ASSUME NEW m \in 1 .. Len(calls'[Workloop]) PROVE calls'[Workloop][m].sid # sid
          OBVIOUS
        <5>1. CASE \E k \in 1 .. Len(next) : calls'[Workloop][m] = next[k]
          BY <1>1, <3>3, <3>5, <4>2, <5>1 DEF FreshOK
        <5>2. CASE \E k \in 1 .. Len(calls[Workloop]) : calls'[Workloop][m] = calls[Workloop][k]
          BY <3>3, <5>2 DEF FreshOK
        <5>3. \/ \E k \in 1 .. Len(next) : calls'[t][m] = next[k]
              \/ \E n \in 1 .. Len(calls[t]) : calls'[t][m] = calls[t][n]
          BY <4>2 DEF Turn
        <5> QED
          BY <4>2, <5>1, <5>2, <5>3
      <4> QED
        BY <4>1, <4>2
    <3>9. ASSUME Exists(sid)', ~Doomed(sid)'
          PROVE  sessionList'[sid].active = 0
      <4>1. ~Doomed(sid) /\ (h.sid # sid \/ h.op = "removeName")
        BY <1>6, <3>6, <3>9
      <4>2. CASE Exists(sid)
        <5>1. sessionList[sid].active = 0
          BY <3>3, <4>1, <4>2 DEF FreshOK
        <5> QED
          BY <3>9, <4>1, <4>2, <5>1 DEF Effect
      <4>3. CASE ~Exists(sid)
        BY <3>9, <4>3 DEF Effect
      <4> QED
        BY <4>2, <4>3
    <3> QED
      BY <3>7, <3>8, <3>9 DEF FreshOK
  <2> QED
    BY <2>2, <2>3
<1>12. ASSUME NEW sid \in SessionIds, Up(sid)', ~Doomed(sid)'
       PROVE  UpOK(sid)'
  <2>1. CASE h.op \in Activating /\ h.sid = sid
    BY <1>12, <2>1
  <2>2. CASE ~(h.op \in Activating /\ h.sid = sid)
    <3>1. Exists(sid)' /\ Up(sid) /\ Exists(sid) /\ ~Doomed(sid)
      BY <1>6, <1>12, <2>2 DEF Effect, Up, Activating
    <3>2. UpOK(sid)
      BY <3>1 DEF Mounts
    <3>3. ~(h.op \in {"decrement", "unmount"} /\ h.sid = sid)
      <4> SUFFICES ASSUME h.op \in {"decrement", "unmount"}, h.sid = sid PROVE FALSE
        OBVIOUS
      <4>1. calls[t][1] = h /\ 1 \in 1 .. Len(calls[t])
        BY <1>1
      <4>2. Covered(calls[t])
        BY DEF Mounts
      <4>3. Lowers(calls[t][1]) /\ Up(calls[t][1].sid)
        BY <3>1, <4>1 DEF Lowers
      <4>4. \A k \in 1 .. 1 - 1 : FALSE
        OBVIOUS
      <4> QED
        BY <3>1, <4>1, <4>2, <4>3, <4>4 DEF Covered
    <3>4. sessionList'[sid].active = sessionList[sid].active /\ (sid \in targets => sid \in targets')
      BY <2>2, <3>1, <3>3 DEF Effect, Activating
    <3>5. ASSUME NEW ops \in {{"mount"}, {"mount", "increment"}}
          PROVE  Pending(ops, sid)' <=> Pending(ops, sid)
      <4>1. CASE t # Main
        BY <1>1, <1>2, <4>1 DEF Pending
      <4>2. CASE t = Main
        <5>1. ASSUME Pending(ops, sid)' PROVE Pending(ops, sid)
          <6>1. PICK i \in 1 .. Len(calls'[Main]) : calls'[Main][i].op \in ops /\ calls'[Main][i].sid = sid
            BY <5>1 DEF Pending
          <6>2. \A k \in 1 .. Len(next) : calls'[Main][i] # next[k]
            BY <2>2, <6>1
          <6> QED
            BY <4>2, <6>1, <6>2 DEF Turn, Pending
        <5>2. ASSUME Pending(ops, sid) PROVE Pending(ops, sid)'
          <6>1. PICK j \in 1 .. Len(calls[Main]) : calls[Main][j].op \in ops /\ calls[Main][j].sid = sid
            BY <5>2 DEF Pending
          <6>2. calls[Main][j] # h
            BY <2>2, <6>1 DEF Activating
          <6> QED
            BY <4>2, <6>1, <6>2 DEF Turn, Pending
        <5> QED
          BY <5>1, <5>2
      <4> QED
        BY <4>1, <4>2
    <3> QED
      BY <3>2, <3>4, <3>5 DEF UpOK
  <2> QED
    BY <2>1, <2>2
<1> QED
  BY <1>4, <1>5, <1>10, <1>11, <1>12 DEF Mounts

LEMMA CourseNext ==
  ASSUME NEW s, NEW next, NEW new, Replacing(s, next, new), NEW t, Course(t, s), s[1].op \notin Lasts,
         \A k \in 1 .. Len(next) :
            /\ next[k].op \notin Activating \cup Lasts /\ next[k].sid \in {None, s[1].sid}
            /\ MustEnd(t, next[k]) =>
                  \/ MustEnd(t, s[1]) /\ ~Dooms(s[1])
                  \/ \E j \in k .. Len(next) : Dooms(next[j]) /\ next[j].sid = next[k].sid
  PROVE  Course(t, new)
<1> DEFINE n == Len(next)
<1>1. n \in Nat /\ Len(s) \in Nat \ {0} /\ Len(new) = n + Len(s) - 1
  BY DEF Replacing
<1>2. ASSUME NEW j \in 2 .. Len(s)
      PROVE  j \in 1 .. Len(s) /\ j - 1 + n \in n + 1 .. Len(new) /\ new[j - 1 + n] = s[j]
  BY <1>1 DEF Replacing
<1>3. ASSUME NEW k \in 1 .. n
      PROVE  k \in 1 .. Len(new) /\ new[k] = next[k]
  BY DEF Replacing
<1>4. ASSUME NEW i \in 1 .. Len(new)
      PROVE  i \in 1 .. n \/ \E j \in 2 .. Len(s) : i = j - 1 + n
  BY DEF Replacing
<1> HIDE DEF n
<1>5. ASSUME NEW i \in 1 .. Len(new), MustEnd(t, new[i])
      PROVE  \E j \in i .. Len(new) : Dooms(new[j]) /\ new[j].sid = new[i].sid
  <2>1. CASE i \in 1 .. n
    <3>1. new[i] = next[i]
      BY <1>3, <2>1
    <3>2. CASE MustEnd(t, s[1]) /\ ~Dooms(s[1])
      <4>1. next[i].sid = s[1].sid
        <5>1. next[i].sid # None
          BY <1>5, <3>1 DEF MustEnd
        <5> QED
          BY <2>1, <5>1 DEF n
      <4>2. 1 \in 1 .. Len(s)
        BY <1>1
      <4>3. PICK j \in 1 .. Len(s) : Dooms(s[j]) /\ s[j].sid = s[1].sid
        BY <3>2, <4>2 DEF Course
      <4>4. j \in 2 .. Len(s)
        BY <3>2, <4>3
      <4>5. j - 1 + n \in i .. Len(new) /\ new[j - 1 + n] = s[j]
        BY <1>1, <1>2, <2>1, <4>4
      <4> QED
        BY <3>1, <4>1, <4>3, <4>5
    <3>3. CASE \E j \in i .. n : Dooms(next[j]) /\ next[j].sid = next[i].sid
      <4>1. PICK j \in i .. n : Dooms(next[j]) /\ next[j].sid = next[i].sid
        BY <3>3
      <4>2. j \in 1 .. n
        BY <1>1, <2>1
      <4>3. j \in i .. Len(new) /\ new[j] = next[j]
        BY <1>1, <1>3, <2>1, <4>2
      <4> QED
        BY <3>1, <4>1, <4>3
    <3> QED
      BY <1>5, <2>1, <3>1, <3>2, <3>3 DEF n
  <2>2. CASE i \notin 1 .. n
    <3>1. PICK m \in 2 .. Len(s) : i = m - 1 + n
      BY <1>4, <2>2
    <3>2. new[i] = s[m] /\ m \in 1 .. Len(s)
      BY <1>2, <3>1
    <3>3. PICK j \in m .. Len(s) : Dooms(s[j]) /\ s[j].sid = s[m].sid
      BY <1>5, <3>2 DEF Course
    <3>4. j \in 2 .. Len(s) /\ j - 1 + n >= i
      BY <1>1, <3>1
    <3>5. j - 1 + n \in i .. Len(new) /\ new[j - 1 + n] = s[j]
      BY <1>1, <1>2, <3>4
    <3> QED
      BY <3>2, <3>3, <3>5
  <2> QED
    BY <2>1, <2>2
<1>6. ASSUME NEW i \in 1 .. Len(new), new[i].op \in Activating
      PROVE  /\ t = Main /\ new[i].cid = 0
             /\ \A j \in 1 .. Len(new) : j # i => new[j].sid = None /\ new[j].op \notin Lasts
  <2>1. i \notin 1 .. n
    BY <1>3, <1>6 DEF n
  <2>2. PICK m \in 2 .. Len(s) : i = m - 1 + n
    BY <1>4, <2>1
  <2>3. new[i] = s[m] /\ m \in 1 .. Len(s) /\ 1 \in 1 .. Len(s) /\ m # 1
    BY <1>1, <1>2, <2>2
  <2>4. /\ t = Main /\ s[m].cid = 0
        /\ \A j \in 1 .. Len(s) : j # m => s[j].sid = None /\ s[j].op \notin Lasts
    BY <1>6, <2>3 DEF Course
  <2>5. ASSUME NEW j \in 1 .. Len(new), j # i
        PROVE  new[j].sid = None /\ new[j].op \notin Lasts
    <3>1. CASE j \in 1 .. n
      BY <1>3, <2>3, <2>4, <3>1 DEF n
    <3>2. CASE j \notin 1 .. n
      <4>1. PICK l \in 2 .. Len(s) : j = l - 1 + n
        BY <1>4, <3>2
      <4>2. l # m /\ l \in 1 .. Len(s) /\ new[j] = s[l]
        BY <1>2, <2>2, <2>5, <4>1
      <4> QED
        BY <2>4, <4>2
    <3> QED
      BY <3>1, <3>2
  <2> QED
    BY <2>3, <2>4, <2>5
<1>7. ASSUME NEW i \in 1 .. Len(new), new[i].op \in Lasts
      PROVE  t = Main /\ i = Len(new)
  <2>1. i \notin 1 .. n
    BY <1>3, <1>7 DEF n
  <2>2. PICK m \in 2 .. Len(s) : i = m - 1 + n
    BY <1>4, <2>1
  <2>3. new[i] = s[m] /\ m \in 1 .. Len(s)
    BY <1>2, <2>2
  <2>4. t = Main /\ m = Len(s)
    BY <1>7, <2>3 DEF Course
  <2> QED
    BY <1>1, <2>2, <2>4
<1> QED
  BY <1>5, <1>6, <1>7 DEF Course

\* The same when only the end of a method is left after the calls that are made.
LEMMA CourseLast ==
  ASSUME NEW s, NEW next, NEW new, Replacing(s, next, new), NEW t, Course(t, next),
         \A j \in 2 .. Len(s) : s[j].sid = None /\ s[j].op \notin Activating \cup Lasts,
         Len(s) > 1 => \A k \in 1 .. Len(next) : next[k].op \notin Lasts
  PROVE  Course(t, new)
<1> DEFINE n == Len(next)
<1>1. n \in Nat /\ Len(s) \in Nat \ {0} /\ Len(new) = n + Len(s) - 1
  BY DEF Replacing
<1>2. ASSUME NEW k \in 1 .. n
      PROVE  k \in 1 .. Len(new) /\ new[k] = next[k]
  BY DEF Replacing
<1>3. ASSUME NEW i \in 1 .. Len(new), i \notin 1 .. n
      PROVE  Len(s) > 1 /\ new[i].sid = None /\ new[i].op \notin Activating \cup Lasts
  <2>1. PICK j \in 2 .. Len(s) : i = j - 1 + n
    BY <1>3 DEF Replacing
  <2>2. new[i] = s[j] /\ Len(s) > 1
    BY <1>1, <2>1 DEF Replacing
  <2> QED
    BY <2>1, <2>2
<1> HIDE DEF n
<1>4. ASSUME NEW i \in 1 .. Len(new), MustEnd(t, new[i])
      PROVE  \E j \in i .. Len(new) : Dooms(new[j]) /\ new[j].sid = new[i].sid
  <2>1. i \in 1 .. n
    BY <1>3, <1>4 DEF MustEnd
  <2>2. PICK j \in i .. n : Dooms(next[j]) /\ next[j].sid = next[i].sid
    BY <1>2, <1>4, <2>1 DEF Course, n
  <2>3. j \in 1 .. n
    BY <1>1, <2>1
  <2>4. j \in i .. Len(new)
    BY <1>2, <2>3
  <2> QED
    BY <1>2, <2>1, <2>2, <2>3, <2>4
<1>5. ASSUME NEW i \in 1 .. Len(new), new[i].op \in Activating
      PROVE  /\ t = Main /\ new[i].cid = 0
             /\ \A j \in 1 .. Len(new) : j # i => new[j].sid = None /\ new[j].op \notin Lasts
  <2>1. i \in 1 .. n /\ new[i] = next[i]
    BY <1>2, <1>3, <1>5
  <2>2. /\ t = Main /\ next[i].cid = 0
        /\ \A j \in 1 .. n : j # i => next[j].sid = None /\ next[j].op \notin Lasts
    BY <1>5, <2>1 DEF Course, n
  <2> QED
    BY <1>2, <1>3, <2>1, <2>2
<1>6. ASSUME NEW i \in 1 .. Len(new), new[i].op \in Lasts
      PROVE  t = Main /\ i = Len(new)
  <2>1. i \in 1 .. n /\ new[i] = next[i]
    BY <1>2, <1>3, <1>6
  <2>2. t = Main /\ i = n
    BY <1>6, <2>1 DEF Course, n
  <2>3. Len(s) = 1
    <3>1. next[i].op \in Lasts /\ i \in 1 .. Len(next)
      BY <1>6, <2>1 DEF n
    <3>2. ~\A k \in 1 .. Len(next) : next[k].op \notin Lasts
      BY <3>1, Zenon
    <3>3. ~(Len(s) > 1)
      BY <3>2
    <3> QED
      BY <1>1, <3>3, OneOrMore, Zenon
  <2> QED
    BY <1>1, <2>2, <2>3
<1> QED
  BY <1>4, <1>5, <1>6 DEF Course

\* The calls that t has left keep away from a session with an enabled connection.
LEMMA CoveredNext ==
  ASSUME IInv, IInv', Mounts, NEW t \in Threads, NEW h, h = Head(calls[t]), calls[t] # <<>>,
         NEW next \in Seq(AnyCall), CallNext(t, next),
         t \in Clients => Course(t, calls'[t]),
         \A sid \in SessionIds : Up(sid)' => Up(sid) \/ (t \in Clients /\ h.op = "ActivateConnection" /\ h.sid = sid),
         Exists(h.sid)' /\ Dooms(h) => \E k \in 1 .. Len(next) : Dooms(next[k]) /\ next[k].sid = h.sid,
         Stops(h, h.sid) => ~Up(h.sid)',
         \A k \in 1 .. Len(next) : Lowers(next[k]) =>
            \/ ~Up(next[k].sid)'
            \/ Lowers(h) /\ next[k].sid = h.sid
            \/ t \in Clients /\ MustEnd(t, next[k])
            \/ \E j \in 1 .. k - 1 : Stops(next[j], next[k].sid)
  PROVE  Covered(calls[t])'
<1> DEFINE s == calls[t]
           n == Len(next)
<1> PICK new : new = calls'[t]
  OBVIOUS
<1>1. Turn(t, h, next) /\ Replacing(s, next, new) /\ 1 \in 1 .. Len(s) /\ s[1] = h
  BY TurnNext
<1>2. s \in Seq(AnyCall) /\ Len(s) \in Nat /\ new \in Seq(AnyCall) /\ Len(new) \in Nat /\ n \in Nat
  BY <1>1, StackType, LenProperties DEF Replacing
<1>3. Covered(s) /\ (t \in Clients => Course(t, s))
  BY DEF Mounts, Courses
<1>4. \A sid \in SessionIds : Exists(sid)' /\ Doomed(sid) => Doomed(sid)'
  BY <1>1, DoomedStays
<1> HIDE DEF s, n
<1>5. SUFFICES ASSUME NEW i \in 1 .. Len(new), Lowers(new[i]), Up(new[i].sid)'
               PROVE  Doomed(new[i].sid)' \/ \E k \in 1 .. i - 1 : Stops(new[k], new[i].sid)
  <2>1. \A i \in 1 .. Len(new) : Lowers(new[i]) /\ Up(new[i].sid)' =>
           Doomed(new[i].sid)' \/ \E k \in 1 .. i - 1 : Stops(new[k], new[i].sid)
    BY <1>5
  <2> QED
    BY <2>1 DEF Covered, Lowers, Stops, Up, Exists, Enabled, Doomed, Dooms
<1> PICK sid : sid = new[i].sid
  OBVIOUS
<1>6. sid \in SessionIds /\ sid # None /\ Up(sid)' /\ Exists(sid)'
  <2>1. new[i] \in AnyCall
    BY <1>2
  <2>2. sid \in SessionIds /\ sid # None
    BY <1>5, <2>1, CallSids DEF Lowers
  <2>3. Up(sid)'
    BY <1>5 DEF Up, Exists, Enabled
  <2> QED
    BY <2>2, <2>3 DEF Up
<1>7. SUFFICES Doomed(sid)' \/ \E k \in 1 .. i - 1 : Stops(new[k], sid)
  <2>1. Doomed(sid)' => Doomed(new[i].sid)'
    BY DEF Doomed
  <2> QED
    BY <2>1 DEF Stops
<1>8. CASE i \in 1 .. n
  <2>1. new[i] = next[i]
    BY <1>1, <1>8 DEF Replacing, n
  <2>2. CASE ~Up(next[i].sid)'
    BY <1>6, <2>1, <2>2 DEF Up, Exists, Enabled
  <2>3. CASE Lowers(h) /\ next[i].sid = h.sid
    <3>1. Up(sid)
      BY <1>6, <2>3 DEF Lowers
    <3>2. Lowers(s[1]) /\ s[1].sid = sid
      BY <1>1, <2>1, <2>3
    <3>3. \A k \in 1 .. 1 - 1 : FALSE
      OBVIOUS
    <3>4. Doomed(sid)
      BY <1>1, <1>3, <3>1, <3>2, <3>3 DEF Covered
    <3> QED
      BY <1>4, <1>6, <3>4
  <2>4. CASE t \in Clients /\ MustEnd(t, next[i])
    <3>0. Course(t, new)
      BY <2>4
    <3>1. PICK j \in i .. Len(new) : Dooms(new[j]) /\ new[j].sid = sid
      BY <2>1, <2>4, <3>0 DEF Course
    <3>2. j \in 1 .. Len(new)
      BY <1>2
    <3> QED
      BY <2>4, <3>1, <3>2 DEF Doomed, Dooms
  <2>5. CASE \E j \in 1 .. i - 1 : Stops(next[j], next[i].sid)
    <3>1. PICK j \in 1 .. i - 1 : Stops(next[j], sid)
      BY <2>1, <2>5
    <3>2. j \in 1 .. n
      BY <1>2, <1>8
    <3>3. new[j] = next[j]
      BY <1>1, <3>2 DEF Replacing, n
    <3> QED
      BY <3>1, <3>3
  <2>6. Lowers(next[i]) /\ i \in 1 .. Len(next)
    BY <1>5, <1>8, <2>1 DEF n
  <2>7. \/ ~Up(next[i].sid)'
        \/ Lowers(h) /\ next[i].sid = h.sid
        \/ t \in Clients /\ MustEnd(t, next[i])
        \/ \E j \in 1 .. i - 1 : Stops(next[j], next[i].sid)
    BY <2>6
  <2> QED
    BY <2>2, <2>3, <2>4, <2>5, <2>7
<1>9. CASE i \notin 1 .. n
  <2>1. PICK j \in 2 .. Len(s) : i = j - 1 + n
    BY <1>1, <1>9 DEF Replacing, n
  <2>2. new[i] = s[j] /\ j \in 1 .. Len(s) /\ j # 1
    <3>1. new[j - 1 + n] = s[j]
      BY <1>1 DEF Replacing, n
    <3>2. j \in 1 .. Len(s) /\ j # 1
      BY <1>2
    <3> QED
      BY <2>1, <3>1, <3>2
  <2>3. Up(sid)
    <3>1. CASE t \in Clients /\ h.op = "ActivateConnection" /\ h.sid = sid
      BY <1>1, <1>3, <1>6, <2>2, <3>1 DEF Course, Activating
    <3> QED
      BY <1>6, <3>1
  <2>4. CASE Doomed(sid)
    BY <1>4, <1>6, <2>4
  <2>5. CASE ~Doomed(sid)
    <3>1. PICK k \in 1 .. j - 1 : Stops(s[k], sid)
      BY <1>3, <1>5, <2>2, <2>3, <2>5 DEF Covered
    <3>2. k # 1
      <4> SUFFICES ASSUME k = 1 PROVE FALSE
        OBVIOUS
      <4>1. Stops(h, sid) /\ h.sid = sid
        BY <1>1, <3>1 DEF Stops
      <4> QED
        BY <1>6, <4>1
    <3>3. k \in 2 .. Len(s) /\ k - 1 + n \in 1 .. i - 1
      BY <1>2, <2>1, <3>2
    <3>4. new[k - 1 + n] = s[k]
      BY <1>1, <3>3 DEF Replacing, n
    <3> QED
      BY <3>1, <3>3, <3>4
  <2> QED
    BY <2>4, <2>5
<1> QED
  BY <1>8, <1>9

-----------------------------------------------------------------------------
(* What the steps do to the sessions.                                      *)

LEMMA EffectSame ==
  ASSUME Mounts, UNCHANGED sessionList, NEW h,
         \A sid \in SessionIds : sid \in targets => sid \in targets' \/ (h.op = "unmount" /\ h.sid = sid)
  PROVE  /\ Effect(h)
         /\ \A sid : (Up(sid)' <=> Up(sid)) /\ (Exists(sid)' <=> Exists(sid))
<1>1. \A sid : (Up(sid)' <=> Up(sid)) /\ (Exists(sid)' <=> Exists(sid)) /\ Enabled(sid)' = Enabled(sid)
  BY DEF Up, Exists, Enabled
<1>2. \A sid \in SessionIds : Exists(sid) => Enabled(sid) \subseteq {0}
  BY DEF Mounts, FirstOnly
<1> QED
  BY <1>1, <1>2 DEF Effect

LEMMA SetConnectionIs ==
  ASSUME TypeOK, NEW sid \in SessionIds, Exists(sid), NEW cid \in ConnectionIds,
         NEW state \in {"none", "idle", "enabled"}, SetConnection(sid, cid, state)
  PROVE  /\ \A s \in SessionIds : /\ Exists(s)' <=> Exists(s)
                                  /\ Exists(s) => sessionList'[s].active = sessionList[s].active
         /\ \A s \in SessionIds \ {sid} : Enabled(s)' = Enabled(s)
         /\ Enabled(sid)' = IF state = "enabled" THEN Enabled(sid) \cup {cid} ELSE Enabled(sid) \ {cid}
<1>1. sessionList[sid] \in Session
  BY DEF TypeOK, Exists
<1> DEFINE old == sessionList[sid]
           conns == [old.connections EXCEPT ![cid] = state]
           new == [old EXCEPT !.connections = conns]
<1>2. sessionList' = [sessionList EXCEPT ![sid] = new]
  BY DEF SetConnection
<1>3. /\ new.active = old.active /\ new.connections = conns
      /\ \A c \in ConnectionIds : conns[c] = IF c = cid THEN state ELSE old.connections[c]
  BY <1>1 DEF Session
<1>4. new # NoSession
  <2>1. conns \in [ConnectionIds -> {"none", "idle", "enabled"}]
    BY <1>1 DEF Session
  <2> HIDE DEF conns
  <2>2. new \in Session
    BY <1>1, <2>1 DEF Session
  <2> QED
    BY <2>2, NoSessionIsNone
<1> HIDE DEF new, conns
<1>5. sessionList'[sid] = new /\ \A s \in SessionIds : s # sid => sessionList'[s] = sessionList[s]
  BY <1>2 DEF TypeOK
<1>6. \A s \in SessionIds : /\ Exists(s)' <=> Exists(s)
                            /\ Exists(s) => sessionList'[s].active = sessionList[s].active
  BY <1>3, <1>4, <1>5 DEF Exists
<1>7. \A s \in SessionIds \ {sid} : Enabled(s)' = Enabled(s)
  BY <1>5 DEF Enabled
<1>8. \A c \in ConnectionIds : c \in Enabled(sid)' <=> IF c = cid THEN state = "enabled" ELSE c \in Enabled(sid)
  BY <1>3, <1>5 DEF Enabled
<1>9. Enabled(sid) \subseteq ConnectionIds /\ Enabled(sid)' \subseteq ConnectionIds
  BY DEF Enabled
<1> QED
  BY <1>6, <1>7, <1>8, <1>9

LEMMA EffectSet ==
  ASSUME IInv, Mounts, UNCHANGED targets, NEW sid \in SessionIds, Exists(sid), NEW cid \in ConnectionIds,
         NEW state \in {"none", "idle", "enabled"}, SetConnection(sid, cid, state), NEW h,
         state = "enabled" => h.op = "ActivateConnection" /\ h.sid = sid /\ cid = 0
  PROVE  /\ Effect(h)
         /\ \A s \in SessionIds : /\ Exists(s)' <=> Exists(s)
                                  /\ Exists(s) => sessionList'[s].active = sessionList[s].active
         /\ state # "enabled" /\ cid = 0 => ~Up(sid)'
<1>1. /\ \A s \in SessionIds : /\ Exists(s)' <=> Exists(s)
                               /\ Exists(s) => sessionList'[s].active = sessionList[s].active
      /\ \A s \in SessionIds \ {sid} : Enabled(s)' = Enabled(s)
      /\ Enabled(sid)' = IF state = "enabled" THEN Enabled(sid) \cup {cid} ELSE Enabled(sid) \ {cid}
  BY SetConnectionIs DEF IInv
<1>2. \A s \in SessionIds : Exists(s) => Enabled(s) \subseteq {0}
  BY DEF Mounts, FirstOnly
<1>3. \A s \in SessionIds : Exists(s)' => Enabled(s)' \subseteq {0}
  BY <1>1, <1>2
<1>4. \A s \in SessionIds : Up(s)' => Up(s) \/ (h.op = "ActivateConnection" /\ h.sid = s)
  BY <1>1 DEF Up
<1>5. state # "enabled" /\ cid = 0 => ~Up(sid)'
  BY <1>1 DEF Up
<1> QED
  BY <1>1, <1>3, <1>4, <1>5 DEF Effect

LEMMA AddToActiveIs ==
  ASSUME IInv, NEW sid \in SessionIds, NEW gen, NEW n \in {1, -1}, AddToActive(sid, gen, n)
  PROVE  /\ \A s \in SessionIds : (Exists(s)' <=> Exists(s)) /\ (Up(s)' <=> Up(s))
         /\ \A s \in SessionIds : Exists(s) => Enabled(s)' = Enabled(s)
         /\ \A s \in SessionIds \ {sid} : sessionList'[s] = sessionList[s]
         /\ Alive(sid, gen) => sessionList'[sid].active = (sessionList[sid].active + n) % CountModulus
<1>1. CASE Alive(sid, gen)
  <2>1. sessionList[sid] \in Session /\ Exists(sid)
    BY <1>1 DEF IInv, TypeOK, Alive, Exists
  <2> DEFINE old == sessionList[sid]
             count == (old.active + n) % CountModulus
             new == [old EXCEPT !.active = count]
  <2>2. sessionList' = [sessionList EXCEPT ![sid] = new]
    BY <1>1 DEF AddToActive
  <2>3. new.connections = old.connections /\ new.active = count
    BY <2>1 DEF Session
  <2>4. sessionList'[sid] = new /\ \A s \in SessionIds : s # sid => sessionList'[s] = sessionList[s]
    BY <2>2 DEF IInv, TypeOK
  <2>5. new # NoSession
    <3>1. old.active + n \in Int /\ CountModulus \in Nat \ {0}
      BY <2>1, HBAConstants DEF Session
    <3>2. count \in 0 .. CountModulus - 1
      BY <3>1
    <3> HIDE DEF count
    <3>3. new \in Session
      BY <2>1, <3>2 DEF Session
    <3> QED
      BY <3>3, NoSessionIsNone
  <2> HIDE DEF new
  <2>6. \A s \in SessionIds : (Exists(s)' <=> Exists(s)) /\ (Exists(s) => Enabled(s)' = Enabled(s))
    BY <2>1, <2>3, <2>4, <2>5 DEF Exists, Enabled
  <2>7. \A s \in SessionIds : Up(s)' <=> Up(s)
    BY <2>6 DEF Up
  <2> QED
    BY <2>3, <2>4, <2>6, <2>7
<1>2. CASE ~Alive(sid, gen)
  <2>1. sessionList' = sessionList
    BY <1>2 DEF AddToActive
  <2>2. \A s \in SessionIds : (Exists(s)' <=> Exists(s)) /\ Enabled(s)' = Enabled(s)
    BY <2>1 DEF Exists, Enabled
  <2> QED
    BY <1>2, <2>1, <2>2 DEF Up
<1> QED
  BY <1>1, <1>2

LEMMA EffectCount ==
  ASSUME IInv, Mounts, NEW h, NEW n \in {1, -1}, h.sid \in SessionIds, AddToActive(h.sid, h.gen, n),
         h.op \in {"increment", "decrement"}, UNCHANGED targets
  PROVE  Effect(h) /\ \A s \in SessionIds : (Exists(s)' <=> Exists(s)) /\ (Up(s)' <=> Up(s))
<1>1. /\ \A s \in SessionIds : (Exists(s)' <=> Exists(s)) /\ (Up(s)' <=> Up(s))
      /\ \A s \in SessionIds : Exists(s) => Enabled(s)' = Enabled(s)
      /\ \A s \in SessionIds \ {h.sid} : sessionList'[s] = sessionList[s]
  BY AddToActiveIs
<1>2. \A s \in SessionIds : Exists(s) => Enabled(s) \subseteq {0}
  BY DEF Mounts, FirstOnly
<1> QED
  BY <1>1, <1>2 DEF Effect

\* A session that is created has no enabled connection.
LEMMA EffectCreate ==
  ASSUME IInv, Mounts, NEW iqn \in IQNs, CreateSession(iqn), NEW h, NEW sid, sid = NewSid
  PROVE  /\ Effect(h) /\ sid \in SessionIds /\ ~Exists(sid) /\ ~Up(sid)'
         /\ \A s \in SessionIds : Up(s)' => Up(s)
         /\ sessionList'[sid].active = 0
<1> DEFINE new == [gen |-> created + 1, iqn |-> iqn, active |-> 0,
                   connections |-> [cid \in ConnectionIds |->
                                      IF cid = 0 THEN "idle" ELSE "none"]]
<1>1. /\ sid \in SessionIds /\ ~Exists(sid)
      /\ \A s \in SessionIds \ {sid} : sessionList'[s] = sessionList[s]
  BY CreateSessionLinks DEF IInv
<1>2. sessionList' = [sessionList EXCEPT ![sid] = new] /\ targets' = targets
  BY DEF CreateSession, NewSid
<1>3. sessionList'[sid] = new
  BY <1>1, <1>2 DEF IInv, TypeOK
<1>4. new.active = 0 /\ \A cid \in ConnectionIds : new.connections[cid] # "enabled"
  OBVIOUS
<1> HIDE DEF new
<1>5. Enabled(sid)' = {} /\ sessionList'[sid].active = 0
  BY <1>3, <1>4 DEF Enabled
<1>6. \A s \in SessionIds \ {sid} : /\ Enabled(s)' = Enabled(s) /\ (Exists(s)' <=> Exists(s))
                                       /\ sessionList'[s].active = sessionList[s].active
  BY <1>1 DEF Enabled, Exists
<1>7. \A s \in SessionIds : Exists(s) => Enabled(s) \subseteq {0}
  BY DEF Mounts, FirstOnly
<1>8. \A s \in SessionIds : Up(s)' => Up(s)
  BY <1>5, <1>6 DEF Up
<1>9. \A s \in SessionIds : Exists(s)' => /\ Enabled(s)' \subseteq {0}
                                          /\ Exists(s) => sessionList'[s].active = sessionList[s].active
                                          /\ ~Exists(s) => sessionList'[s].active = 0
  BY <1>1, <1>5, <1>6, <1>7
<1>10. ~Up(sid)'
  BY <1>5 DEF Up
<1> QED
  BY <1>1, <1>2, <1>5, <1>8, <1>9, <1>10 DEF Effect

\* What a call that neither is a login nor activates a connection makes for calls.
PlainNext(t, h, next) ==
    \A k \in 1 .. Len(next) :
       /\ next[k].op \notin Activating \cup Lasts /\ next[k].sid \in {None, h.sid}
       /\ t \in Clients /\ MustEnd(t, next[k]) =>
             \/ MustEnd(t, h) /\ ~Dooms(h)
             \/ \E j \in k .. Len(next) : Dooms(next[j]) /\ next[j].sid = next[k].sid
       /\ Lowers(next[k]) =>
             \/ ~Up(h.sid)'
             \/ Lowers(h)
             \/ t \in Clients /\ MustEnd(t, next[k])
             \/ \E j \in 1 .. k - 1 : Stops(next[j], h.sid)
KernelNext(t, h, next) ==
    \A k \in 1 .. Len(next) :
       /\ next[k].op \notin Activating \cup Lasts /\ next[k].sid \in {None, h.sid}
       /\ \/ next[k].op \in Spares \/ h.op \notin Spares
          \/ \E j \in k .. Len(next) : Dooms(next[j]) /\ next[j].sid = next[k].sid
       /\ Lowers(next[k]) =>
             \/ ~Up(h.sid)'
             \/ Lowers(h)
             \/ t \in Clients /\ MustEnd(t, next[k])
             \/ \E j \in 1 .. k - 1 : Stops(next[j], h.sid)

\* A step by a stack that neither is a login nor activates a connection.
LEMMA PlainMounts ==
  ASSUME IInv, Safe, IInv', Mounts, NEW t \in Threads, calls[t] # <<>>, NEW h, h = Head(calls[t]),
         h.op \notin Lasts, NEW next \in Seq(AnyCall), CallNext(t, next), Effect(h),
         PlainNext(t, h, next),
         Exists(h.sid)' /\ Dooms(h) => \E k \in 1 .. Len(next) : Dooms(next[k]) /\ next[k].sid = h.sid,
         Stops(h, h.sid) => ~Up(h.sid)',
         h.op \in Activating => ~Up(h.sid)'
  PROVE  Mounts'
<1>1. /\ Turn(t, h, next) /\ Replacing(calls[t], next, calls'[t])
      /\ 1 \in 1 .. Len(calls[t]) /\ calls[t][1] = h
  BY TurnNext
<1>2. h \in AnyCall
  BY HeadType DEF IInv
<1>3. \A k \in 1 .. Len(next) : next[k] \in AnyCall
  OBVIOUS
<1>4. \A k \in 1 .. Len(next) : Lowers(next[k]) => next[k].sid = h.sid
  <2>1. \A k \in 1 .. Len(next) : Lowers(next[k]) => next[k].sid # None
    BY <1>3, CallSids DEF Lowers
  <2> QED
    BY <2>1 DEF PlainNext
<1>5. t \in Clients => Course(t, calls'[t])
  <2> SUFFICES ASSUME t \in Clients PROVE Course(t, calls'[t])
    OBVIOUS
  <2>1. Course(t, calls[t])
    BY DEF Mounts, Courses
  <2> QED
    BY <1>1, <2>1, CourseNext DEF PlainNext
<1>6. \A sid \in SessionIds : Up(sid)' => Up(sid) \/ (t \in Clients /\ h.op = "ActivateConnection" /\ h.sid = sid)
  <2>1. h.op = "ActivateConnection" => t \in Clients
    <3>1. CASE t = Workloop
      BY <3>1, HandlerHead DEF HandlerCalls
    <3> QED
      BY <3>1 DEF Threads
  <2>2. \A sid \in SessionIds : Up(sid)' => Exists(sid)'
    BY DEF Up
  <2> QED
    BY <2>1, <2>2 DEF Effect
<1>7. \A k \in 1 .. Len(next) : Lowers(next[k]) =>
         \/ ~Up(next[k].sid)'
         \/ Lowers(h) /\ next[k].sid = h.sid
         \/ t \in Clients /\ MustEnd(t, next[k])
         \/ \E j \in 1 .. k - 1 : Stops(next[j], next[k].sid)
  <2> SUFFICES ASSUME NEW k \in 1 .. Len(next), Lowers(next[k])
               PROVE  \/ ~Up(next[k].sid)'
                      \/ Lowers(h) /\ next[k].sid = h.sid
                      \/ t \in Clients /\ MustEnd(t, next[k])
                      \/ \E j \in 1 .. k - 1 : Stops(next[j], next[k].sid)
    OBVIOUS
  <2>1. next[k].sid = h.sid
    BY <1>4
  <2>2. ~Up(h.sid)' => ~Up(next[k].sid)'
    BY <2>1
  <2> QED
    BY <2>1, <2>2 DEF PlainNext
<1>8. Covered(calls[t])'
  BY <1>5, <1>6, <1>7, CoveredNext
<1>9. \A k \in 1 .. Len(next) :
         /\ next[k].op \in {"loginExchange", "ActivateConnection"} => FreshOK(next[k].sid)'
         /\ next[k].op \in {"mount", "increment"} => h.op \in Activating /\ next[k].sid = h.sid
         /\ t = Workloop => next[k].sid \in {h.sid, None} \/ Up(next[k].sid)
  BY DEF Activating, PlainNext
<1> QED
  BY <1>1, <1>2, <1>5, <1>8, <1>9, StepMounts

\* The same, when the call dooms nothing.
LEMMA KernelMounts ==
  ASSUME IInv, Safe, IInv', Mounts, NEW t \in Threads, calls[t] # <<>>, NEW h, h = Head(calls[t]),
         h.op \in (KernelCalls \cup Exchanges) \ {"removeName"}, ~Dooms(h),
         NEW next \in Seq(AnyCall), CallNext(t, next), Effect(h),
         KernelNext(t, h, next),
         Stops(h, h.sid) => ~Up(h.sid)',
         h.op \in Activating => ~Up(h.sid)'
  PROVE  Mounts'
<1>1. h \in AnyCall
  BY HeadType DEF IInv
<1>2. h.sid # None /\ h.op \notin Lasts
  <2>1. h.sid \in SessionIds
    BY <1>1, CallSids
  <2>2. Lasts \cap (KernelCalls \cup Exchanges) = {}
    BY DEF KernelCalls, LookUpCalls, PointerCalls, HoldsSession, Exchanges
  <2> QED
    BY <2>1, <2>2, HBAConstants DEF SessionIds
<1>3. \A k \in 1 .. Len(next) : MustEnd(t, next[k]) =>
         \/ MustEnd(t, h) /\ ~Dooms(h)
         \/ \E j \in k .. Len(next) : Dooms(next[j]) /\ next[j].sid = next[k].sid
  BY <1>2 DEF MustEnd, KernelNext
<1>4. PlainNext(t, h, next)
  BY <1>3 DEF PlainNext, KernelNext
<1> QED
  BY <1>2, <1>4, PlainMounts

LEMMA ReturnMounts ==
  ASSUME IInv, Safe, IInv', Mounts, NEW t \in Threads, calls[t] # <<>>, NEW h, h = Head(calls[t]),
         h.op \notin Lasts, Return(t), Effect(h),
         Dooms(h) => ~Exists(h.sid)',
         Stops(h, h.sid) => ~Up(h.sid)',
         h.op \in Activating => ~Up(h.sid)'
  PROVE  Mounts'
<1> PICK next : next = <<>>
  OBVIOUS
<1>1. CallNext(t, next) /\ next \in Seq(AnyCall) /\ \A k \in 1 .. Len(next) : FALSE
  BY KernelCallSequences DEF Return
<1>2. PlainNext(t, h, next)
  BY <1>1 DEF PlainNext
<1> QED
  BY <1>1, <1>2, PlainMounts

\* Calls that are done and leave the sessions alone.
LEMMA DoneMounts ==
  ASSUME IInv, Safe, IInv', Mounts, NEW t \in Threads,
         \/ UnmountLast(t) \/ RemoveEventSources(t) \/ SendTimeoutNotification(t) \/ SendAsyncNotification(t)
         \/ LookUpFails(t) \/ EnterUserClient(t) \/ LeaveUserClient(t)
  PROVE  Mounts'
<1> PICK h : h = Head(calls[t])
  OBVIOUS
<1>1. calls[t] # <<>> /\ Return(t) /\ UNCHANGED sessionList
  BY DEF UnmountLast, RemoveEventSources, SendTimeoutNotification, SendAsyncNotification, LookUpFails,
         EnterUserClient, LeaveUserClient, Running
<1>2. \A sid \in SessionIds : sid \in targets => sid \in targets' \/ (h.op = "unmount" /\ h.sid = sid)
  BY DEF UnmountLast, RemoveEventSources, SendTimeoutNotification, SendAsyncNotification, LookUpFails,
         EnterUserClient, LeaveUserClient, Running
<1>3. /\ Effect(h)
      /\ \A sid : (Up(sid)' <=> Up(sid)) /\ (Exists(sid)' <=> Exists(sid))
  BY <1>1, <1>2, EffectSame
<1>4. CASE LookUpFails(t)
  <2>1. /\ \/ /\ h.op \in {"ActivateConnection", "DeactivateConnection", "ReleaseConnection"}
              /\ ~Connected(h.sid, h.cid)
           \/ /\ h.op \in {"DeactivateAllConnections", "ReleaseSession", "HandleConnectionTimeout"}
              /\ ~Exists(h.sid)
      /\ h \in AnyCall
    BY <1>1, <1>4, HeadType DEF LookUpFails, IInv
  <2>2. Dooms(h) => ~Exists(h.sid)
    BY <2>1 DEF Dooms
  <2>3. ~Connected(h.sid, 0) => ~Up(h.sid)
    BY DEF Connected, Connections, Enabled, Up
  <2>4. h.op \in Activating => h.cid = 0
    <3>1. CASE t \in Clients
      <4>1. Course(t, calls[t]) /\ 1 \in 1 .. Len(calls[t]) /\ h = calls[t][1]
        BY <1>1, <3>1, StackType, HeadType, EmptySeq DEF Mounts, Courses, IInv
      <4> QED
        BY <4>1 DEF Course
    <3>2. CASE t = Workloop
      BY <1>1, <3>2, HandlerHead DEF HandlerCalls, Activating
    <3> QED
      BY <3>1, <3>2 DEF Threads
  <2>5. Stops(h, h.sid) \/ h.op \in Activating => ~Up(h.sid)
    BY <2>1, <2>3, <2>4 DEF Stops, Activating
  <2>6. h.op \notin Lasts
    BY <2>1
  <2> QED
    BY <1>1, <1>3, <2>2, <2>5, <2>6, ReturnMounts
<1>5. CASE ~LookUpFails(t)
  <2>1. h.op \in {"unmount", "removeEventSources", "notifyTimeout", "notifyAsync", "IOLockLock", "IOLockUnlock"}
    BY <1>5 DEF UnmountLast, RemoveEventSources, SendTimeoutNotification, SendAsyncNotification,
         EnterUserClient, LeaveUserClient, Running
  <2>2. ~Dooms(h) /\ ~Stops(h, h.sid) /\ h.op \notin Activating /\ h.op \notin Lasts
    BY <2>1 DEF Dooms, Stops, Activating
  <2> QED
    BY <1>1, <1>3, <2>2, ReturnMounts
<1> QED
  BY <1>4, <1>5

LEMMA CountInactiveMounts ==
  ASSUME IInv, Safe, IInv', Mounts, NEW t \in Threads, CountInactive(t)
  PROVE  Mounts'
<1> PICK h : h = Head(calls[t])
  OBVIOUS
<1>1. Running(t, "decrement") /\ AddToActive(h.sid, h.gen, -1) /\ Return(t) /\ UNCHANGED targets
  BY DEF CountInactive
<1>2. calls[t] # <<>> /\ h.op = "decrement" /\ h.sid \in SessionIds
  BY <1>1, CallNames, RunningType DEF IInv
<1>3. Effect(h)
  BY <1>1, <1>2, EffectCount
<1>4. ~Dooms(h) /\ ~Stops(h, h.sid) /\ h.op \notin Activating /\ h.op \notin Lasts
  BY <1>2 DEF Dooms, Stops, Activating
<1> QED
  BY <1>1, <1>2, <1>3, <1>4, ReturnMounts

LEMMA UnlinkMounts ==
  ASSUME IInv, Safe, IInv', Mounts, NEW t \in Threads, UnlinkConnection(t)
  PROVE  Mounts'
<1> PICK h : h = Head(calls[t])
  OBVIOUS
<1>1. Running(t, "unlink") /\ Return(t) /\ UNCHANGED targets
  BY DEF UnlinkConnection
<1>2. calls[t] # <<>> /\ h.op = "unlink" /\ h.sid \in SessionIds /\ h.cid \in ConnectionIds
  BY <1>1, CallNames, RunningType DEF IInv
<1>3. Effect(h)
  <2>1. CASE Alive(h.sid, h.gen)
    <3>1. SetConnection(h.sid, h.cid, "none") /\ Exists(h.sid)
      BY <2>1 DEF UnlinkConnection, Alive
    <3> QED
      BY <1>1, <1>2, <3>1, EffectSet
  <2>2. CASE ~Alive(h.sid, h.gen)
    BY <1>1, <2>2, EffectSame DEF UnlinkConnection
  <2> QED
    BY <2>1, <2>2
<1>4. ~Dooms(h) /\ ~Stops(h, h.sid) /\ h.op \notin Activating /\ h.op \notin Lasts
  BY <1>2 DEF Dooms, Stops, Activating
<1> QED
  BY <1>1, <1>2, <1>3, <1>4, ReturnMounts

LEMMA FreeMounts ==
  ASSUME IInv, Safe, IInv', Mounts, NEW t \in Threads, FreeSession(t)
  PROVE  Mounts'
<1> PICK h : h = Head(calls[t])
  OBVIOUS
<1> PICK d : d = Call("removeName", h.sid, h.cid)
  OBVIOUS
<1> PICK next : next = <<d>>
  OBVIOUS
<1>1. Running(t, "free") /\ CallNext(t, next) /\ UNCHANGED targets /\ sessionList' = [sessionList EXCEPT ![h.sid] = NoSession]
  BY DEF FreeSession
<1>2. calls[t] # <<>> /\ h.op = "free" /\ h.sid \in SessionIds /\ h.cid \in ConnectionIds
  BY <1>1, CallNames, RunningType DEF IInv
<1>3. sessionList'[h.sid] = NoSession /\ \A s \in SessionIds \ {h.sid} : sessionList'[s] = sessionList[s]
  BY <1>1, <1>2 DEF IInv, TypeOK
<1>4. ~Exists(h.sid)'
  BY <1>3 DEF Exists
<1>5. \A s \in SessionIds : Exists(s)' => /\ Exists(s) /\ Enabled(s)' = Enabled(s)
                                          /\ sessionList'[s] = sessionList[s] /\ (Up(s)' <=> Up(s))
  BY <1>3, <1>4 DEF Exists, Enabled, Up
<1>6. \A s \in SessionIds : Exists(s) => Enabled(s) \subseteq {0}
  BY DEF Mounts, FirstOnly
<1>7. Effect(h)
  BY <1>1, <1>5, <1>6 DEF Effect
<1>8. ~Stops(h, h.sid) /\ h.op \notin Activating /\ h.op \notin Lasts
  BY <1>2 DEF Stops, Activating
<1>9. d \in AnyCall /\ d.op = "removeName" /\ d.sid = h.sid
  BY <1>2, CallType DEF Call, AnyCall, LookUpCalls
<1>10. next \in Seq(AnyCall) /\ \A k \in 1 .. Len(next) : next[k] = d
  BY <1>9
<1>11. d.op \notin Activating \cup Lasts /\ ~MustEnd(t, d) /\ ~Lowers(d)
  BY <1>9 DEF Activating, MustEnd, Lowers
<1>12. PlainNext(t, h, next)
  BY <1>9, <1>10, <1>11 DEF PlainNext
<1> QED
  BY <1>1, <1>2, <1>4, <1>7, <1>8, <1>10, <1>12, PlainMounts

LEMMA RemoveNameMounts ==
  ASSUME IInv, Safe, IInv', Mounts, NEW t \in Threads, RemoveName(t)
  PROVE  Mounts'
<1> PICK h : h = Head(calls[t])
  OBVIOUS
<1>1. calls[t] # <<>> /\ h.op = "removeName" /\ Return(t) /\ UNCHANGED <<sessionList, targets>>
  BY DEF RemoveName, Running
<1>2. Effect(h)
  BY <1>1, EffectSame
<1>3. ~Dooms(h) /\ ~Stops(h, h.sid) /\ h.op \notin Activating /\ h.op \notin Lasts
  BY <1>1 DEF Dooms, Stops, Activating
<1> QED
  BY <1>1, <1>2, <1>3, ReturnMounts

LEMMA DeactivateConnectionMounts ==
  ASSUME IInv, Safe, IInv', Mounts, NEW t \in Threads, DeactivateConnection(t)
  PROVE  Mounts'
<1> PICK h : h = Head(calls[t])
  OBVIOUS
<1> PICK a, b : a = Rest("decrement", h) /\ b = Rest("unmount", h)
  OBVIOUS
<1> PICK next : next = <<a, b>>
  OBVIOUS
<1>1. /\ Running(t, "DeactivateConnection") /\ "DeactivateConnection" \in KernelCalls
      /\ {"decrement", "unmount"} \subseteq PointerCalls
  BY DEF DeactivateConnection, KernelCalls, LookUpCalls, PointerCalls, HoldsSession
<1>2. /\ calls[t] # <<>> /\ h.op = "DeactivateConnection" /\ h \in SessionCall
      /\ h.sid \in SessionIds /\ h.cid \in ConnectionIds
  BY <1>1, RunningType DEF IInv
<1>3. Exists(h.sid) /\ SetConnection(h.sid, h.cid, "idle") /\ CallNext(t, next) /\ UNCHANGED targets
  BY DEF DeactivateConnection, Connected
<1>4. /\ a \in SessionCall /\ a.op = "decrement" /\ a.sid = h.sid
      /\ b \in SessionCall /\ b.op = "unmount" /\ b.sid = h.sid
  <2>1. a.sid = h.sid /\ b.sid = h.sid
    BY DEF Rest
  <2> QED
    BY <1>1, <1>2, <1>3, <2>1, RestType DEF IInv
<1>5. next \in Seq(AnyCall) /\ \A k \in 1 .. Len(next) : next[k] \in {a, b}
  BY <1>1, <1>4, CallNames, KernelCallSequences
<1>6. Effect(h) /\ (h.cid = 0 => ~Up(h.sid)')
  BY <1>2, <1>3, EffectSet
<1>7. ~Up(h.sid)' \/ Lowers(h)
  BY <1>2, <1>6 DEF Lowers
<1>8. Stops(h, h.sid) => ~Up(h.sid)'
  BY <1>6 DEF Stops
<1>9. \A k \in 1 .. Len(next) :
         /\ next[k].op \in {"decrement", "unmount"} /\ next[k].sid = h.sid
         /\ next[k].op \notin Activating \cup Lasts /\ next[k].op \in Spares
  BY <1>4, <1>5 DEF Activating, Spares
<1>10. ~Dooms(h) /\ h.op \notin Activating /\ h.op \in KernelCalls \cup Exchanges
  BY <1>1, <1>2 DEF Dooms, Activating
<1>11. KernelNext(t, h, next)
  BY <1>7, <1>9 DEF KernelNext
<1> QED
  BY <1>2, <1>3, <1>5, <1>6, <1>8, <1>10, <1>11, KernelMounts

LEMMA DeactivateAllConnectionsMounts ==
  ASSUME IInv, Safe, IInv', Mounts, NEW t \in Threads, DeactivateAllConnections(t)
  PROVE  Mounts'
<1> PICK h : h = Head(calls[t])
  OBVIOUS
<1> PICK next : next = ForConnections("DeactivateConnection", h.sid)
  OBVIOUS
<1>1. /\ Running(t, "DeactivateAllConnections") /\ "DeactivateAllConnections" \in KernelCalls
      /\ "DeactivateConnection" \in LookUpCalls
  BY DEF DeactivateAllConnections, KernelCalls, LookUpCalls
<1>2. calls[t] # <<>> /\ h.op = "DeactivateAllConnections" /\ h.sid \in SessionIds
  BY <1>1, RunningType DEF IInv
<1>3. CallNext(t, next) /\ UNCHANGED <<sessionList, targets>>
  BY DEF DeactivateAllConnections
<1>4. /\ next \in Seq(AnyCall) /\ Len(next) = MaxConnections /\ MaxConnections \in Nat \ {0}
      /\ \A k \in 1 .. Len(next) : next[k].op = "DeactivateConnection" /\ next[k].sid = h.sid /\ next[k].cid = k - 1
  BY <1>1, <1>2, ForConnectionsCalls, HBAConstants
<1>5. Effect(h)
  BY <1>3, EffectSame
<1>6. \A k \in 1 .. Len(next) :
         /\ next[k].op \notin Activating \cup Lasts /\ next[k].op \in Spares
         /\ Lowers(next[k]) => \E j \in 1 .. k - 1 : Stops(next[j], h.sid)
  <2> SUFFICES ASSUME NEW k \in 1 .. Len(next)
               PROVE  /\ next[k].op \notin Activating \cup Lasts /\ next[k].op \in Spares
                      /\ Lowers(next[k]) => \E j \in 1 .. k - 1 : Stops(next[j], h.sid)
    OBVIOUS
  <2>1. next[k].op = "DeactivateConnection" /\ next[k].cid = k - 1
    BY <1>4
  <2>2. Stops(next[1], h.sid)
    <3>1. 1 \in 1 .. Len(next)
      BY <1>4
    <3> QED
      BY <1>4, <3>1 DEF Stops
  <2>3. Lowers(next[k]) => 1 \in 1 .. k - 1
    BY <1>4, <2>1 DEF Lowers
  <2> QED
    BY <2>1, <2>2, <2>3 DEF Activating, Spares
<1>7. ~Dooms(h) /\ h.op \notin Activating /\ ~Stops(h, h.sid) /\ h.op \in KernelCalls \cup Exchanges
  BY <1>1, <1>2 DEF Dooms, Activating, Stops
<1>8. KernelNext(t, h, next)
  BY <1>4, <1>6 DEF KernelNext
<1> QED
  BY <1>2, <1>3, <1>4, <1>5, <1>7, <1>8, KernelMounts

LEMMA HandleConnectionTimeoutMounts ==
  ASSUME IInv, Safe, IInv', Mounts, NEW t \in Threads, HandleConnectionTimeout(t)
  PROVE  Mounts'
<1> PICK h : h = Head(calls[t])
  OBVIOUS
<1>1. /\ Running(t, "HandleConnectionTimeout") /\ "HandleConnectionTimeout" \in KernelCalls
      /\ "notifyTimeout" \in PointerCalls
      /\ {"DeactivateConnection", "DeactivateAllConnections"} \subseteq LookUpCalls
  BY DEF HandleConnectionTimeout, KernelCalls, LookUpCalls, PointerCalls
<1>2. /\ calls[t] # <<>> /\ h.op = "HandleConnectionTimeout" /\ h \in SessionCall
      /\ h.sid \in SessionIds /\ h.cid \in ConnectionIds
  BY <1>1, RunningType DEF IInv
<1>3. PICK first \in {"DeactivateConnection", "DeactivateAllConnections"} :
         /\ Exists(h.sid) /\ UNCHANGED <<sessionList, targets>>
         /\ CallNext(t, <<Call(first, h.sid, h.cid), Rest("notifyTimeout", h)>>)
  BY DEF HandleConnectionTimeout
<1> PICK a, b : a = Call(first, h.sid, h.cid) /\ b = Rest("notifyTimeout", h)
  OBVIOUS
<1> PICK next : next = <<a, b>>
  OBVIOUS
<1>4. /\ a \in SessionCall /\ a.op = first /\ a.sid = h.sid /\ a.cid = h.cid
      /\ b \in SessionCall /\ b.op = "notifyTimeout" /\ b.sid = h.sid
  <2>1. a.sid = h.sid /\ a.cid = h.cid /\ b.sid = h.sid
    BY DEF Call, Rest
  <2>2. a \in SessionCall /\ a.op = first
    BY <1>1, <1>2, CallType
  <2> QED
    BY <1>1, <1>2, <1>3, <2>1, <2>2, RestType DEF IInv
<1>5. next \in Seq(AnyCall) /\ \A k \in 1 .. Len(next) : next[k] \in {a, b}
  BY <1>1, <1>4, CallNames, KernelCallSequences
<1>6. Effect(h)
  BY <1>3, EffectSame
<1>7. \A k \in 1 .. Len(next) :
         /\ next[k].op \notin Activating \cup Lasts /\ next[k].sid = h.sid
         /\ Lowers(next[k]) => Lowers(h)
  BY <1>2, <1>4, <1>5 DEF Activating, Lowers
<1>8. /\ ~Dooms(h) /\ h.op \notin Activating /\ ~Stops(h, h.sid) /\ h.op \in KernelCalls \cup Exchanges
      /\ h.op \notin Spares
  BY <1>1, <1>2 DEF Dooms, Activating, Stops, Spares
<1>9. KernelNext(t, h, next)
  BY <1>7, <1>8 DEF KernelNext
<1> QED
  BY <1>2, <1>3, <1>5, <1>6, <1>8, <1>9, KernelMounts

LEMMA ReleaseConnectionMethodMounts ==
  ASSUME IInv, Safe, IInv', Mounts, NEW t \in Threads, ReleaseConnectionMethod(t)
  PROVE  Mounts'
<1> PICK h : h = Head(calls[t])
  OBVIOUS
<1>1. /\ Running(t, "ReleaseConnectionMethod") /\ "ReleaseConnectionMethod" \in KernelCalls
      /\ {"ReleaseSession", "ReleaseConnection"} \subseteq LookUpCalls \cap KernelCalls
  BY DEF ReleaseConnectionMethod, KernelCalls, LookUpCalls
<1>2. /\ calls[t] # <<>> /\ h.op = "ReleaseConnectionMethod"
      /\ h.sid \in SessionIds /\ h.cid \in ConnectionIds
  BY <1>1, RunningType DEF IInv
<1>3. PICK op \in {"ReleaseSession", "ReleaseConnection"} :
         CallNext(t, <<Call(op, h.sid, h.cid)>>) /\ UNCHANGED <<sessionList, targets>>
  BY DEF ReleaseConnectionMethod
<1> PICK a : a = Call(op, h.sid, h.cid)
  OBVIOUS
<1> PICK next : next = <<a>>
  OBVIOUS
<1>4. a \in SessionCall /\ a.op = op /\ a.sid = h.sid
  <2>1. a.sid = h.sid
    BY DEF Call
  <2> QED
    BY <1>1, <1>2, <2>1, CallType
<1>5. next \in Seq(AnyCall) /\ \A k \in 1 .. Len(next) : next[k] = a
  BY <1>1, <1>4, KernelCallSequences
<1>6. Effect(h)
  BY <1>3, EffectSame
<1>7. \A k \in 1 .. Len(next) :
         /\ next[k].op \notin Activating \cup Lasts /\ next[k].sid = h.sid /\ ~Lowers(next[k])
         /\ next[k].op \in Spares \/ \E j \in k .. Len(next) : Dooms(next[j]) /\ next[j].sid = next[k].sid
  BY <1>4, <1>5 DEF Activating, Lowers, Spares, Dooms
<1>8. /\ ~Dooms(h) /\ h.op \notin Activating /\ ~Stops(h, h.sid) /\ h.op \in KernelCalls \cup Exchanges
  BY <1>1, <1>2 DEF Dooms, Activating, Stops
<1>9. KernelNext(t, h, next)
  BY <1>7 DEF KernelNext
<1> QED
  BY <1>2, <1>3, <1>5, <1>6, <1>8, <1>9, KernelMounts

LEMMA ReleaseConnectionMounts ==
  ASSUME IInv, Safe, IInv', Mounts, NEW t \in Threads, ReleaseConnection(t)
  PROVE  Mounts'
<1> PICK h : h = Head(calls[t])
  OBVIOUS
<1> PICK a, b, d : /\ a = Rest("unlink", h) /\ b = Rest("removeEventSources", h)
                   /\ d = Call("DeactivateConnection", h.sid, h.cid)
  OBVIOUS
<1> PICK first : first = IF h.cid \in Enabled(h.sid) THEN <<d>> ELSE <<>>
  OBVIOUS
<1>0. PICK next : next = first \o <<a, b>>
  OBVIOUS
<1>1. /\ Running(t, "ReleaseConnection") /\ "ReleaseConnection" \in KernelCalls
      /\ {"unlink", "removeEventSources"} \subseteq PointerCalls
      /\ "DeactivateConnection" \in LookUpCalls \cap KernelCalls
  BY DEF ReleaseConnection, KernelCalls, LookUpCalls, PointerCalls, HoldsSession
<1>2. /\ calls[t] # <<>> /\ h.op = "ReleaseConnection" /\ h \in SessionCall
      /\ h.sid \in SessionIds /\ h.cid \in ConnectionIds
  BY <1>1, RunningType DEF IInv
<1>3. Exists(h.sid) /\ CallNext(t, next) /\ UNCHANGED <<sessionList, targets>>
  BY <1>0 DEF ReleaseConnection, Connected
<1>4. /\ a \in SessionCall /\ a.op = "unlink" /\ a.sid = h.sid
      /\ b \in SessionCall /\ b.op = "removeEventSources" /\ b.sid = h.sid
      /\ d \in SessionCall /\ d.op = "DeactivateConnection" /\ d.sid = h.sid /\ d.cid = h.cid
  <2>1. a.sid = h.sid /\ b.sid = h.sid /\ d.sid = h.sid /\ d.cid = h.cid
    BY DEF Call, Rest
  <2>2. d \in SessionCall /\ d.op = "DeactivateConnection"
    BY <1>1, <1>2, CallType
  <2> QED
    BY <1>1, <1>2, <1>3, <2>1, <2>2, RestType DEF IInv
<1>5. /\ first \in Seq(AnyCall) /\ <<a, b>> \in Seq(AnyCall) /\ Len(<<a, b>>) = 2
      /\ Len(first) \in Nat /\ \A i \in 1 .. Len(first) : first[i] = d /\ h.cid \in Enabled(h.sid)
  BY <1>1, <1>4, CallNames, KernelCallSequences
<1>6. /\ next \in Seq(AnyCall)
      /\ \A k \in 1 .. Len(next) : next[k] \in {a, b} \/ (next[k] = d /\ h.cid \in Enabled(h.sid))
  <2>1. /\ next \in Seq(AnyCall) /\ Len(next) = Len(first) + 2
        /\ \A i \in 1 .. Len(first) : next[i] = first[i]
        /\ next[Len(first) + 1] = a /\ next[Len(first) + 2] = b
    <3>0. PICK last : last = <<a, b>>
      OBVIOUS
    <3>1. last \in Seq(AnyCall) /\ Len(last) = 2 /\ last[1] = a /\ last[2] = b
      BY <1>5, <3>0
    <3>2. next = first \o last
      BY <1>0, <3>0
    <3>3. Joins(next, first, last)
      BY <1>5, <3>1, <3>2, Concat
    <3> QED
      BY <1>5, <3>1, <3>3 DEF Joins
  <2>2. ASSUME NEW k \in 1 .. Len(next)
        PROVE  next[k] \in {a, b} \/ (next[k] = d /\ h.cid \in Enabled(h.sid))
    <3>1. CASE k \in 1 .. Len(first)
      <4>1. next[k] = first[k]
        BY <2>1, <3>1
      <4> QED
        BY <1>5, <3>1, <4>1
    <3>2. CASE k \notin 1 .. Len(first)
      <4>1. k = Len(first) + 1 \/ k = Len(first) + 2
        BY <1>5, <2>1, <3>2
      <4> QED
        BY <2>1, <4>1
    <3> QED
      BY <3>1, <3>2
  <2> QED
    BY <2>1, <2>2
<1>7. Effect(h)
  BY <1>3, EffectSame
<1>8. h.cid \in Enabled(h.sid) => h.cid = 0
  BY <1>2, <1>3 DEF Mounts, FirstOnly
<1>9. \A k \in 1 .. Len(next) :
         /\ next[k].op \notin Activating \cup Lasts /\ next[k].sid = h.sid
         /\ next[k].op \in Spares /\ ~Lowers(next[k])
  <2> SUFFICES ASSUME NEW k \in 1 .. Len(next)
               PROVE  /\ next[k].op \notin Activating \cup Lasts /\ next[k].sid = h.sid
                      /\ next[k].op \in Spares /\ ~Lowers(next[k])
    OBVIOUS
  <2>1. /\ next[k].op \in {"unlink", "removeEventSources", "DeactivateConnection"} /\ next[k].sid = h.sid
        /\ next[k].op = "DeactivateConnection" => next[k].cid = 0
    BY <1>4, <1>6, <1>8
  <2> QED
    BY <2>1 DEF Activating, Spares, Lowers
<1>10. ~Dooms(h) /\ h.op \notin Activating /\ ~Stops(h, h.sid) /\ h.op \in KernelCalls \cup Exchanges
  BY <1>1, <1>2 DEF Dooms, Activating, Stops
<1>11. KernelNext(t, h, next)
  BY <1>9 DEF KernelNext
<1> QED
  BY <1>2, <1>3, <1>6, <1>7, <1>10, <1>11, KernelMounts

LEMMA ReleaseSessionMounts ==
  ASSUME IInv, Safe, IInv', Mounts, NEW t \in Threads, ReleaseSession(t)
  PROVE  Mounts'
<1> PICK h : h = Head(calls[t])
  OBVIOUS
<1> PICK a : a = Rest("free", h)
  OBVIOUS
<1> PICK first : first = ForConnections("ReleaseConnection", h.sid)
  OBVIOUS
<1>0. PICK next : next = first \o <<a>>
  OBVIOUS
<1>1. /\ Running(t, "ReleaseSession") /\ "ReleaseSession" \in KernelCalls
      /\ "free" \in PointerCalls \cap KernelCalls
      /\ "ReleaseConnection" \in LookUpCalls
  BY DEF ReleaseSession, KernelCalls, LookUpCalls, PointerCalls, HoldsSession
<1>2. /\ calls[t] # <<>> /\ h.op = "ReleaseSession" /\ h \in SessionCall /\ h.sid \in SessionIds
  BY <1>1, RunningType DEF IInv
<1>3. Exists(h.sid) /\ CallNext(t, next) /\ UNCHANGED <<sessionList, targets>>
  BY <1>0 DEF ReleaseSession
<1>4. a \in SessionCall /\ a.op = "free" /\ a.sid = h.sid
  <2>1. a.sid = h.sid
    BY DEF Rest
  <2> QED
    BY <1>1, <1>2, <1>3, <2>1, RestType DEF IInv
<1>5. /\ first \in Seq(AnyCall) /\ <<a>> \in Seq(AnyCall) /\ Len(<<a>>) = 1
      /\ Len(first) \in Nat
      /\ \A i \in 1 .. Len(first) : first[i].op = "ReleaseConnection" /\ first[i].sid = h.sid
  <2>1. <<a>> \in Seq(AnyCall) /\ Len(<<a>>) = 1
    BY <1>1, <1>4, KernelCallSequences
  <2>2. /\ first \in Seq(AnyCall) /\ Len(first) = MaxConnections
        /\ \A i \in 1 .. MaxConnections : first[i].op = "ReleaseConnection" /\ first[i].sid = h.sid
    BY <1>1, <1>2, ForConnectionsCalls
  <2> QED
    BY <2>1, <2>2, HBAConstants
<1>6. /\ next \in Seq(AnyCall) /\ Len(next) = Len(first) + 1 /\ next[Len(next)] = a
      /\ Len(next) \in 1 .. Len(next)
      /\ \A k \in 1 .. Len(next) : next[k] = a \/ (next[k].op = "ReleaseConnection" /\ next[k].sid = h.sid)
  <2>1. /\ next \in Seq(AnyCall) /\ Len(next) = Len(first) + 1
        /\ \A i \in 1 .. Len(first) : next[i] = first[i]
        /\ next[Len(first) + 1] = a
    BY <1>0, <1>5, ConcatProperties
  <2>2. ASSUME NEW k \in 1 .. Len(next)
        PROVE  k \in 1 .. Len(first) \/ k = Len(first) + 1
    BY <1>5, <2>1
  <2> QED
    BY <1>5, <2>1, <2>2
<1>7. Effect(h)
  BY <1>3, EffectSame
<1>8. \A k \in 1 .. Len(next) :
         /\ next[k].op \notin Activating \cup Lasts /\ next[k].sid = h.sid /\ ~Lowers(next[k])
         /\ Dooms(next[Len(next)]) /\ next[Len(next)].sid = next[k].sid /\ Len(next) \in k .. Len(next)
  <2> SUFFICES ASSUME NEW k \in 1 .. Len(next)
               PROVE  /\ next[k].op \notin Activating \cup Lasts /\ next[k].sid = h.sid /\ ~Lowers(next[k])
                      /\ Dooms(next[Len(next)]) /\ next[Len(next)].sid = next[k].sid /\ Len(next) \in k .. Len(next)
    OBVIOUS
  <2>1. next[k].op \in {"free", "ReleaseConnection"} /\ next[k].sid = h.sid
    BY <1>4, <1>6
  <2>2. Dooms(next[Len(next)]) /\ next[Len(next)].sid = h.sid
    BY <1>4, <1>6 DEF Dooms
  <2>3. Len(next) \in k .. Len(next)
    BY <1>6
  <2> QED
    BY <2>1, <2>2, <2>3 DEF Activating, Lowers
<1>9. h.op \notin Lasts /\ h.op \notin Activating /\ ~Stops(h, h.sid)
  BY <1>2 DEF Activating, Stops
<1>10. \E k \in 1 .. Len(next) : Dooms(next[k]) /\ next[k].sid = h.sid
  BY <1>6, <1>8
<1>11. PlainNext(t, h, next)
  BY <1>8 DEF PlainNext
<1> QED
  BY <1>2, <1>3, <1>6, <1>7, <1>9, <1>10, <1>11, PlainMounts

-----------------------------------------------------------------------------
(* What the daemon's threads do once a session has failed, or is left.     *)

Closing == {"HandleConnectionTimeout", "DeactivateAllConnections", "ReleaseSession",
            "exchange", "logoutExchange", "IOLockLock", "IOLockUnlock"}
Mild(s, sid) ==
    /\ s \in Seq(AnyCall) /\ Len(s) \in Nat
    /\ \A i \in 1 .. Len(s) : s[i].op \in Closing /\ s[i].sid \in {None, sid}
\* In the end the session is released.
Closes(s, sid) ==
    /\ Mild(s, sid)
    /\ \E j \in 1 .. Len(s) : Dooms(s[j]) /\ s[j].sid = sid
    /\ \A i \in 1 .. Len(s) : s[i].sid # None => \E j \in i .. Len(s) : Dooms(s[j]) /\ s[j].sid = sid

LEMMA MildConcat ==
  ASSUME NEW a, NEW b, NEW sid, Mild(a, sid), Mild(b, sid)
  PROVE  Mild(a \o b, sid)
<1>0. PICK c : c = a \o b
  OBVIOUS
<1>1. /\ c \in Seq(AnyCall) /\ Len(c) = Len(a) + Len(b) /\ Len(a) \in Nat /\ Len(b) \in Nat
      /\ \A i \in 1 .. Len(a) : c[i] = a[i]
      /\ \A i \in 1 .. Len(b) : c[Len(a) + i] = b[i]
  BY <1>0, ConcatProperties DEF Mild
<1>2. ASSUME NEW i \in 1 .. Len(c)
      PROVE  c[i].op \in Closing /\ c[i].sid \in {None, sid}
  <2>1. CASE i \in 1 .. Len(a)
    BY <1>1, <2>1 DEF Mild
  <2>2. CASE i \notin 1 .. Len(a)
    <3>1. i - Len(a) \in 1 .. Len(b) /\ Len(a) + (i - Len(a)) = i
      BY <1>1, <2>2
    <3>2. c[i] = b[i - Len(a)]
      BY <1>1, <3>1
    <3> QED
      BY <3>1, <3>2 DEF Mild
  <2> QED
    BY <2>1, <2>2
<1>3. Mild(c, sid)
  BY <1>1, <1>2 DEF Mild
<1> QED
  BY <1>0, <1>3

LEMMA ClosesConcat ==
  ASSUME NEW a, NEW b, NEW sid, Mild(a, sid), Closes(b, sid)
  PROVE  Closes(a \o b, sid)
<1>0. PICK c : c = a \o b
  OBVIOUS
<1>1. /\ Len(c) = Len(a) + Len(b) /\ Len(a) \in Nat /\ Len(b) \in Nat
      /\ \A i \in 1 .. Len(b) : c[Len(a) + i] = b[i]
  BY <1>0, ConcatProperties DEF Mild, Closes
<1>2. Mild(c, sid)
  BY <1>0, MildConcat DEF Closes
<1>3. ASSUME NEW j \in 1 .. Len(b)
      PROVE  Len(a) + j \in 1 .. Len(c) /\ c[Len(a) + j] = b[j]
  BY <1>1
<1>4. PICK l \in 1 .. Len(b) : Dooms(b[l]) /\ b[l].sid = sid
  BY DEF Closes
<1>5. Len(a) + l \in 1 .. Len(c) /\ Dooms(c[Len(a) + l]) /\ c[Len(a) + l].sid = sid
  BY <1>3, <1>4
<1>6. ASSUME NEW i \in 1 .. Len(c), c[i].sid # None
      PROVE  \E j \in i .. Len(c) : Dooms(c[j]) /\ c[j].sid = sid
  <2>1. CASE i \in 1 .. Len(a)
    <3>1. Len(a) + l \in i .. Len(c)
      BY <1>1, <2>1
    <3> QED
      BY <1>5, <3>1
  <2>2. CASE i \notin 1 .. Len(a)
    <3>1. i - Len(a) \in 1 .. Len(b) /\ Len(a) + (i - Len(a)) = i
      BY <1>1, <2>2
    <3>2. c[i] = b[i - Len(a)]
      BY <1>1, <3>1
    <3>3. PICK j \in i - Len(a) .. Len(b) : Dooms(b[j]) /\ b[j].sid = sid
      BY <1>6, <3>1, <3>2 DEF Closes
    <3>4. j \in 1 .. Len(b) /\ Len(a) + j \in i .. Len(c)
      BY <1>1, <3>1
    <3> QED
      BY <1>3, <3>3, <3>4
  <2> QED
    BY <2>1, <2>2
<1>7. Closes(c, sid)
  BY <1>2, <1>5, <1>6 DEF Closes
<1> QED
  BY <1>0, <1>7

LEMMA ClosingCalls ==
  ASSUME NEW sid \in SessionIds, NEW cid \in ConnectionIds
  PROVE  /\ Closes(Method(Call("ReleaseSession", sid, 0)), sid)
         /\ Closes(LogoutCalls(sid), sid)
         /\ \A c : c.sid = sid /\ c.cid = cid => Mild(LostIn(c), sid)
         /\ Mild(<<Call("exchange", sid, cid)>>, sid)
         /\ Mild(<<>>, sid)
<1> DEFINE d(op, k) == Call(op, sid, k)
<1>1. /\ {"HandleConnectionTimeout", "DeactivateAllConnections", "ReleaseSession"} \subseteq LookUpCalls
      /\ {"exchange", "logoutExchange"} \subseteq Exchanges
      /\ {"HandleConnectionTimeout", "DeactivateAllConnections", "ReleaseSession",
          "exchange", "logoutExchange"} \subseteq Closing
  BY DEF LookUpCalls, Exchanges, Closing
<1>2. 0 \in ConnectionIds
  BY Ids
<1>3. ASSUME NEW k \in ConnectionIds,
             NEW op \in {"HandleConnectionTimeout", "DeactivateAllConnections", "ReleaseSession"}
      PROVE  /\ Mild(Method(d(op, k)), sid)
             /\ Len(Method(d(op, k))) = 3 /\ Method(d(op, k))[2] = d(op, k) /\ Method(d(op, k))[3].sid = None
             /\ Method(d(op, k))[1].sid = None
  <2>1. PICK m : m = Method(d(op, k))
    OBVIOUS
  <2>2. m \in Seq(AnyCall)
    BY <1>1, <2>1, MethodCalls
  <2>3. /\ Len(m) = 3 /\ m[1] = LockAccess /\ m[2] = d(op, k) /\ m[3] = UnlockAccess
    BY <2>1 DEF Method
  <2>4. \A i \in 1 .. Len(m) : m[i] \in {LockAccess, d(op, k), UnlockAccess}
    BY <2>3
  <2>5. \A i \in 1 .. Len(m) : m[i].op \in Closing /\ m[i].sid \in {None, sid}
    BY <1>1, <2>4 DEF LockAccess, UnlockAccess, Call, Closing
  <2> QED
    BY <2>1, <2>2, <2>3, <2>5 DEF Mild, LockAccess, UnlockAccess
<1>4. ASSUME NEW k \in ConnectionIds, NEW op \in {"exchange", "logoutExchange"}
      PROVE  Mild(<<d(op, k)>>, sid)
  <2>1. PICK m : m = <<d(op, k)>>
    OBVIOUS
  <2>2. m \in Seq(AnyCall)
    BY <1>1, <2>1, ExchangeCalls
  <2>3. Len(m) = 1 /\ m[1] = d(op, k)
    BY <2>1
  <2>4. \A i \in 1 .. Len(m) : m[i].op \in Closing /\ m[i].sid = sid
    BY <1>1, <2>3 DEF Call
  <2> QED
    BY <2>1, <2>2, <2>3, <2>4 DEF Mild
<1>5. Closes(Method(d("ReleaseSession", 0)), sid)
  <2>1. PICK m : m = Method(d("ReleaseSession", 0))
    OBVIOUS
  <2>2. Mild(m, sid) /\ Len(m) = 3 /\ m[2] = d("ReleaseSession", 0) /\ m[3].sid = None
    BY <1>2, <1>3, <2>1
  <2>3. Dooms(m[2]) /\ m[2].sid = sid
    BY <2>2 DEF Dooms, Call
  <2>4. \A i \in 1 .. Len(m) : m[i].sid # None => 2 \in i .. Len(m)
    BY <2>2
  <2> QED
    BY <2>1, <2>2, <2>3, <2>4 DEF Closes
<1>6. Closes(LogoutCalls(sid), sid)
  <2>1. PICK a, b, c : /\ a = Method(d("DeactivateAllConnections", 0)) /\ b = <<d("logoutExchange", 0)>>
                       /\ c = Method(d("ReleaseSession", 0))
    OBVIOUS
  <2>2. Mild(a, sid) /\ Mild(b, sid) /\ Closes(c, sid)
    BY <1>2, <1>3, <1>4, <1>5, <2>1
  <2>3. LogoutCalls(sid) = (a \o b) \o c
    BY <2>1 DEF LogoutCalls
  <2> QED
    BY <2>2, <2>3, MildConcat, ClosesConcat
<1>7. ASSUME NEW c, c.sid = sid, c.cid = cid
      PROVE  Mild(LostIn(c), sid)
  <2>1. LostIn(c) = Method(d("HandleConnectionTimeout", cid))
    BY <1>7 DEF LostIn
  <2> QED
    BY <1>3, <2>1
<1>8. Mild(<<>>, sid)
  <2>1. PICK m : m = <<>>
    OBVIOUS
  <2>2. m \in Seq(AnyCall) /\ Len(m) = 0
    BY <2>1
  <2>3. \A i \in 1 .. Len(m) : FALSE
    BY <2>2
  <2>4. Mild(m, sid)
    BY <2>2, <2>3 DEF Mild
  <2> QED
    BY <2>1, <2>4
<1> QED
  BY <1>4, <1>5, <1>6, <1>7, <1>8

\* What the two kinds of lists are good for.
LEMMA ClosingNext ==
  ASSUME NEW s, NEW sid \in SessionIds, NEW t \in Clients
  PROVE  /\ Closes(s, sid) => Course(t, s)
         /\ \A h : h.sid = sid /\ Closes(s, sid) => PlainNext(t, h, s)
         /\ \A h : h.sid = sid /\ Mild(s, sid) /\ h.op \notin Spares => KernelNext(t, h, s)
<1>1. ASSUME NEW i \in 1 .. Len(s), Mild(s, sid)
      PROVE  /\ s[i].op \notin Activating \cup Lasts /\ ~Stops(s[i], sid)
             /\ s[i].sid \in {None, sid}
             /\ Lowers(s[i]) => MustEnd(t, s[i])
  <2>1. s[i].op \in Closing /\ s[i].sid \in {None, sid} /\ s[i] \in AnyCall
    BY <1>1 DEF Mild
  <2>2. Lowers(s[i]) => s[i].op = "HandleConnectionTimeout" /\ s[i].sid # None
    BY <2>1, CallSids DEF Lowers, Closing
  <2>3. "HandleConnectionTimeout" \notin Spares
    BY DEF Spares, Activating
  <2>4. s[i].op \notin Activating \cup Lasts /\ ~Stops(s[i], sid)
    BY <2>1 DEF Closing, Activating, Stops
  <2> QED
    BY <2>1, <2>2, <2>3, <2>4 DEF MustEnd
<1>2. ASSUME Closes(s, sid)
      PROVE  Course(t, s)
  <2>1. Mild(s, sid)
    BY <1>2 DEF Closes
  <2>2. \A i \in 1 .. Len(s) : s[i].op \notin Activating \cup Lasts
    BY <1>1, <2>1
  <2>3. ASSUME NEW i \in 1 .. Len(s), MustEnd(t, s[i])
        PROVE  \E j \in i .. Len(s) : Dooms(s[j]) /\ s[j].sid = s[i].sid
    <3>1. s[i].sid = sid
      BY <1>1, <2>1, <2>3 DEF MustEnd
    <3>2. \E j \in i .. Len(s) : Dooms(s[j]) /\ s[j].sid = sid
      BY <1>2, <2>3 DEF Closes, MustEnd
    <3> QED
      BY <3>1, <3>2
  <2> QED
    BY <2>2, <2>3 DEF Course
<1>3. ASSUME NEW h, h.sid = sid, Closes(s, sid)
      PROVE  PlainNext(t, h, s)
  <2>1. Mild(s, sid)
    BY <1>3 DEF Closes
  <2>2. ASSUME NEW i \in 1 .. Len(s), MustEnd(t, s[i])
        PROVE  \E j \in i .. Len(s) : Dooms(s[j]) /\ s[j].sid = s[i].sid
    BY <1>2, <1>3, <2>2 DEF Course
  <2> QED
    BY <1>1, <1>3, <2>1, <2>2 DEF PlainNext
<1>4. ASSUME NEW h, h.sid = sid, Mild(s, sid), h.op \notin Spares
      PROVE  KernelNext(t, h, s)
  BY <1>1, <1>4 DEF KernelNext
<1> QED
  BY <1>2, <1>3, <1>4

LEMMA ExchangeMounts ==
  ASSUME IInv, Safe, IInv', Mounts, NEW t \in Clients, Exchange(t) \/ LogoutExchange(t)
  PROVE  Mounts'
<1> PICK h : h = Head(calls[t])
  OBVIOUS
<1>1. PICK op \in {"exchange", "logoutExchange"} : Running(t, op)
  BY DEF Exchange, LogoutExchange
<1>2. op \in DaemonCalls \cap Exchanges /\ t \in Threads
  BY DEF DaemonCalls, Exchanges, Threads
<1>3. calls[t] # <<>> /\ h.op = op /\ h.sid \in SessionIds /\ h.cid \in ConnectionIds
  BY <1>1, <1>2, DaemonCallType DEF IInv, Running
<1>4. UNCHANGED <<sessionList, targets>>
  BY DEF Exchange, LogoutExchange
<1>5. PICK next : CallNext(t, next) /\ Mild(next, h.sid)
  <2>1. CASE Return(t)
    BY <1>3, <2>1, ClosingCalls DEF Return
  <2>2. CASE CallNext(t, LostIn(h))
    BY <1>3, <2>2, ClosingCalls
  <2>3. CASE Connections(h.sid) # {} /\ CallNext(t, LostIn(Call("exchange", h.sid, Min(Connections(h.sid)))))
    <3>1. Connections(h.sid) \subseteq ConnectionIds
      BY DEF Connections
    <3>2. Min(Connections(h.sid)) \in ConnectionIds
      BY <2>3, <3>1, MinOfIds, Ids
    <3> PICK c : c = Call("exchange", h.sid, Min(Connections(h.sid)))
      OBVIOUS
    <3>3. c.sid = h.sid /\ c.cid \in ConnectionIds
      BY <3>2 DEF Call
    <3>4. Mild(LostIn(c), h.sid)
      BY <1>3, <3>3, ClosingCalls
    <3> QED
      BY <2>3, <3>4
  <2> QED
    BY <2>1, <2>2, <2>3 DEF Exchange, LogoutExchange
<1>6. Effect(h)
  BY <1>4, EffectSame
<1>7. /\ h.op \in KernelCalls \cup Exchanges /\ ~Dooms(h) /\ h.op \notin Spares
      /\ ~Stops(h, h.sid) /\ h.op \notin Activating
  BY <1>2, <1>3 DEF Dooms, Spares, Stops, Activating
<1>8. KernelNext(t, h, next)
  BY <1>3, <1>5, <1>7, ClosingNext
<1>9. next \in Seq(AnyCall)
  BY <1>5 DEF Mild
<1> QED
  BY <1>2, <1>3, <1>5, <1>6, <1>7, <1>8, <1>9, KernelMounts

\* An exchange after which the session is released.
LEMMA ClosesMounts ==
  ASSUME IInv, Safe, IInv', Mounts, NEW t \in Clients, NEW op \in Exchanges, Running(t, op),
         NEW next, CallNext(t, next), Closes(next, Head(calls[t]).sid), UNCHANGED <<sessionList, targets>>
  PROVE  Mounts'
<1> PICK h : h = Head(calls[t])
  OBVIOUS
<1>1. op \in DaemonCalls /\ t \in Threads /\ t # Workloop
  BY HBAConstants DEF DaemonCalls, Threads
<1>2. calls[t] # <<>> /\ h.op = op /\ h.sid \in SessionIds /\ h.cid \in ConnectionIds
  BY <1>1, DaemonCallType DEF IInv, Running
<1>3. Closes(next, h.sid) /\ next \in Seq(AnyCall)
  BY DEF Closes, Mild
<1>4. Effect(h) /\ (Up(h.sid)' <=> Up(h.sid))
  BY EffectSame
<1>5. PlainNext(t, h, next)
  BY <1>2, <1>3, ClosingNext
<1>6. \E k \in 1 .. Len(next) : Dooms(next[k]) /\ next[k].sid = h.sid
  BY <1>3 DEF Closes
<1>7. h.op \notin Lasts /\ ~Stops(h, h.sid) /\ (h.op \in Activating => h.op = "loginExchange")
  BY <1>2 DEF Exchanges, Stops, Activating
<1>8. h.op = "loginExchange" => ~Up(h.sid)
  <2> SUFFICES ASSUME h.op = "loginExchange" PROVE ~Up(h.sid)
    OBVIOUS
  <2>1. h = calls[t][1] /\ 1 \in 1 .. Len(calls[t])
    BY <1>1, <1>2, HeadType, StackType, EmptySeq DEF IInv
  <2>2. t = Main
    BY <2>1 DEF Mounts, Courses, Course, Activating
  <2>3. Pending({"loginExchange", "ActivateConnection"}, h.sid)
    BY <2>1, <2>2 DEF Pending
  <2> QED
    BY <1>2, <2>3 DEF Mounts, FreshOK
<1> QED
  BY <1>1, <1>2, <1>3, <1>4, <1>5, <1>6, <1>7, <1>8, PlainMounts

LEMMA DiscoveryLoginMounts ==
  ASSUME IInv, Safe, IInv', Mounts, NEW t \in Clients, DiscoveryLogin(t)
  PROVE  Mounts'
<1> PICK h : h = Head(calls[t])
  OBVIOUS
<1>1. Running(t, "discoveryLogin") /\ "discoveryLogin" \in Exchanges /\ "discoveryLogin" \in DaemonCalls
  BY DEF DiscoveryLogin, Exchanges, DaemonCalls
<1>2. h.sid \in SessionIds /\ h.cid \in ConnectionIds
  BY <1>1, DaemonCallType DEF IInv
<1> PICK release, exchange, logout, lost :
       /\ release = Method(Call("ReleaseSession", h.sid, 0)) /\ exchange = <<Call("exchange", h.sid, h.cid)>>
       /\ logout = LogoutCalls(h.sid) /\ lost = LostIn(h)
  OBVIOUS
<1>3. /\ Closes(release, h.sid) /\ Closes(logout, h.sid) /\ Mild(exchange, h.sid) /\ Mild(lost, h.sid)
      /\ Mild(release, h.sid)
  <2>1. Closes(release, h.sid) /\ Closes(logout, h.sid) /\ Mild(exchange, h.sid) /\ Mild(lost, h.sid)
    BY <1>2, ClosingCalls
  <2> QED
    BY <2>1 DEF Closes
<1>4. /\ Closes(exchange \o logout, h.sid) /\ Closes(lost \o release, h.sid)
      /\ Closes(release \o (exchange \o logout), h.sid)
  BY <1>3, ClosesConcat
<1>5. PICK next \in {release, exchange \o logout, lost \o release, release \o (exchange \o logout)} :
         CallNext(t, next)
  BY DEF DiscoveryLogin
<1>6. Closes(next, h.sid) /\ UNCHANGED <<sessionList, targets>>
  BY <1>3, <1>4, <1>5 DEF DiscoveryLogin
<1> QED
  BY <1>1, <1>5, <1>6, ClosesMounts

-----------------------------------------------------------------------------
(* A login.                                                                *)

LEMMA ActivatingHead ==
  ASSUME IInv, Safe, Mounts, NEW t \in Threads, calls[t] # <<>>, NEW h, h = Head(calls[t]), h.op \in Activating
  PROVE  /\ t = Main /\ h.cid = 0 /\ h.sid \in SessionIds /\ h.sid # None /\ h \in AnyCall
         /\ 1 \in 1 .. Len(calls[Main]) /\ calls[Main][1] = h
         /\ \A j \in 2 .. Len(calls[Main]) : /\ calls[Main][j].sid = None
                                             /\ calls[Main][j].op \notin Activating \cup Lasts
         /\ \A ops : Pending(ops, h.sid) <=> h.op \in ops
<1>1. h \in AnyCall /\ calls[t][1] = h /\ 1 \in 1 .. Len(calls[t])
  BY HeadType, StackType, EmptySeq DEF IInv
<1>2. t # Workloop
  BY HandlerHead DEF HandlerCalls, Activating
<1>3. t \in Clients
  BY <1>2 DEF Threads
<1>4. Course(t, calls[t])
  BY <1>3 DEF Mounts, Courses
<1>5. t = Main /\ h.cid = 0 /\ \A j \in 1 .. Len(calls[t]) : j # 1 => calls[t][j].sid = None /\ calls[t][j].op \notin Lasts
  BY <1>1, <1>4 DEF Course
<1>6. h.sid \in SessionIds /\ h.sid # None
  BY <1>1, CallSids
<1>7. ASSUME NEW j \in 2 .. Len(calls[t])
      PROVE  calls[t][j].sid = None /\ calls[t][j].op \notin Activating \cup Lasts
  <2>1. j \in 1 .. Len(calls[t]) /\ j # 1
    BY StackType
  <2>2. calls[t][j] \in AnyCall
    BY <2>1, StackType
  <2> QED
    BY <1>5, <2>1, <2>2, CallSids
<1>8. ASSUME NEW ops
      PROVE  Pending(ops, h.sid) <=> h.op \in ops
  BY <1>1, <1>5, <1>6 DEF Pending
<1> QED
  BY <1>1, <1>5, <1>6, <1>7, <1>8

\* What a call of a login makes: at most one other call of it.
LoginNext(h, next) ==
    \A k \in 1 .. Len(next) :
        /\ next[k].op \notin Lasts
        /\ next[k].op \notin Activating => next[k].sid = None
        /\ next[k].op \in Activating => /\ next[k].sid = h.sid /\ next[k].cid = 0
                                        /\ \A j \in 1 .. Len(next) : j # k => next[j].sid = None
Makes(next, ops) == \E k \in 1 .. Len(next) : next[k].op \in ops

LEMMA ActivatingMounts ==
  ASSUME IInv, Safe, IInv', Mounts, NEW t \in Threads, calls[t] # <<>>, NEW h, h = Head(calls[t]),
         h.op \in Activating, NEW next \in Seq(AnyCall), CallNext(t, next), Effect(h), LoginNext(h, next),
         Makes(next, {"loginExchange", "ActivateConnection"}) => FreshOK(h.sid)',
         Up(h.sid)' /\ ~Doomed(h.sid)' =>
            /\ h.sid \in targets' \/ Makes(next, {"mount"})
            /\ sessionList'[h.sid].active = IF Makes(next, {"mount", "increment"}) THEN 0 ELSE 1
  PROVE  Mounts'
<1>1. /\ Turn(t, h, next) /\ Replacing(calls[t], next, calls'[t])
      /\ 1 \in 1 .. Len(calls[t]) /\ calls[t][1] = h
  BY TurnNext
<1>2. /\ t = Main /\ h.sid \in SessionIds /\ h.sid # None /\ h \in AnyCall
      /\ \A j \in 2 .. Len(calls[t]) : /\ calls[t][j].sid = None
                                       /\ calls[t][j].op \notin Activating \cup Lasts
  BY ActivatingHead
<1>3. t \in Clients /\ t # Workloop
  BY <1>2, SessionManagerConstants, HBAConstants
<1>4. Course(t, next)
  BY <1>2 DEF Course, LoginNext, MustEnd, Spares
<1>5. Course(t, calls'[t])
  BY <1>1, <1>2, <1>4, CourseLast DEF LoginNext
<1>6. ~Dooms(h) /\ ~Stops(h, h.sid)
  BY DEF Dooms, Stops, Activating
<1>7. \A k \in 1 .. Len(next) : ~Lowers(next[k])
  <2> SUFFICES ASSUME NEW k \in 1 .. Len(next) PROVE ~Lowers(next[k])
    OBVIOUS
  <2>1. next[k] \in AnyCall
    OBVIOUS
  <2>2. Lowers(next[k]) => next[k].sid # None
    BY <2>1, CallSids DEF Lowers
  <2>3. Lowers(next[k]) => next[k].op \notin Activating
    BY DEF Lowers, Activating
  <2> QED
    BY <2>2, <2>3 DEF LoginNext
<1>8. \A sid \in SessionIds : Up(sid)' => Up(sid) \/ (t \in Clients /\ h.op = "ActivateConnection" /\ h.sid = sid)
  BY <1>3 DEF Effect, Up
<1>9. Covered(calls[t])'
  BY <1>5, <1>6, <1>7, <1>8, CoveredNext
<1>10. \A k \in 1 .. Len(next) :
         /\ next[k].op \in {"loginExchange", "ActivateConnection"} => FreshOK(next[k].sid)'
         /\ next[k].op \in {"mount", "increment"} => h.op \in Activating /\ next[k].sid = h.sid
  <2> SUFFICES ASSUME NEW k \in 1 .. Len(next), next[k].op \in Activating
               PROVE  next[k].sid = h.sid /\ (next[k].op \in {"loginExchange", "ActivateConnection"} => FreshOK(next[k].sid)')
    BY DEF Activating
  <2>1. next[k].sid = h.sid
    BY DEF LoginNext
  <2>2. next[k].op \in {"loginExchange", "ActivateConnection"} => FreshOK(h.sid)'
    BY DEF Makes
  <2>3. FreshOK(h.sid)' => FreshOK(next[k].sid)'
    BY <2>1
  <2> QED
    BY <2>1, <2>2, <2>3
<1>11. \A ops : ops \subseteq Activating => (Pending(ops, h.sid)' <=> Makes(next, ops))
  <2> SUFFICES ASSUME NEW ops, ops \subseteq Activating PROVE Pending(ops, h.sid)' <=> Makes(next, ops)
    OBVIOUS
  <2>0. PICK new : new = calls'[Main]
    OBVIOUS
  <2>1. ASSUME NEW i \in 1 .. Len(new), new[i].op \in ops, new[i].sid = h.sid
        PROVE  Makes(next, ops)
    <3>1. i \in 1 .. Len(next)
      <4> SUFFICES ASSUME i \notin 1 .. Len(next) PROVE FALSE
        OBVIOUS
      <4>1. PICK j \in 2 .. Len(calls[t]) : i = j - 1 + Len(next)
        BY <1>1, <1>2, <2>0 DEF Replacing
      <4>2. new[i] = calls[t][j]
        BY <1>1, <1>2, <2>0, <4>1 DEF Replacing
      <4> QED
        BY <1>2, <2>1, <4>2
    <3>2. new[i] = next[i]
      BY <1>1, <1>2, <2>0, <3>1 DEF Replacing
    <3> QED
      BY <2>1, <3>1, <3>2 DEF Makes
  <2>2. ASSUME Makes(next, ops)
        PROVE  \E i \in 1 .. Len(new) : new[i].op \in ops /\ new[i].sid = h.sid
    <3>1. PICK k \in 1 .. Len(next) : next[k].op \in ops
      BY <2>2 DEF Makes
    <3>2. next[k].sid = h.sid
      BY <2>2, <3>1 DEF LoginNext
    <3>3. k \in 1 .. Len(new) /\ new[k] = next[k]
      BY <1>1, <1>2, <2>0 DEF Replacing
    <3> QED
      BY <3>1, <3>2, <3>3
  <2> QED
    BY <2>0, <2>1, <2>2 DEF Pending
<1>12. Up(h.sid)' /\ ~Doomed(h.sid)' => UpOK(h.sid)'
  BY <1>11 DEF UpOK, Activating
<1> QED
  BY <1>1, <1>2, <1>3, <1>5, <1>6, <1>9, <1>10, <1>12, StepMounts

LEMMA LoginExchangeMounts ==
  ASSUME IInv, Safe, IInv', Mounts, NEW t \in Clients, LoginExchange(t)
  PROVE  Mounts'
<1> PICK h : h = Head(calls[t])
  OBVIOUS
<1>1. /\ Running(t, "loginExchange") /\ "loginExchange" \in Exchanges \cap DaemonCalls
      /\ t \in Threads /\ t # Workloop
  BY HBAConstants DEF LoginExchange, Exchanges, DaemonCalls, Threads
<1>2. calls[t] # <<>> /\ h.op = "loginExchange" /\ h.sid \in SessionIds /\ h.cid \in ConnectionIds
  BY <1>1, DaemonCallType DEF IInv, Running
<1>3. UNCHANGED <<sessionList, targets>>
  BY DEF LoginExchange
<1> PICK release, lost : release = Method(Call("ReleaseSession", h.sid, 0)) /\ lost = LostIn(h)
  OBVIOUS
<1>4. Closes(release, h.sid) /\ Mild(lost, h.sid)
  BY <1>2, ClosingCalls
<1>5. Closes(lost \o release, h.sid)
  BY <1>4, ClosesConcat
<1>6. CASE CallNext(t, release) \/ CallNext(t, lost \o release)
  BY <1>1, <1>3, <1>4, <1>5, <1>6, ClosesMounts
<1>7. CASE CallNext(t, Method(Call("ActivateConnection", h.sid, h.cid)))
  <2>0. PICK c, next : c = Call("ActivateConnection", h.sid, h.cid) /\ next = Method(c)
    OBVIOUS
  <2>1. h.op \in Activating
    BY <1>2 DEF Activating
  <2>2. /\ t = Main /\ h.cid = 0 /\ h.sid # None
        /\ Pending({"loginExchange", "ActivateConnection"}, h.sid)
    BY <1>1, <1>2, <2>1, ActivatingHead
  <2>3. FreshOK(h.sid)
    BY <1>2, <2>2 DEF Mounts
  <2>4. next \in Seq(AnyCall)
    BY <1>2, <2>0, MethodCalls DEF LookUpCalls
  <2>5. Len(next) = 3 /\ next[1] = LockAccess /\ next[2] = c /\ next[3] = UnlockAccess
    BY <2>0 DEF Method
  <2>6. c.op = "ActivateConnection" /\ c.sid = h.sid /\ c.cid = 0
    BY <2>0, <2>2 DEF Call
  <2>7. LoginNext(h, next)
    <3> SUFFICES ASSUME NEW k \in 1 .. Len(next)
                 PROVE  /\ next[k].op \notin Lasts
                        /\ next[k].op \notin Activating => next[k].sid = None
                        /\ next[k].op \in Activating => /\ next[k].sid = h.sid /\ next[k].cid = 0
                                                        /\ \A j \in 1 .. Len(next) : j # k => next[j].sid = None
      BY DEF LoginNext
    <3>1. /\ LockAccess.op \notin Activating /\ LockAccess.op \notin Lasts /\ LockAccess.sid = None
          /\ UnlockAccess.op \notin Activating /\ UnlockAccess.op \notin Lasts /\ UnlockAccess.sid = None
      BY DEF LockAccess, UnlockAccess, Activating
    <3>2. \A j \in 1 .. Len(next) : j = 1 \/ j = 2 \/ j = 3
      BY <2>5
    <3>3. \A j \in 1 .. Len(next) : j # 2 => next[j].sid = None
      BY <2>5, <3>1, <3>2
    <3>4. CASE k = 2
      BY <2>5, <2>6, <3>3, <3>4 DEF Activating
    <3>5. CASE k # 2
      <4>1. next[k] = LockAccess \/ next[k] = UnlockAccess
        BY <2>5, <3>2, <3>5
      <4> QED
        BY <3>1, <4>1
    <3> QED
      BY <3>4, <3>5
  <2>8. CallNext(t, next) /\ Effect(h) /\ \A sid : (Up(sid)' <=> Up(sid)) /\ (Exists(sid)' <=> Exists(sid))
    BY <1>3, <1>7, <2>0, EffectSame
  <2>9. FreshOK(h.sid)'
    <3>1. Turn(t, h, next)
      BY <1>1, <1>2, <2>4, <2>8, TurnNext
    <3>2. Exists(h.sid)' /\ Doomed(h.sid) => Doomed(h.sid)'
      <4>1. ~Dooms(h)
        BY <1>2 DEF Dooms
      <4> QED
        BY <1>1, <1>2, <3>1, <4>1, DoomedStays
    <3>3. calls'[Workloop] = calls[Workloop]
      BY <1>1, <3>1 DEF Turn, Threads
    <3>4. ~Up(h.sid)'
      BY <2>3, <2>8 DEF FreshOK
    <3>5. \A i \in 1 .. Len(calls'[Workloop]) : calls'[Workloop][i].sid # h.sid
      BY <2>3, <3>3 DEF FreshOK
    <3>6. Exists(h.sid)' /\ ~Doomed(h.sid)' => sessionList'[h.sid].active = 0
      BY <1>3, <2>3, <2>8, <3>2 DEF FreshOK
    <3> QED
      BY <3>4, <3>5, <3>6 DEF FreshOK
  <2>10. ~Up(h.sid)'
    BY <2>3, <2>8 DEF FreshOK
  <2> QED
    BY <1>1, <1>2, <2>1, <2>4, <2>7, <2>8, <2>9, <2>10, ActivatingMounts
<1> QED
  BY <1>6, <1>7 DEF LoginExchange

\* A list with the next call of a login.
LEMMA LoginOne ==
  ASSUME NEW h, NEW op \in Activating, NEW c \in SessionCall, c.op \in KernelCalls, c.op = op,
         c.sid = h.sid, c.cid = 0
  PROVE  /\ <<c>> \in Seq(AnyCall) /\ LoginNext(h, <<c>>)
         /\ \A ops : Makes(<<c>>, ops) <=> op \in ops
<1> PICK next : next = <<c>>
  OBVIOUS
<1>1. next \in Seq(AnyCall) /\ Len(next) = 1 /\ next[1] = c
  BY KernelCallSequences
<1>2. \A k \in 1 .. Len(next) : k = 1
  BY <1>1
<1>3. LoginNext(h, next)
  BY <1>1, <1>2 DEF LoginNext, Activating
<1>4. 1 \in 1 .. Len(next)
  BY <1>1
<1>5. \A ops : Makes(next, ops) <=> op \in ops
  BY <1>1, <1>2, <1>4 DEF Makes
<1> QED
  BY <1>1, <1>3, <1>5

LEMMA ActivateConnectionMounts ==
  ASSUME IInv, Safe, IInv', Mounts, NEW t \in Threads, ActivateConnection(t)
  PROVE  Mounts'
<1> PICK h : h = Head(calls[t])
  OBVIOUS
<1> PICK c : c = Rest("mount", h)
  OBVIOUS
<1> PICK next : next = <<c>>
  OBVIOUS
<1>1. /\ Running(t, "ActivateConnection") /\ "ActivateConnection" \in KernelCalls
      /\ "mount" \in PointerCalls \cap KernelCalls \cap Activating
  BY DEF ActivateConnection, KernelCalls, LookUpCalls, PointerCalls, HoldsSession, Activating
<1>2. calls[t] # <<>> /\ h.op = "ActivateConnection" /\ h \in SessionCall /\ h.sid \in SessionIds
  BY <1>1, RunningType DEF IInv
<1>3. /\ h.op \in Activating
      /\ h.cid = 0 /\ h.sid # None
      /\ Pending({"loginExchange", "ActivateConnection"}, h.sid)
  <2>1. h.op \in Activating
    BY <1>2 DEF Activating
  <2> QED
    BY <1>2, <2>1, ActivatingHead
<1>4. FreshOK(h.sid)
  BY <1>2, <1>3 DEF Mounts
<1>5. /\ Exists(h.sid) /\ SetConnection(h.sid, 0, "enabled") /\ CallNext(t, next) /\ UNCHANGED targets
  BY <1>3 DEF ActivateConnection, Connected
<1>6. c \in SessionCall /\ c.op = "mount" /\ c.sid = h.sid /\ c.cid = 0
  <2>1. c.sid = h.sid /\ c.cid = 0
    BY <1>3 DEF Rest
  <2> QED
    BY <1>1, <1>2, <1>5, <2>1, RestType DEF IInv
<1>7. next \in Seq(AnyCall) /\ LoginNext(h, next) /\ \A ops : Makes(next, ops) <=> "mount" \in ops
  BY <1>1, <1>6, LoginOne
<1>8. /\ Effect(h)
      /\ \A s \in SessionIds : Exists(s) => Exists(s)' /\ sessionList'[s].active = sessionList[s].active
  BY <1>2, <1>5, EffectSet, Ids
<1>9. Turn(t, h, next)
  BY <1>2, <1>5, <1>7, TurnNext
<1>10. ~Doomed(h.sid)' => sessionList'[h.sid].active = 0
  <2>1. ~Dooms(h)
    BY <1>2 DEF Dooms
  <2>2. Exists(h.sid)' /\ Doomed(h.sid) => Doomed(h.sid)'
    BY <1>2, <1>9, <2>1, DoomedStays
  <2> QED
    BY <1>2, <1>4, <1>5, <1>8, <2>2 DEF FreshOK
<1>11. Makes(next, {"mount"}) /\ Makes(next, {"mount", "increment"}) /\ ~Makes(next, {"loginExchange", "ActivateConnection"})
  BY <1>7
<1> QED
  BY <1>2, <1>3, <1>5, <1>7, <1>8, <1>10, <1>11, ActivatingMounts

LEMMA MountFirstMounts ==
  ASSUME IInv, Safe, IInv', Mounts, NEW t \in Threads, MountFirst(t)
  PROVE  Mounts'
<1> PICK h : h = Head(calls[t])
  OBVIOUS
<1> PICK c : c = Rest("increment", h)
  OBVIOUS
<1> PICK next : next = <<c>>
  OBVIOUS
<1>1. /\ Running(t, "mount") /\ "mount" \in KernelCalls \cap PointerCalls
      /\ "increment" \in PointerCalls \cap KernelCalls \cap Activating
  BY DEF MountFirst, KernelCalls, LookUpCalls, PointerCalls, HoldsSession, Activating
<1>2. calls[t] # <<>> /\ h.op = "mount" /\ h \in SessionCall /\ h.sid \in SessionIds
  BY <1>1, RunningType DEF IInv
<1>3. h.op \in Activating /\ h.cid = 0 /\ h.sid # None /\ \A ops : Pending(ops, h.sid) <=> h.op \in ops
  <2>1. h.op \in Activating
    BY <1>2 DEF Activating
  <2> QED
    BY <1>2, <2>1, ActivatingHead
<1>4. Alive(h.sid, h.gen) /\ Exists(h.sid)
  BY <1>1, HeadLive DEF Alive
<1>5. CASE Alive(h.sid, h.gen) /\ SetConnection(h.sid, h.cid, "idle") /\ Return(t) /\ UNCHANGED targets
  <2>1. Effect(h) /\ ~Up(h.sid)'
    BY <1>2, <1>3, <1>4, <1>5, EffectSet, Ids
  <2>2. ~Dooms(h) /\ h.op \notin Lasts
    BY <1>2 DEF Dooms
  <2> QED
    BY <1>2, <1>5, <2>1, <2>2, ReturnMounts
<1>6. CASE /\ CallNext(t, next) /\ UNCHANGED sessionList
           /\ \/ sessionList[h.sid].active # 0 /\ UNCHANGED targets
              \/ targets' = targets \cup {h.sid}
  <2>1. c \in SessionCall /\ c.op = "increment" /\ c.sid = h.sid /\ c.cid = 0
    <3>1. c.sid = h.sid /\ c.cid = 0
      BY <1>3 DEF Rest
    <3> QED
      BY <1>1, <1>2, <1>4, <3>1, RestType DEF IInv
  <2>2. next \in Seq(AnyCall) /\ LoginNext(h, next) /\ \A ops : Makes(next, ops) <=> "increment" \in ops
    BY <1>1, <2>1, LoginOne
  <2>3. Effect(h) /\ (Up(h.sid)' <=> Up(h.sid)) /\ (Exists(h.sid)' <=> Exists(h.sid))
    <3>1. \A sid \in SessionIds : sid \in targets => sid \in targets'
      BY <1>6
    <3> QED
      BY <1>6, <3>1, EffectSame
  <2>4. Turn(t, h, next)
    BY <1>2, <1>6, <2>2, TurnNext
  <2>5. Doomed(h.sid) => Doomed(h.sid)'
    <3>1. ~Dooms(h)
      BY <1>2 DEF Dooms
    <3> QED
      BY <1>2, <1>4, <2>3, <2>4, <3>1, DoomedStays
  <2>6. Up(h.sid)' /\ ~Doomed(h.sid)' => h.sid \in targets' /\ sessionList'[h.sid].active = 0
    <3> SUFFICES ASSUME Up(h.sid)', ~Doomed(h.sid)' PROVE h.sid \in targets' /\ sessionList'[h.sid].active = 0
      OBVIOUS
    <3>1. UpOK(h.sid)
      BY <1>2, <2>3, <2>5 DEF Mounts
    <3>2. Pending({"mount", "increment"}, h.sid)
      BY <1>2, <1>3
    <3>3. sessionList[h.sid].active = 0
      BY <3>1, <3>2 DEF UpOK
    <3> QED
      BY <1>6, <3>3
  <2>7. Makes(next, {"mount", "increment"}) /\ ~Makes(next, {"loginExchange", "ActivateConnection"})
    BY <2>2
  <2> QED
    BY <1>2, <1>3, <1>6, <2>2, <2>3, <2>6, <2>7, ActivatingMounts
<1> QED
  BY <1>4, <1>5, <1>6 DEF MountFirst

LEMMA CountActiveMounts ==
  ASSUME IInv, Safe, IInv', Mounts, NEW t \in Threads, CountActive(t), CountModulus > 1
  PROVE  Mounts'
<1> PICK h : h = Head(calls[t])
  OBVIOUS
<1> PICK next : next = <<>>
  OBVIOUS
<1>1. /\ Running(t, "increment") /\ "increment" \in KernelCalls \cap PointerCalls
      /\ AddToActive(h.sid, h.gen, 1) /\ CallNext(t, next) /\ UNCHANGED targets
  BY CallNames DEF CountActive, Return
<1>2. calls[t] # <<>> /\ h.op = "increment" /\ h.sid \in SessionIds
  BY <1>1, RunningType DEF IInv
<1>3. h.op \in Activating /\ \A ops : Pending(ops, h.sid) <=> h.op \in ops
  <2>1. h.op \in Activating
    BY <1>2 DEF Activating
  <2> QED
    BY <1>2, <2>1, ActivatingHead
<1>4. Alive(h.sid, h.gen) /\ Exists(h.sid)
  BY <1>1, HeadLive DEF Alive
<1>5. Effect(h) /\ (Exists(h.sid)' <=> Exists(h.sid)) /\ (Up(h.sid)' <=> Up(h.sid))
  BY <1>1, <1>2, EffectCount
<1>6. sessionList'[h.sid].active = (sessionList[h.sid].active + 1) % CountModulus
  BY <1>1, <1>2, <1>4, AddToActiveIs
<1>7. next \in Seq(AnyCall) /\ \A k \in 1 .. Len(next) : FALSE
  BY KernelCallSequences
<1>8. LoginNext(h, next) /\ \A ops : ~Makes(next, ops)
  BY <1>7 DEF LoginNext, Makes
<1>9. Doomed(h.sid) => Doomed(h.sid)'
  <2>1. ~Dooms(h)
    BY <1>2 DEF Dooms
  <2>2. Turn(t, h, next)
    BY <1>1, <1>2, <1>7, TurnNext
  <2> QED
    BY <1>2, <1>4, <1>5, <2>1, <2>2, DoomedStays
<1>10. Up(h.sid)' /\ ~Doomed(h.sid)' => h.sid \in targets' /\ sessionList'[h.sid].active = 1
  <2> SUFFICES ASSUME Up(h.sid)', ~Doomed(h.sid)' PROVE h.sid \in targets' /\ sessionList'[h.sid].active = 1
    OBVIOUS
  <2>1. UpOK(h.sid)
    BY <1>2, <1>5, <1>9 DEF Mounts
  <2>2. Pending({"mount", "increment"}, h.sid) /\ ~Pending({"mount"}, h.sid)
    BY <1>2, <1>3
  <2>3. sessionList[h.sid].active = 0 /\ h.sid \in targets
    BY <2>1, <2>2 DEF UpOK
  <2>4. (0 + 1) % CountModulus = 1
    BY HBAConstants
  <2> QED
    BY <1>1, <1>6, <2>3, <2>4
<1> QED
  BY <1>1, <1>2, <1>3, <1>5, <1>7, <1>8, <1>10, ActivatingMounts

\* A login, or the look-up of a portal, is the last thing that the run loop has to do.
LEMMA LoginMounts ==
  ASSUME IInv, Safe, IInv', Mounts, NEW t \in Clients, NEW op \in Lasts, Running(t, op), NEW h, h = Head(calls[t]),
         NEW next \in Seq(AnyCall), CallNext(t, next), Effect(h), Course(t, next),
         \A k \in 1 .. Len(next) :
            /\ ~Lowers(next[k]) /\ next[k].op \notin {"mount", "increment"}
            /\ next[k].op \in {"loginExchange", "ActivateConnection"} => FreshOK(next[k].sid)'
  PROVE  Mounts'
<1>1. calls[t] # <<>> /\ h.op \in Lasts /\ t \in Threads /\ t # Workloop
  BY HBAConstants DEF Running, Threads
<1>2. /\ Turn(t, h, next) /\ Replacing(calls[t], next, calls'[t])
      /\ 1 \in 1 .. Len(calls[t]) /\ calls[t][1] = h
  BY <1>1, TurnNext
<1>3. h \in AnyCall
  BY <1>1, HeadType DEF IInv
<1>4. ~Dooms(h) /\ ~Stops(h, h.sid) /\ h.op \notin Activating
  BY <1>1 DEF Dooms, Stops, Activating
<1>5. Course(t, calls'[t])
  <2>1. Course(t, calls[t])
    BY DEF Mounts, Courses
  <2>2. 1 = Len(calls[t])
    BY <1>1, <1>2, <2>1 DEF Course
  <2>3. \A j \in 2 .. 1 : FALSE
    OBVIOUS
  <2>4. \A j \in 2 .. Len(calls[t]) : FALSE
    BY <2>2, <2>3, Zenon
  <2>5. ~(1 > 1)
    OBVIOUS
  <2>6. ~(Len(calls[t]) > 1)
    BY <2>2, <2>5, Zenon
  <2> QED
    BY <1>2, <2>4, <2>6, CourseLast
<1>6. \A sid \in SessionIds : Up(sid)' => Up(sid) \/ (t \in Clients /\ h.op = "ActivateConnection" /\ h.sid = sid)
  BY DEF Effect, Up
<1>7. Covered(calls[t])'
  BY <1>1, <1>4, <1>5, <1>6, CoveredNext
<1> QED
  BY <1>1, <1>2, <1>3, <1>4, <1>5, <1>7, StepMounts

\* A call of the run loop that no other has to follow.
LEMMA CourseOne ==
  ASSUME NEW c, c.cid = 0 \/ c.op \notin Activating, c.op \notin Lasts, c.op \in Spares
  PROVE  Course(Main, <<c>>)
<1> PICK s : s = <<c>>
  OBVIOUS
<1>1. Len(s) = 1 /\ s[1] = c
  OBVIOUS
<1>2. \A i \in 1 .. Len(s) : i = 1
  BY <1>1
<1>3. Course(Main, s)
  BY <1>1, <1>2 DEF Course, MustEnd
<1> QED
  BY <1>3

LEMMA CourseMethod ==
  ASSUME NEW c, c.op \notin Activating \cup Lasts, c.op \in Spares
  PROVE  Course(Main, Method(c))
<1>0. PICK s : s = Method(c)
  OBVIOUS
<1>1. Len(s) = 3 /\ s[1] = LockAccess /\ s[2] = c /\ s[3] = UnlockAccess
  BY <1>0 DEF Method
<1>2. \A i \in 1 .. Len(s) : s[i] \in {LockAccess, c, UnlockAccess}
  BY <1>1
<1>3. \A d \in {LockAccess, c, UnlockAccess} : ~MustEnd(Main, d) /\ d.op \notin Activating \cup Lasts
  BY DEF LockAccess, UnlockAccess, MustEnd, Activating
<1>4. Course(Main, s)
  BY <1>2, <1>3 DEF Course
<1> QED
  BY <1>0, <1>4

LEMMA SessionLoginMounts ==
  ASSUME IInv, Safe, IInv', Mounts, NEW t \in Clients, SessionLogin(t)
  PROVE  Mounts'
<1> PICK h : h = Head(calls[t])
  OBVIOUS
<1>1. Running(t, "login") /\ "login" \in DaemonCalls /\ t \in Threads
  BY DEF SessionLogin, DaemonCalls, Threads
<1>2. calls[t] # <<>> /\ h.op = "login" /\ h.iqn \in IQNs
  BY <1>1, DaemonCallType DEF IInv, Running
<1>3. t = Main
  <2>1. calls[t][1] = h /\ 1 \in 1 .. Len(calls[t])
    BY <1>1, <1>2, HeadType, StackType, EmptySeq DEF IInv
  <2> QED
    BY <1>2, <2>1 DEF Mounts, Courses, Course
<1>4. CASE CreateSession(h.iqn) /\ CallNext(t, <<Call("loginExchange", NewSid, 0)>>)
  <2>0. PICK sid : sid = NewSid
    OBVIOUS
  <2> PICK c : c = Call("loginExchange", sid, 0)
    OBVIOUS
  <2> PICK next : next = <<c>>
    OBVIOUS
  <2>1. /\ Effect(h) /\ sid \in SessionIds /\ ~Exists(sid) /\ ~Up(sid)' /\ sessionList'[sid].active = 0
    BY <1>2, <1>4, <2>0, EffectCreate
  <2>2. c.op = "loginExchange" /\ c.sid = sid /\ c.cid = 0
    BY DEF Call
  <2>3. next \in Seq(AnyCall)
    BY <2>1, Ids, ExchangeCalls DEF Exchanges
  <2>4. CallNext(t, next)
    BY <1>4, <2>0
  <2>5. Course(t, next)
    <3>1. c.op \in Spares /\ c.op \notin Lasts
      BY <2>2 DEF Spares, Activating
    <3> QED
      BY <1>3, <2>2, <3>1, CourseOne
  <2>6. FreshOK(sid)'
    <3>1. calls'[Workloop] = calls[Workloop]
      <4>1. t # Workloop /\ Workloop \in Threads
        BY HBAConstants DEF Threads
      <4> QED
        BY <1>1, <1>2, <2>3, <2>4, <4>1, TurnNext DEF Turn
    <3>2. \A i \in 1 .. Len(calls[Workloop]) : calls[Workloop][i].sid # sid
      <4> SUFFICES ASSUME NEW i \in 1 .. Len(calls[Workloop]), calls[Workloop][i].sid = sid PROVE FALSE
        OBVIOUS
      <4>1. calls[Workloop] # <<>>
        BY EmptySeq
      <4>2. Exists(sid)
        BY <4>1 DEF Safe, HandlerSafe
      <4> QED
        BY <2>1, <4>2
    <3>3. \A i \in 1 .. Len(calls'[Workloop]) : calls'[Workloop][i].sid # sid
      BY <3>1, <3>2
    <3> QED
      BY <2>1, <3>3 DEF FreshOK
  <2>7. \A k \in 1 .. Len(next) : next[k] = c
    OBVIOUS
  <2>8. ~Lowers(c) /\ c.op \notin {"mount", "increment"} /\ FreshOK(c.sid)'
    <3>1. FreshOK(c.sid)'
      BY <2>2, <2>6
    <3> QED
      BY <2>2, <3>1 DEF Lowers
  <2>9. \A k \in 1 .. Len(next) :
           /\ ~Lowers(next[k]) /\ next[k].op \notin {"mount", "increment"}
           /\ next[k].op \in {"loginExchange", "ActivateConnection"} => FreshOK(next[k].sid)'
    <3> SUFFICES ASSUME NEW k \in 1 .. Len(next)
                 PROVE  /\ ~Lowers(next[k]) /\ next[k].op \notin {"mount", "increment"}
                        /\ next[k].op \in {"loginExchange", "ActivateConnection"} => FreshOK(next[k].sid)'
      OBVIOUS
    <3>1. next[k] = c
      BY <2>7
    <3>2. FreshOK(c.sid)' => FreshOK(next[k].sid)'
      BY <3>1
    <3> QED
      BY <2>8, <3>1, <3>2
  <2> QED
    BY <1>1, <2>1, <2>3, <2>4, <2>5, <2>9, LoginMounts
<1>5. CASE CreateSessionFails(h.iqn) /\ Return(t)
  <2> PICK next : next = <<>>
    OBVIOUS
  <2>1. CallNext(t, next) /\ next \in Seq(AnyCall) /\ \A k \in 1 .. Len(next) : FALSE
    BY <1>5, KernelCallSequences DEF Return
  <2>2. Course(t, next)
    BY <2>1 DEF Course
  <2>3. Effect(h)
    BY <1>5, EffectSame DEF CreateSessionFails
  <2> QED
    BY <1>1, <2>1, <2>2, <2>3, LoginMounts
<1> QED
  BY <1>4, <1>5 DEF SessionLogin

LEMMA SessionAddConnectionMounts ==
  ASSUME IInv, Safe, IInv', Mounts, NEW t \in Clients, SessionAddConnection(t)
  PROVE  Mounts'
<1> PICK h : h = Head(calls[t])
  OBVIOUS
<1>1. Running(t, "login") /\ "login" \in DaemonCalls /\ t \in Threads
  BY DEF SessionAddConnection, DaemonCalls, Threads
<1>2. calls[t] # <<>> /\ h.op = "login" /\ h.iqn \in IQNs
  BY <1>1, DaemonCallType DEF IInv, Running
<1>3. t = Main
  <2>1. calls[t][1] = h /\ 1 \in 1 .. Len(calls[t])
    BY <1>1, <1>2, HeadType, StackType, EmptySeq DEF IInv
  <2> QED
    BY <1>2, <2>1 DEF Mounts, Courses, Course
<1>4. CASE Return(t) /\ UNCHANGED <<sessionList, targets>>
  <2> PICK next : next = <<>>
    OBVIOUS
  <2>1. CallNext(t, next) /\ next \in Seq(AnyCall) /\ \A k \in 1 .. Len(next) : FALSE
    BY <1>4, KernelCallSequences DEF Return
  <2>2. Course(t, next)
    BY <2>1 DEF Course
  <2>3. Effect(h)
    BY <1>4, EffectSame
  <2> QED
    BY <1>1, <2>1, <2>2, <2>3, LoginMounts
<1>5. ASSUME NEW sid, sid = targetList[h.iqn], sid # None, CreateConnection(sid),
             CallNext(t, Method(Call("ReleaseConnectionMethod", sid, NewCid(sid))))
      PROVE  Mounts'
  <2>0. PICK cid : cid = NewCid(sid)
    OBVIOUS
  <2>1. sid \in SessionIds /\ cid \in ConnectionIds
    <3>1. sid \in SessionIds
      BY <1>2, <1>5 DEF IInv, TypeOK
    <3> QED
      BY <1>5, <2>0, <3>1, FreeConnectionIsId DEF CreateConnection, NewCid
  <2>2. PICK c : c = Call("ReleaseConnectionMethod", sid, cid)
    OBVIOUS
  <2>3. PICK next : next = Method(c)
    OBVIOUS
  <2>4. next \in Seq(AnyCall)
    BY <2>1, <2>2, <2>3, MethodCalls DEF LookUpCalls
  <2>5. CallNext(t, next)
    BY <1>5, <2>0, <2>2, <2>3
  <2>6. c.op = "ReleaseConnectionMethod" /\ c.op \in Spares /\ c.op \notin Activating \cup Lasts
    BY <2>2 DEF Call, Spares, Activating
  <2>7. Course(t, next)
    BY <1>3, <2>3, <2>6, CourseMethod
  <2>8. \A k \in 1 .. Len(next) :
           /\ ~Lowers(next[k]) /\ next[k].op \notin {"mount", "increment"}
           /\ next[k].op \notin {"loginExchange", "ActivateConnection"}
    <3>1. Len(next) = 3 /\ next[1] = LockAccess /\ next[2] = c /\ next[3] = UnlockAccess
      BY <2>3 DEF Method
    <3>2. \A k \in 1 .. Len(next) : next[k] \in {LockAccess, c, UnlockAccess}
      BY <3>1
    <3>3. \A d \in {LockAccess, c, UnlockAccess} :
             d.op \in {"IOLockLock", "ReleaseConnectionMethod", "IOLockUnlock"}
      BY <2>6 DEF LockAccess, UnlockAccess
    <3> QED
      BY <3>2, <3>3 DEF Lowers
  <2>9. Effect(h)
    <3>1. SetConnection(sid, cid, "idle") /\ Exists(sid) /\ UNCHANGED targets
      BY <1>5, <2>0 DEF CreateConnection, NewCid
    <3> QED
      BY <2>1, <3>1, EffectSet
  <2> QED
    BY <1>1, <2>4, <2>5, <2>7, <2>8, <2>9, LoginMounts
<1>6. \/ Return(t) /\ UNCHANGED <<sessionList, targets>>
      \/ \E sid : /\ sid = targetList[h.iqn] /\ sid # None /\ CreateConnection(sid)
                  /\ CallNext(t, Method(Call("ReleaseConnectionMethod", sid, NewCid(sid))))
  BY DEF SessionAddConnection
<1> QED
  BY <1>4, <1>5, <1>6

-----------------------------------------------------------------------------
(* What the threads start, and every step.                                 *)

LEMMA MountsSame ==
  ASSUME Mounts, UNCHANGED <<sessionList, targets, calls>>
  PROVE  Mounts'
BY DEF Mounts, Courses, Course, FirstOnly, Up, Exists, Enabled, Covered, Doomed, Pending, FreshOK, UpOK

LEMMA BeginMounts ==
  ASSUME IInv, Safe, IInv', Mounts, NEW t \in Threads, calls[t] = <<>>, NEW todo \in Seq(AnyCall),
         calls' = [calls EXCEPT ![t] = todo], NEW h, h = LockAccess, Effect(h),
         t \in Clients => Course(t, todo),
         \A k \in 1 .. Len(todo) :
            /\ Lowers(todo[k]) => t \in Clients /\ MustEnd(t, todo[k])
            /\ todo[k].op \notin Activating \ {"loginExchange"}
            /\ todo[k].op = "loginExchange" => FreshOK(todo[k].sid)'
            /\ t = Workloop => todo[k].sid = None \/ Up(todo[k].sid)
  PROVE  Mounts'
<1>1. Turn(t, h, todo) /\ calls'[t] = todo
  BY TurnBegin
<1>2. h \in AnyCall /\ h.sid = None /\ ~Dooms(h) /\ h.op \notin Activating
  BY DEF LockAccess, AnyCall, OtherCall, Dooms, Activating
<1>3. t \in Clients => Course(t, calls'[t])
  BY <1>1
<1>4. Covered(calls[t])'
  <2>1. ASSUME NEW i \in 1 .. Len(todo), Lowers(todo[i])
        PROVE  Doomed(todo[i].sid)'
    <3>1. t \in Clients /\ MustEnd(t, todo[i])
      BY <2>1
    <3>2. PICK j \in i .. Len(todo) : Dooms(todo[j]) /\ todo[j].sid = todo[i].sid
      BY <2>1, <3>1 DEF Course
    <3>3. j \in 1 .. Len(todo)
      BY LenProperties
    <3> PICK sid : sid = todo[i].sid
      OBVIOUS
    <3>4. Doomed(sid)'
      BY <1>1, <3>1, <3>2, <3>3 DEF Doomed, Dooms
    <3>5. Doomed(sid)' => Doomed(todo[i].sid)'
      BY DEF Doomed
    <3> QED
      BY <3>4, <3>5
  <2>2. calls'[t] = todo
    BY <1>1
  <2>3. (\A i \in 1 .. Len(calls[t]) : Lowers(calls[t][i]) => Doomed(calls[t][i].sid))'
    BY <2>1, <2>2 DEF Lowers, Doomed
  <2> QED
    BY <2>3 DEF Covered
<1>5. \A k \in 1 .. Len(todo) :
         /\ todo[k].op \in {"loginExchange", "ActivateConnection"} => FreshOK(todo[k].sid)'
         /\ todo[k].op \in {"mount", "increment"} => h.op \in Activating /\ todo[k].sid = h.sid
         /\ t = Workloop => todo[k].sid \in {h.sid, None} \/ Up(todo[k].sid)
  BY DEF Activating
<1> QED
  BY <1>1, <1>2, <1>3, <1>4, <1>5, StepMounts

\* Lists of the run loop that no other call has to follow.
LEMMA CourseSpares ==
  ASSUME NEW s, \A i \in 1 .. Len(s) : /\ s[i].op \notin Activating /\ ~MustEnd(Main, s[i])
                                       /\ s[i].op \in Lasts => i = Len(s)
  PROVE  Course(Main, s)
BY DEF Course

SpareCalls(todo) ==
    /\ todo \in Seq(AnyCall)
    /\ \A i \in 1 .. Len(todo) :
          /\ todo[i].op \in {"IOLockLock", "IOLockUnlock", "ReleaseConnectionMethod", "crash"} \cup Lasts
          /\ todo[i].op \in Lasts => i = Len(todo)

LEMMA SparesCourse ==
  ASSUME NEW todo, SpareCalls(todo)
  PROVE  /\ Course(Main, todo)
         /\ \A i \in 1 .. Len(todo) : /\ todo[i].op \notin Activating /\ ~Lowers(todo[i])
                                       /\ ~MustEnd(Main, todo[i])
<1>1. \A i \in 1 .. Len(todo) : todo[i] \in AnyCall
  BY DEF SpareCalls
<1>2. \A i \in 1 .. Len(todo) : /\ todo[i].op \notin Activating /\ ~Lowers(todo[i])
                                /\ ~MustEnd(Main, todo[i])
  <2> SUFFICES ASSUME NEW i \in 1 .. Len(todo)
               PROVE  todo[i].op \notin Activating /\ ~Lowers(todo[i]) /\ ~MustEnd(Main, todo[i])
    OBVIOUS
  <2>1. todo[i].op \notin Activating /\ ~Lowers(todo[i])
    BY DEF SpareCalls, Activating, Lowers
  <2>2. todo[i].sid # None => todo[i].op \in {"ReleaseConnectionMethod", "copyPortal"}
    <3>1. {"IOLockLock", "IOLockUnlock", "login", "crash"} \cap (KernelCalls \cup Exchanges \cup {"copyPortal"}) = {}
      BY DEF KernelCalls, LookUpCalls, PointerCalls, HoldsSession, Exchanges
    <3>2. todo[i].sid # None => todo[i].op \in KernelCalls \cup Exchanges \cup {"copyPortal"}
      BY <1>1, CallSids
    <3> QED
      BY <3>1, <3>2 DEF SpareCalls
  <2> QED
    BY <2>1, <2>2 DEF MustEnd, Spares
<1>3. Course(Main, todo)
  BY <1>2, CourseSpares DEF SpareCalls
<1> QED
  BY <1>2, <1>3

LEMMA SparesMounts ==
  ASSUME IInv, Safe, IInv', Mounts, Idle(Main), NEW todo, SpareCalls(todo), Begin(Main, todo),
         UNCHANGED <<sessionList, targets>>
  PROVE  Mounts'
<1> PICK h : h = LockAccess
  OBVIOUS
<1>1. Main \in Threads /\ Main # Workloop
  BY SessionManagerConstants, HBAConstants DEF Threads
<1>2. todo \in Seq(AnyCall)
  BY DEF SpareCalls
<1>3. Course(Main, todo)
  BY SparesCourse
<1>4. \A i \in 1 .. Len(todo) : todo[i].op \notin Activating /\ ~Lowers(todo[i])
  BY SparesCourse
<1>5. Effect(h)
  BY EffectSame
<1>6. \A k \in 1 .. Len(todo) :
         /\ todo[k].op \notin Activating \ {"loginExchange"} /\ todo[k].op # "loginExchange"
  BY <1>4 DEF Activating
<1> QED
  BY <1>1, <1>2, <1>3, <1>4, <1>5, <1>6, BeginMounts DEF Idle, Begin

\* What follows a notification is such a list.
LEMMA SpareOne ==
  ASSUME NEW c \in AnyCall, c.op \in {"crash"} \cup Lasts
  PROVE  SpareCalls(<<c>>)
<1> PICK s : s = <<c>>
  OBVIOUS
<1>1. s \in Seq(AnyCall) /\ Len(s) = 1 /\ s[1] = c
  OBVIOUS
<1>2. \A i \in 1 .. Len(s) : i = Len(s) /\ s[i] = c
  BY <1>1
<1>3. SpareCalls(s)
  BY <1>1, <1>2 DEF SpareCalls
<1> QED
  BY <1>3

LEMMA SpareLost ==
  ASSUME NEW sid \in SessionIds, NEW cid \in ConnectionIds, NEW next, SpareCalls(next), Len(next) \in {0, 1}
  PROVE  SpareCalls(ReleaseLost(sid, cid) \o next)
<1> PICK c : c = Call("ReleaseConnectionMethod", sid, cid)
  OBVIOUS
<1> PICK release : release = ReleaseLost(sid, cid)
  OBVIOUS
<1> PICK todo : todo = release \o next
  OBVIOUS
<1>1. release \in Seq(AnyCall) /\ next \in Seq(AnyCall)
  BY ReleaseLostOutside DEF SpareCalls
<1>2. /\ Len(release) = 3
      /\ \A i \in 1 .. 3 : release[i].op \in {"IOLockLock", "IOLockUnlock", "ReleaseConnectionMethod"}
  <2>1. Len(release) = 3 /\ release[1] = LockAccess /\ release[2] = c /\ release[3] = UnlockAccess
    BY DEF Method, ReleaseLost
  <2>2. \A d \in {LockAccess, c, UnlockAccess} :
           d.op \in {"IOLockLock", "IOLockUnlock", "ReleaseConnectionMethod"}
    BY DEF LockAccess, UnlockAccess, Call
  <2>3. \A i \in 1 .. 3 : release[i] \in {LockAccess, c, UnlockAccess}
    BY <2>1
  <2> QED
    BY <2>1, <2>2, <2>3
<1>3. Joins(todo, release, next)
  BY <1>1, Concat
<1>4. /\ todo \in Seq(AnyCall) /\ Len(todo) = 3 + Len(next)
      /\ \A i \in 1 .. 3 : todo[i] = release[i]
      /\ \A i \in 4 .. Len(todo) : todo[i] = next[i - 3]
  <2>1. 1 .. 3 \subseteq 1 .. Len(todo) /\ 4 .. Len(todo) \subseteq 1 .. Len(todo)
    BY <1>2, <1>3 DEF Joins
  <2> QED
    BY <1>2, <1>3, <2>1 DEF Joins
<1>5. \A i \in 1 .. Len(todo) : i \in 1 .. 3 \/ (i = 4 /\ i = Len(todo) /\ i - 3 \in 1 .. Len(next))
  BY <1>4
<1>6. SpareCalls(todo)
  <2> SUFFICES ASSUME NEW i \in 1 .. Len(todo)
               PROVE  /\ todo[i].op \in {"IOLockLock", "IOLockUnlock", "ReleaseConnectionMethod", "crash"} \cup Lasts
                      /\ todo[i].op \in Lasts => i = Len(todo)
    BY <1>4 DEF SpareCalls
  <2>1. CASE i \in 1 .. 3
    BY <1>2, <1>4, <2>1
  <2>2. CASE i = 4 /\ i = Len(todo) /\ i - 3 \in 1 .. Len(next)
    <3>1. todo[i] = next[i - 3]
      BY <1>4, <2>2
    <3> QED
      BY <2>2, <3>1 DEF SpareCalls
  <2> QED
    BY <1>5, <2>1, <2>2
<1> QED
  BY <1>6

LEMMA SpareNotification ==
  ASSUME NEW sid \in SessionIds, NEW cid \in ConnectionIds
  PROVE  /\ SpareCalls(<<>>) /\ SpareCalls(ReleaseLost(sid, cid) \o <<>>)
         /\ SpareCalls(ReleaseLost(sid, cid) \o <<Crash>>)
         /\ \A iqn \in IQNs : /\ SpareCalls(<<PortalCall(iqn, sid, cid)>>)
                              /\ SpareCalls(ReleaseLost(sid, cid) \o <<LoginCall(iqn)>>)
<1>1. SpareCalls(<<>>) /\ Len(<<>>) \in {0, 1}
  BY DEF SpareCalls
<1>2. SpareCalls(<<Crash>>) /\ Len(<<Crash>>) \in {0, 1}
  <2>1. Crash \in AnyCall /\ Crash.op = "crash"
    BY DEF Crash, AnyCall, OtherCall
  <2> QED
    BY <2>1, SpareOne
<1>3. ASSUME NEW iqn \in IQNs
      PROVE  /\ SpareCalls(<<PortalCall(iqn, sid, cid)>>)
             /\ SpareCalls(<<LoginCall(iqn)>>) /\ Len(<<LoginCall(iqn)>>) \in {0, 1}
  <2>1. PortalCall(iqn, sid, cid) \in AnyCall /\ PortalCall(iqn, sid, cid).op \in Lasts
    BY DEF PortalCall, AnyCall, PortalRequest
  <2>2. LoginCall(iqn) \in AnyCall /\ LoginCall(iqn).op \in Lasts
    BY DEF LoginCall, AnyCall, LoginRequest
  <2> QED
    BY <2>1, <2>2, SpareOne
<1> QED
  BY <1>1, <1>2, <1>3, SpareLost

\* A list that ends with the release of its session.
LEMMA ClosesBegin ==
  ASSUME IInv, Safe, IInv', Mounts, NEW t \in Clients, Idle(t), NEW sid \in SessionIds, NEW todo, Closes(todo, sid),
         Begin(t, todo), NEW h, h = LockAccess, Effect(h)
  PROVE  Mounts'
<1>1. t \in Threads /\ t # Workloop
  BY HBAConstants DEF Threads
<1>2. todo \in Seq(AnyCall) /\ Mild(todo, sid)
  BY DEF Closes, Mild
<1>3. Course(t, todo)
  BY ClosingNext
<1>4. \A i \in 1 .. Len(todo) : /\ todo[i].op \notin Activating
                                /\ Lowers(todo[i]) => MustEnd(t, todo[i])
  <2> SUFFICES ASSUME NEW i \in 1 .. Len(todo)
               PROVE  todo[i].op \notin Activating /\ (Lowers(todo[i]) => MustEnd(t, todo[i]))
    OBVIOUS
  <2>1. todo[i] \in AnyCall /\ todo[i].op \in Closing
    BY <1>2 DEF Mild
  <2>2. Lowers(todo[i]) => todo[i].sid # None /\ todo[i].op = "HandleConnectionTimeout"
    BY <2>1, CallSids DEF Lowers, Closing
  <2>3. "HandleConnectionTimeout" \notin Spares /\ Closing \cap Activating = {}
    BY DEF Spares, Activating, Closing
  <2> QED
    BY <2>1, <2>2, <2>3 DEF MustEnd
<1>5. \A k \in 1 .. Len(todo) :
         /\ todo[k].op \notin Activating \ {"loginExchange"} /\ todo[k].op # "loginExchange"
  BY <1>4 DEF Activating
<1> QED
  BY <1>1, <1>2, <1>3, <1>4, <1>5, BeginMounts DEF Idle, Begin

LEMMA StartsMounts ==
  ASSUME IInv, Safe, IInv', Mounts, NEW iqn \in IQNs, Login(iqn) \/ Logout(iqn) \/ QueryTarget(iqn)
  PROVE  Mounts'
<1>0. PICK h : h = LockAccess
  OBVIOUS
<1>1. Main \in Clients /\ Idle(Main)
  BY SessionManagerConstants DEF Login, Logout, QueryTarget
<1>2. CASE Login(iqn)
  <2> PICK c : c = LoginCall(iqn)
    OBVIOUS
  <2> PICK todo : todo = <<c>>
    OBVIOUS
  <2>1. c \in AnyCall /\ c.op = "login"
    BY DEF LoginCall, AnyCall, LoginRequest
  <2>2. todo \in Seq(AnyCall) /\ Len(todo) = 1 /\ todo[1] = c
    BY <2>1
  <2>3. \A i \in 1 .. Len(todo) : i = Len(todo) /\ todo[i] = c
    BY <2>2
  <2>4. Begin(Main, todo) /\ UNCHANGED <<sessionList, targets>>
    BY <1>2 DEF Login
  <2>5. SpareCalls(todo)
    BY <2>1, <2>2, <2>3 DEF SpareCalls
  <2> QED
    BY <1>1, <2>2, <2>4, <2>5, SparesMounts
<1>3. CASE Logout(iqn)
  <2> PICK sid : sid = targetList[iqn]
    OBVIOUS
  <2> PICK todo : todo = LogoutCalls(sid)
    OBVIOUS
  <2>1. sid \in SessionIds /\ Begin(Main, todo) /\ UNCHANGED <<sessionList, targets>>
    BY <1>3 DEF Logout, IInv, TypeOK
  <2>2. Closes(todo, sid)
    BY <2>1, Ids, ClosingCalls
  <2>3. Effect(h)
    BY <2>1, EffectSame
  <2> QED
    BY <1>0, <1>1, <2>1, <2>2, <2>3, ClosesBegin
<1>4. CASE QueryTarget(iqn) /\ UNCHANGED <<sessionList, targets, calls>>
  BY <1>4, MountsSame
<1>5. CASE QueryTarget(iqn) /\ CreateSession(iqn)
           /\ Begin(Main, <<Call("exchange", NewSid, 0)>> \o Method(Call("ReleaseSession", NewSid, 0)))
  <2>0. PICK sid : sid = NewSid
    OBVIOUS
  <2>1. Effect(h) /\ sid \in SessionIds
    BY <1>5, <2>0, EffectCreate
  <2>2. PICK a, b : a = <<Call("exchange", sid, 0)>> /\ b = Method(Call("ReleaseSession", sid, 0))
    OBVIOUS
  <2>3. Mild(a, sid) /\ Closes(b, sid)
    BY <2>1, <2>2, Ids, ClosingCalls
  <2>4. PICK todo : todo = a \o b
    OBVIOUS
  <2>5. Closes(todo, sid) /\ Begin(Main, todo)
    BY <1>5, <2>0, <2>2, <2>3, <2>4, ClosesConcat
  <2> QED
    BY <1>0, <1>1, <2>1, <2>5, ClosesBegin
<1> QED
  BY <1>2, <1>3, <1>4, <1>5 DEF QueryTarget, CreateSessionFails

LEMMA DiscoverMounts ==
  ASSUME IInv, Safe, IInv', Mounts, Discover
  PROVE  Mounts'
<1>1. Discovery \in Clients /\ Discovery \in Threads /\ Discovery # Workloop /\ DiscoveryIQN \in IQNs
  BY SessionManagerConstants, HBAConstants DEF Threads
<1>2. CASE CreateSession(DiscoveryIQN) /\ Begin(Discovery, <<Call("discoveryLogin", NewSid, 0)>>)
  <2>0. PICK h, sid : h = LockAccess /\ sid = NewSid
    OBVIOUS
  <2>1. Effect(h) /\ sid \in SessionIds
    BY <1>1, <1>2, <2>0, EffectCreate
  <2>2. PICK c : c = Call("discoveryLogin", sid, 0)
    OBVIOUS
  <2>3. PICK todo : todo = <<c>>
    OBVIOUS
  <2>4. c \in AnyCall /\ c.op = "discoveryLogin" /\ c.sid = sid
    BY <2>1, <2>2, Ids, CallType DEF Call, AnyCall, Exchanges
  <2>5. todo \in Seq(AnyCall) /\ Len(todo) = 1 /\ todo[1] = c
    BY <2>3, <2>4
  <2>6. \A i \in 1 .. Len(todo) : i = 1 /\ todo[i] = c
    BY <2>5
  <2>7. ~Lowers(c) /\ Dooms(c) /\ c.op \notin Activating \cup Lasts
    BY <2>4 DEF Lowers, Dooms, Activating
  <2>8. Course(Discovery, todo)
    BY <2>5, <2>6, <2>7 DEF Course
  <2>9. \A k \in 1 .. Len(todo) :
           /\ Lowers(todo[k]) => Discovery \in Clients /\ MustEnd(Discovery, todo[k])
           /\ todo[k].op \notin Activating \ {"loginExchange"}
           /\ todo[k].op # "loginExchange"
    BY <2>6, <2>7 DEF Activating
  <2>10. calls' = [calls EXCEPT ![Discovery] = todo] /\ calls[Discovery] = <<>>
    BY <1>2, <2>0, <2>2, <2>3 DEF Begin, Discover, Idle
  <2> QED
    BY <1>1, <2>0, <2>1, <2>5, <2>8, <2>9, <2>10, BeginMounts
<1>3. CASE CreateSessionFails(DiscoveryIQN) /\ UNCHANGED calls
  BY <1>3, MountsSame DEF CreateSessionFails
<1> QED
  BY <1>2, <1>3 DEF Discover

LEMMA HandleNotificationMounts ==
  ASSUME IInv, Safe, IInv', Mounts, HandleNotification
  PROVE  Mounts'
<1> PICK n : n = Head(notifications)
  OBVIOUS
<1>1. /\ Idle(Main) /\ UNCHANGED <<sessionList, targets>>
      /\ n.sid \in SessionIds /\ n.cid \in ConnectionIds
  BY NotificationBegins DEF IInv
<1>2. PICK todo \in NotificationCalls(n) : Begin(Main, todo)
  BY NotificationBegins DEF IInv
<1>3. SpareCalls(todo)
  BY <1>1, <1>2, SpareNotification DEF NotificationCalls
<1> QED
  BY <1>1, <1>2, <1>3, SparesMounts

LEMMA CopyPortalMounts ==
  ASSUME IInv, Safe, IInv', Mounts, NEW t \in Clients, CopyPortal(t)
  PROVE  Mounts'
<1> PICK h : h = Head(calls[t])
  OBVIOUS
<1>1. /\ calls[t] # <<>> /\ h.op = "copyPortal" /\ Running(t, "copyPortal")
      /\ h.sid \in SessionIds /\ h.cid \in ConnectionIds /\ h.iqn \in IQNs
      /\ UNCHANGED <<sessionList, targets>> /\ t \in Threads
  BY CopyPortalCalls DEF IInv, CopyPortal, Threads
<1>2. t = Main
  <2>1. calls[t][1] = h /\ 1 \in 1 .. Len(calls[t])
    BY <1>1, HeadType, StackType, EmptySeq DEF IInv
  <2> QED
    BY <1>1, <2>1 DEF Mounts, Courses, Course
<1>3. PICK next \in AfterPortal(h) : CallNext(t, ReleaseLost(h.sid, h.cid) \o next)
  BY CopyPortalCalls DEF IInv
<1> PICK todo : todo = ReleaseLost(h.sid, h.cid) \o next
  OBVIOUS
<1>4. SpareCalls(todo)
  BY <1>1, <1>3, SpareNotification DEF AfterPortal
<1>5. todo \in Seq(AnyCall) /\ CallNext(t, todo)
  BY <1>3, <1>4 DEF SpareCalls
<1>6. Course(t, todo)
  BY <1>2, <1>4, SparesCourse
<1>7. \A k \in 1 .. Len(todo) :
         /\ ~Lowers(todo[k]) /\ todo[k].op \notin {"mount", "increment"}
         /\ todo[k].op \notin {"loginExchange", "ActivateConnection"}
  BY <1>4, SparesCourse DEF Activating
<1>8. Effect(h)
  BY <1>1, EffectSame
<1> QED
  BY <1>1, <1>5, <1>6, <1>7, <1>8, LoginMounts

\* Handlers that lower no count, of a session whose connection is enabled.
LEMMA HandlerMounts ==
  ASSUME IInv, Safe, IInv', Mounts, NEW handler \in Seq(AnyCall), StartHandler(handler),
         NEW sid, Up(sid),
         \A i \in 1 .. Len(handler) :
            handler[i].sid = sid /\ ~Lowers(handler[i]) /\ handler[i].op \notin Activating
  PROVE  Mounts'
<1>0. PICK h : h = LockAccess
  OBVIOUS
<1>1. Workloop \in Threads /\ Workloop \notin Clients
  BY HBAConstants DEF Threads
<1>2. calls[Workloop] = <<>> /\ calls' = [calls EXCEPT ![Workloop] = handler]
  BY DEF StartHandler
<1>3. Effect(h)
  BY EffectSame DEF StartHandler
<1>4. \A k \in 1 .. Len(handler) :
         /\ handler[k].op \notin Activating \ {"loginExchange"} /\ handler[k].op # "loginExchange"
         /\ Up(handler[k].sid)
  BY DEF Activating
<1> QED
  BY <1>0, <1>1, <1>2, <1>3, <1>4, BeginMounts

\* The workloop works on the first connection only: no other one is enabled.
LEMMA EnabledIsFirst ==
  ASSUME Mounts, NEW sid \in SessionIds, NEW cid, Connected(sid, cid), cid \in Enabled(sid)
  PROVE  cid = 0 /\ Up(sid)
BY DEF Mounts, FirstOnly, Connected, Up

LEMMA ConnectionLostMounts ==
  ASSUME IInv, Safe, IInv', Mounts, ConnectionLost
  PROVE  Mounts'
<1>1. PICK sid \in SessionIds, cid \in ConnectionIds, failures \in {1, 2} :
         /\ Connected(sid, cid) /\ cid \in Enabled(sid)
         /\ StartHandler([i \in 1 .. failures |-> Call("HandleConnectionTimeout", sid, cid)])
  BY DEF ConnectionLost
<1>2. PICK c : c = Call("HandleConnectionTimeout", sid, cid)
  OBVIOUS
<1>3. PICK handler : handler = [i \in 1 .. failures |-> c]
  OBVIOUS
<1>4. cid = 0 /\ Up(sid)
  BY <1>1, EnabledIsFirst
<1>5. c \in AnyCall /\ c.op = "HandleConnectionTimeout" /\ c.sid = sid /\ c.cid = 0
  BY <1>2, <1>4, CallType DEF AnyCall, Call, LookUpCalls
<1>6. /\ handler \in Seq(AnyCall)
      /\ \A i \in 1 .. Len(handler) : handler[i] = c
  <2>1. failures \in Nat /\ handler \in [1 .. failures -> AnyCall]
    BY <1>3, <1>5
  <2>2. handler \in Seq(AnyCall)
    BY <2>1, SeqDef
  <2>3. Len(handler) = failures
    BY <2>1, <2>2, LenProperties
  <2> QED
    BY <1>3, <2>2, <2>3
<1>7. ~Lowers(c) /\ c.op \notin Activating
  BY <1>5 DEF Lowers, Activating
<1>8. StartHandler(handler)
  BY <1>1, <1>2, <1>3
<1> QED
  BY <1>4, <1>5, <1>6, <1>7, <1>8, HandlerMounts

LEMMA ProcessAsyncMsgMounts ==
  ASSUME IInv, Safe, IInv', Mounts, ProcessAsyncMsg, AsyncEvents \subseteq {"logout"}
  PROVE  Mounts'
<1>1. PICK sid \in SessionIds, cid \in ConnectionIds :
         /\ Connected(sid, cid) /\ cid \in Enabled(sid)
         /\ StartHandler(<<AsyncCall("logout", sid, cid),
                           Rest("notifyAsync", Call("logout", sid, cid))>>)
  BY DEF ProcessAsyncMsg
<1>2. PICK c, d : c = AsyncCall("logout", sid, cid) /\ d = Rest("notifyAsync", Call("logout", sid, cid))
  OBVIOUS
<1>3. PICK handler : handler = <<c, d>>
  OBVIOUS
<1>4. cid = 0 /\ Up(sid) /\ Exists(sid)
  BY <1>1, EnabledIsFirst DEF Up
<1>5. c \in AnyCall /\ c.op = "DeactivateConnection" /\ c.sid = sid /\ c.cid = 0
  <2>1. c = Call("DeactivateConnection", sid, cid)
    BY <1>2 DEF AsyncCall
  <2> QED
    BY <1>4, <2>1, CallType DEF AnyCall, Call, LookUpCalls
<1>6. d \in AnyCall /\ d.op = "notifyAsync" /\ d.sid = sid
  <2>1. sessionList[sid].gen \in 1 .. MaxCreated
    BY <1>4 DEF IInv, TypeOK, Exists, Session
  <2>2. d = [op |-> "notifyAsync", sid |-> sid, cid |-> cid, gen |-> sessionList[sid].gen]
    BY <1>2 DEF Rest, Call
  <2>3. "notifyAsync" \in PointerCalls
    BY DEF PointerCalls, HoldsSession
  <2> QED
    BY <2>1, <2>2, <2>3 DEF AnyCall, SessionCall
<1>7. handler \in Seq(AnyCall) /\ \A i \in 1 .. Len(handler) : handler[i] \in {c, d}
  BY <1>3, <1>5, <1>6
<1>8. \A e \in {c, d} : e.sid = sid /\ ~Lowers(e) /\ e.op \notin Activating
  BY <1>5, <1>6 DEF Lowers, Activating
<1>9. StartHandler(handler)
  BY <1>1, <1>2, <1>3
<1> QED
  BY <1>4, <1>7, <1>8, <1>9, HandlerMounts

LEMMA DaemonStepMounts ==
  ASSUME IInv, Safe, IInv', Mounts, NEW t \in Threads, Step(t), CountModulus > 1
  PROVE  Mounts'
BY DoneMounts, CountInactiveMounts, UnlinkMounts, FreeMounts, RemoveNameMounts, DeactivateConnectionMounts,
   DeactivateAllConnectionsMounts, HandleConnectionTimeoutMounts, ReleaseConnectionMethodMounts,
   ReleaseConnectionMounts, ReleaseSessionMounts, ActivateConnectionMounts, MountFirstMounts,
   CountActiveMounts DEF Step

LEMMA ClientStepMounts ==
  ASSUME IInv, Safe, IInv', Mounts, NEW t \in Clients, ClientStep(t), CountModulus > 1
  PROVE  Mounts'
<1>1. t \in Threads
  BY DEF Threads
<1> QED
  BY <1>1, DaemonStepMounts, SessionLoginMounts, SessionAddConnectionMounts, LoginExchangeMounts,
     ExchangeMounts, DiscoveryLoginMounts, CopyPortalMounts DEF ClientStep

LEMMA InitMounts ==
  ASSUME HBAInit
  PROVE  Mounts
<1>1. \A t \in Threads : calls[t] = <<>> /\ Len(calls[t]) = 0
  BY DEF HBAInit
<1>2. Main \in Threads /\ Clients \subseteq Threads
  BY SessionManagerConstants DEF Threads
<1>3. \A sid \in SessionIds : ~Exists(sid)
  BY DEF HBAInit, Exists
<1>4. \A t \in Threads : \A i \in 1 .. Len(calls[t]) : FALSE
  BY <1>1
<1>5. Courses /\ \A t \in Threads : Covered(calls[t])
  BY <1>2, <1>4 DEF Courses, Course, Covered
<1> QED
  BY <1>2, <1>3, <1>4, <1>5 DEF Mounts, FirstOnly, Pending, Up

LEMMA NextMounts ==
  ASSUME IInv, Safe, IInv', Mounts, [Next]_hbaVars, AsyncEvents \subseteq {"logout"}, CountModulus > 1
  PROVE  Mounts'
<1>1. CASE \E t \in Clients : ClientStep(t)
  BY <1>1, ClientStepMounts
<1>2. CASE WorkloopStep
  BY <1>2, DaemonStepMounts DEF WorkloopStep, Threads
<1>3. CASE ConnectionLost \/ ProcessAsyncMsg
  BY <1>3, ConnectionLostMounts, ProcessAsyncMsgMounts
<1>4. CASE \E iqn \in IQNs \ {DiscoveryIQN} : Login(iqn) \/ Logout(iqn) \/ QueryTarget(iqn)
  BY <1>4, StartsMounts
<1>5. CASE HandleNotification
  BY <1>5, HandleNotificationMounts
<1>6. CASE Discover
  BY <1>6, DiscoverMounts
<1>7. CASE UNCHANGED hbaVars
  BY <1>7, MountsSame DEF hbaVars
<1> QED
  BY <1>1, <1>2, <1>3, <1>4, <1>5, <1>6, <1>7 DEF Next, LiveStep

LEMMA MountsAreActive ==
  ASSUME Mounts
  PROVE  ActiveSessionsAreMounted
<1> SUFFICES ASSUME NEW sid \in SessionIds, Exists(sid), ~Busy(sid), Enabled(sid) # {}
             PROVE  sid \in targets /\ sessionList[sid].active = Cardinality(Enabled(sid))
  BY DEF ActiveSessionsAreMounted
<1>1. Main \in Threads /\ Clients \subseteq Threads
  BY SessionManagerConstants DEF Threads
<1>2. Enabled(sid) = {0} /\ Up(sid)
  BY DEF Mounts, FirstOnly, Up
<1>3. Cardinality(Enabled(sid)) = 1
  BY <1>2, FS_Singleton
<1>4. ~Doomed(sid) /\ ~Pending({"mount"}, sid) /\ ~Pending({"mount", "increment"}, sid)
  BY <1>1 DEF Busy, Doomed, Pending
<1> QED
  BY <1>2, <1>3, <1>4 DEF Mounts, UpOK

MountsInv == SafeInv /\ Mounts

\* As long as no target drops sessions or connections by asynchronous messages, a session
\* that no thread is at work on, and that has an enabled connection, has its target mounted
\* and counts that connection.  iSCSIVirtualHBA::ActivateConnection enables a connection
\* before it mounts the target and counts, and the workloop may find it lost meanwhile; what
\* a handler takes from the count, or unmounts, is of a connection that it has disabled, or
\* of a session that a thread goes on to release.
THEOREM ActiveMounted ==
  ASSUME AsyncEvents \subseteq {"logout"}, CountModulus > 1
  PROVE  Spec => []ActiveSessionsAreMounted
<1>1. HBAInit => MountsInv
  BY InitOK, InitSafe, InitMounts DEF MountsInv, SafeInv
<1>2. MountsInv /\ [Next]_hbaVars => MountsInv'
  BY NextOK, NextSafe, NextMounts DEF MountsInv, SafeInv
<1>3. MountsInv => ActiveSessionsAreMounted
  BY MountsAreActive DEF MountsInv
<1> QED
  BY <1>1, <1>2, <1>3, PTL DEF Spec
=============================================================================
