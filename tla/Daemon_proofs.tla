----------------------------- MODULE Daemon_proofs -----------------------------
(***************************************************************************)
(* Machine-checked facts about Daemon, for any number of tools and         *)
(* commands: the types of its variables, who has the lock of the           *)
(* preferences and what he stores, that the run loop does not block, that  *)
(* a session has its target, and what sleep and discovery rely on.  What   *)
(* each needs of the environment is a hypothesis about Faults.             *)
(***************************************************************************)
EXTENDS Daemon, SequenceTheorems, TLAPS

-----------------------------------------------------------------------------
(* Lists.                                                                  *)

\* The requests of a command.
LEMMA CommandsAreLists ==
  ASSUME NEW todo \in Commands
  PROVE  todo \in Seq(Requests) /\ todo # <<>>
<1>1. /\ <<"lock", "unlock">> \in Seq(Requests)
      /\ <<"lock", "release">> \in Seq(Requests)
      /\ <<"lock", "query", "unlock">> \in Seq(Requests)
  BY DEF Requests
<1>2. /\ <<"lock", "unlock", "update">> \in Seq(Requests)
      /\ <<"login">> \in Seq(Requests)
      /\ <<"logout">> \in Seq(Requests)
  BY DEF Requests
<1>3. \/ todo = <<"lock", "unlock">> \/ todo = <<"lock", "release">>
      \/ todo = <<"lock", "query", "unlock">> \/ todo = <<"lock", "unlock", "update">>
      \/ todo = <<"login">> \/ todo = <<"logout">>
  BY DEF Commands, Modify, Refuse, Remove, ModifyDiscovery, Login, Logout
<1>4. todo \in Seq(Requests)
  BY <1>1, <1>2, <1>3
<1>5. Len(todo) # 0
  BY <1>3
<1> QED
  BY <1>4, <1>5

\* What is left of a list of answers when the first is taken.
LEMMA RestOfAnswers ==
  ASSUME NEW answers \in Seq(Answers)
  PROVE  SubSeq(answers, 2, Len(answers)) \in Seq(Answers)
<1>1. \A i \in 2 .. Len(answers) : answers[i] \in Answers
  OBVIOUS
<1> QED
  BY <1>1, SubSeqProperties

-----------------------------------------------------------------------------
(* Types.                                                                  *)

\* The connection that is served is there, and who waits has asked something.
Structure ==
    /\ fd # 0 => descriptor[fd] # None
    /\ \A c \in Clients : client[c].waits => ~IsHome(c)

TypeInv == TypeOK /\ Structure

\* What is served is a connection.
LEMMA ServedIsConnection ==
  ASSUME TypeInv, fd # 0
  PROVE  fd \in Descriptors /\ descriptor[fd] \in Connections
BY DEF TypeInv, TypeOK, Structure

\* A connection stays one when its other end closes it or writes to it.
LEMMA EndsKeepConnections ==
  ASSUME NEW x \in Connections \cup {None}, NEW c \in Clients, NEW message \in Message
  PROVE  /\ Closed(x, c) \in Connections \cup {None}
         /\ Written(x, c, message) \in Connections \cup {None}
         /\ x \in Connections =>
              Closed(x, c) \in Connections /\ Written(x, c, message) \in Connections
         /\ x # None => Closed(x, c) # None /\ Written(x, c, message) # None
<1>1. CASE x \in Connections
  <2>1. [x EXCEPT !.open = FALSE] \in Connections
    BY <1>1 DEF Connections
  <2>2. x.requests \in Seq(Message)
    BY <1>1 DEF Connections
  <2>3. Append(x.requests, message) \in Seq(Message)
    BY <2>2
  <2>4. [x EXCEPT !.requests = Append(@, message)] \in Connections
    BY <1>1, <2>3 DEF Connections
  <2> QED
    BY <1>1, <2>1, <2>4, NoneIsNoConnection DEF Closed, Written
<1>2. CASE x = None
  BY <1>2, NoneIsNoConnection DEF Closed, Written, Owns
<1> QED
  BY <1>1, <1>2

\* A tool that goes home closes its end.
LEMMA LeaveTypes ==
  ASSUME TypeInv, NEW c \in Clients, Leave(c)
  PROVE  /\ client' \in [Clients -> Tool]
         /\ backlog' \in Seq(Connections)
         /\ descriptor' \in [Descriptors -> Connections \cup {None}]
         /\ fd' = fd /\ listening' = listening /\ readSignal' = readSignal
         /\ Structure'
<1>1. AtHome \in Tool /\ AtHome.todo = <<>> /\ AtHome.waits = FALSE
  BY DEF AtHome, Tool
<1>2. PICK message \in Message : TRUE
  <2>1. [request |-> "lock", prefs |-> {}] \in Message
    BY DEF Message, Requests
  <2> QED
    BY <2>1
<1>3. client' \in [Clients -> Tool]
  BY <1>1 DEF Leave, TypeInv, TypeOK
<1>4. backlog' \in Seq(Connections)
  <2>1. \A i \in DOMAIN backlog : Closed(backlog[i], c) \in Connections
    BY <1>2, EndsKeepConnections DEF TypeInv, TypeOK
  <2> QED
    BY <2>1 DEF Leave, TypeInv, TypeOK
<1>5. /\ descriptor' \in [Descriptors -> Connections \cup {None}]
      /\ fd # 0 => descriptor'[fd] # None
  <2>1. \A n \in Descriptors : /\ Closed(descriptor[n], c) \in Connections \cup {None}
                               /\ descriptor[n] # None => Closed(descriptor[n], c) # None
    BY <1>2, EndsKeepConnections DEF TypeInv, TypeOK
  <2> QED
    BY <2>1 DEF Leave, TypeInv, TypeOK, Structure
<1>6. \A d \in Clients : client'[d].waits => client'[d].todo # <<>>
  BY <1>1 DEF Leave, TypeInv, TypeOK, Structure, IsHome
<1> QED
  BY <1>3, <1>4, <1>5, <1>6 DEF Leave, Structure, IsHome

LEMMA GoOnTypes ==
  ASSUME TypeInv, NEW c \in Clients, NEW answer, client[c].waits, GoOn(c, answer)
  PROVE  /\ client' \in [Clients -> Tool]
         /\ backlog' \in Seq(Connections)
         /\ descriptor' \in [Descriptors -> Connections \cup {None}]
         /\ fd' = fd /\ listening' = listening /\ readSignal' = readSignal
         /\ Structure'
<1>1. CASE Len(client[c].todo) = 1
  BY <1>1, LeaveTypes DEF GoOn
<1>2. CASE Len(client[c].todo) # 1
  <2> DEFINE tool == [todo |-> Tail(client[c].todo), waits |-> FALSE, copy |-> NextCopy(c, answer),
                      answers |-> SubSeq(client[c].answers, 2, Len(client[c].answers))]
  <2>1. client' = [client EXCEPT ![c] = tool] /\ UNCHANGED socketVars
    BY <1>2 DEF GoOn
  <2>2. client[c] \in Tool /\ client[c].todo # <<>>
    BY DEF TypeInv, TypeOK, Structure, IsHome
  <2>3. Tail(client[c].todo) \in Seq(Requests)
    BY <2>2 DEF Tool
  <2>4. NextCopy(c, answer) \subseteq Items
    BY <2>2 DEF NextCopy, TypeInv, TypeOK, Items, Tool, Removed
  <2>5. SubSeq(client[c].answers, 2, Len(client[c].answers)) \in Seq(Answers)
    BY <2>2, RestOfAnswers DEF Tool
  <2>6. tool \in Tool /\ tool.waits = FALSE
    BY <2>3, <2>4, <2>5 DEF Tool
  <2> HIDE DEF tool
  <2> QED
    BY <2>1, <2>6 DEF TypeInv, TypeOK, Structure, IsHome, socketVars
<1> QED
  BY <1>1, <1>2

\* An answer is given to a tool, or ends the service.
LEMMA AnswerTypes ==
  ASSUME TypeInv, NEW n \in Descriptors, descriptor[n] # None,
         NEW answer \in Answers, NEW lock \in Clients \cup {None}, Answer(n, answer, lock)
  PROVE  /\ client' \in [Clients -> Tool]
         /\ \A c \in Clients : client'[c].todo = client[c].todo /\ client'[c].waits = client[c].waits
         /\ preferencesMutex' \in Clients \cup {None}
         /\ listening' \in BOOLEAN
         /\ fd' \in {0, fd}
<1>1. descriptor[n].client \in Clients
  BY DEF TypeInv, TypeOK, Connections
<1>2. CASE descriptor[n].open
  <2> DEFINE c == descriptor[n].client
             tool == [client[c] EXCEPT !.answers = Append(@, answer)]
  <2>1. /\ client' = [client EXCEPT ![c] = tool]
        /\ preferencesMutex' = lock /\ UNCHANGED <<listening, fd>>
    BY <1>1, <1>2 DEF Answer, TypeInv, TypeOK
  <2>2. client[c] \in Tool
    BY <1>1 DEF TypeInv, TypeOK
  <2>3. tool \in Tool /\ tool.todo = client[c].todo /\ tool.waits = client[c].waits
    <3>1. client[c].answers \in Seq(Answers)
      BY <2>2 DEF Tool
    <3>2. Append(client[c].answers, answer) \in Seq(Answers)
      BY <3>1
    <3> QED
      BY <2>2, <3>2 DEF Tool
  <2> HIDE DEF c, tool
  <2> QED
    BY <2>1, <2>3 DEF TypeInv, TypeOK
<1>3. CASE ~descriptor[n].open
  BY <1>3 DEF Answer, TypeInv, TypeOK
<1> QED
  BY <1>2, <1>3

\* A handler takes one request and answers it.
LEMMA HandleTypes ==
  ASSUME TypeInv, fd # 0, NEW request, Handle(request)
  PROVE  /\ descriptor' \in [Descriptors -> Connections \cup {None}]
         /\ descriptor'[fd] # None
         /\ request \in Requests /\ Request \in Message
         /\ UNCHANGED <<commands, backlog, readSignal, discoveryVars>>
<1>1. fd \in Descriptors /\ descriptor[fd] \in Connections
  BY ServedIsConnection
<1>2. Request \in Message /\ Tail(descriptor[fd].requests) \in Seq(Message)
  BY <1>1 DEF Handle, HasRequest, Request, Connections
<1>3. [descriptor[fd] EXCEPT !.requests = Tail(@)] \in Connections
  BY <1>1, <1>2 DEF Connections
<1>4. descriptor' = [descriptor EXCEPT ![fd] = [descriptor[fd] EXCEPT !.requests = Tail(@)]]
  BY <1>1 DEF Handle, TypeInv, TypeOK
<1>5. request \in Requests
  BY <1>2 DEF Handle, Message
<1> QED
  BY <1>1, <1>2, <1>3, <1>4, <1>5, NoneIsNoConnection DEF Handle, TypeInv, TypeOK

LEMMA ReplyTypes ==
  ASSUME TypeInv, fd # 0, NEW request, Handle(request),
         NEW answer \in Answers, NEW lock \in Clients \cup {None}, Reply(answer, lock),
         store' \subseteq Items, preferences' \subseteq Items, active' \in BOOLEAN,
         UNCHANGED <<queuedLogin, unmounting, activeTargets>>
  PROVE  TypeInv'
<1>1. fd \in Descriptors /\ descriptor[fd] \in Connections /\ descriptor[fd] # None
  BY ServedIsConnection, NoneIsNoConnection
<1>2. /\ client' \in [Clients -> Tool]
      /\ \A c \in Clients : client'[c].todo = client[c].todo /\ client'[c].waits = client[c].waits
      /\ preferencesMutex' \in Clients \cup {None}
      /\ listening' \in BOOLEAN
      /\ fd' \in {0, fd}
  BY <1>1, AnswerTypes DEF Reply
<1>3. Structure'
  BY <1>2, HandleTypes DEF Structure, TypeInv, IsHome
<1>4. TypeOK'
  BY <1>1, <1>2, HandleTypes DEF TypeInv, TypeOK, Reply, discoveryVars
<1> QED
  BY <1>3, <1>4 DEF TypeInv

-----------------------------------------------------------------------------
(* The steps.                                                              *)

LEMMA InitTypes ==
  ASSUME Init
  PROVE  TypeInv
<1>1. AtHome \in Tool /\ AtHome.waits = FALSE
  BY DEF AtHome, Tool
<1>2. commands \in [Clients -> 0 .. MaxCommands]
  BY DaemonConstants DEF Init
<1>3. /\ client \in [Clients -> Tool] /\ \A c \in Clients : client[c].waits = FALSE
      /\ descriptor \in [Descriptors -> Connections \cup {None}]
  BY <1>1 DEF Init
<1>4. backlog \in Seq(Connections)
  BY DEF Init
<1>5. Structure
  BY <1>3 DEF Init, Structure
<1>6. /\ fd \in Descriptors \cup {0} /\ runLoop \in {"idle", "receive", "peek", "blocked"}
      /\ preferencesMutex \in Clients \cup {None} /\ store \subseteq Items
      /\ preferences \subseteq Items /\ threads \in 0 .. 2
      /\ discoveryRecords \in {None, "found", "freed"} /\ unmounting \subseteq Descriptors \cup {0}
  BY DEF Init, Items
<1>7. /\ listening \in BOOLEAN /\ readSignal \in BOOLEAN /\ discoveryMutex \in BOOLEAN
      /\ discoverySignal \in BOOLEAN /\ active \in BOOLEAN /\ queuedLogin \in BOOLEAN
      /\ activeTargets \in BOOLEAN
  BY DEF Init
<1> QED
  BY <1>2, <1>3, <1>4, <1>5, <1>6, <1>7 DEF TypeInv, TypeOK

LEMMA ToolTypes ==
  ASSUME TypeInv, NEW c \in Clients, Connect(c) \/ ClientStep(c)
  PROVE  TypeInv'
<1>1. CASE Connect(c)
  <2>1. PICK todo \in Commands : client' = [client EXCEPT ![c].todo = todo, ![c].copy = store]
    BY <1>1 DEF Connect
  <2>2. todo \in Seq(Requests) /\ todo # <<>>
    BY <2>1, CommandsAreLists
  <2>3. /\ client' \in [Clients -> Tool]
        /\ \A d \in Clients : client'[d].waits => client'[d].todo # <<>>
    <3>1. client[c] \in Tool
      BY DEF TypeInv, TypeOK
    <3>2. client' = [client EXCEPT ![c] = [client[c] EXCEPT !.todo = todo, !.copy = store]]
      BY <2>1 DEF TypeInv, TypeOK
    <3>3. /\ [client[c] EXCEPT !.todo = todo, !.copy = store] \in Tool
          /\ [client[c] EXCEPT !.todo = todo, !.copy = store].todo # <<>>
      BY <2>2, <3>1 DEF Tool, TypeInv, TypeOK
    <3> QED
      BY <3>2, <3>3 DEF TypeInv, TypeOK, Structure, IsHome
  <2>4. Connection(c) \in Connections
    BY DEF Connection, Connections
  <2>5. commands' \in [Clients -> 0 .. MaxCommands]
    <3>1. /\ commands \in [Clients -> 0 .. MaxCommands]
          /\ commands[c] < MaxCommands /\ MaxCommands \in Nat
          /\ commands' = [commands EXCEPT ![c] = commands[c] + 1]
      BY <1>1, DaemonConstants DEF Connect, TypeInv, TypeOK
    <3>2. commands[c] + 1 \in 0 .. MaxCommands
      BY <3>1
    <3> QED
      BY <3>1, <3>2
  <2>6. backlog' \in Seq(Connections)
    <3>1. backlog \in Seq(Connections) /\ backlog' = Append(backlog, Connection(c))
      BY <1>1 DEF Connect, TypeInv, TypeOK
    <3> QED
      BY <2>4, <3>1, AppendProperties
  <2>7. UNCHANGED <<descriptor, fd, listening, readSignal, runLoop, storeVars, discoveryVars, sessionVars>>
    BY <1>1 DEF Connect
  <2> QED
    BY <2>3, <2>5, <2>6, <2>7
       DEF TypeInv, TypeOK, Structure, IsHome, storeVars, discoveryVars, sessionVars
<1>2. CASE Send(c) /\ Connected(c)
  <2> DEFINE request == Head(client[c].todo)
             message == [request |-> request,
                         prefs |-> IF request = "unlock" THEN client[c].copy ELSE {}]
  <2>1. client[c] \in Tool /\ client[c].todo # <<>>
    BY <1>2 DEF Send, IsHome, TypeInv, TypeOK
  <2>2. message \in Message
    BY <2>1 DEF Message, Tool
  <2>3. /\ backlog' = [i \in DOMAIN backlog |-> Written(backlog[i], c, message)]
        /\ descriptor' = [n \in Descriptors |-> Written(descriptor[n], c, message)]
        /\ client' = [client EXCEPT ![c].waits = TRUE]
        /\ UNCHANGED <<fd, listening, readSignal>>
        /\ UNCHANGED <<commands, runLoop, storeVars, discoveryVars, sessionVars>>
    BY <1>2 DEF Send
  <2> HIDE DEF message
  <2>4. backlog' \in Seq(Connections)
    <3>1. \A i \in DOMAIN backlog : Written(backlog[i], c, message) \in Connections
      BY <2>2, EndsKeepConnections DEF TypeInv, TypeOK
    <3>2. backlog' = [i \in DOMAIN backlog |-> Written(backlog[i], c, message)]
      BY <2>3
    <3>3. backlog \in Seq(Connections)
      BY DEF TypeInv, TypeOK
    <3> QED
      BY <3>1, <3>2, <3>3
  <2>5. /\ descriptor' \in [Descriptors -> Connections \cup {None}]
        /\ fd # 0 => descriptor'[fd] # None
    <3>1. \A n \in Descriptors :
             /\ Written(descriptor[n], c, message) \in Connections \cup {None}
             /\ descriptor[n] # None => Written(descriptor[n], c, message) # None
      BY <2>2, EndsKeepConnections DEF TypeInv, TypeOK
    <3> QED
      BY <2>3, <3>1 DEF TypeInv, TypeOK, Structure
  <2>6. /\ client' \in [Clients -> Tool]
        /\ \A d \in Clients : client'[d].waits => client'[d].todo # <<>>
    <3>1. client' = [client EXCEPT ![c] = [client[c] EXCEPT !.waits = TRUE]]
      BY <2>3 DEF TypeInv, TypeOK
    <3>2. /\ [client[c] EXCEPT !.waits = TRUE] \in Tool
          /\ [client[c] EXCEPT !.waits = TRUE].todo # <<>>
      BY <2>1 DEF Tool
    <3> QED
      BY <3>1, <3>2 DEF TypeInv, TypeOK, Structure, IsHome
  <2> QED
    BY <2>3, <2>4, <2>5, <2>6
       DEF TypeInv, TypeOK, Structure, IsHome, storeVars, discoveryVars, sessionVars
<1>3. CASE Send(c) /\ ~Connected(c)
  <2>1. Leave(c)
    BY <1>3 DEF Send
  <2> QED
    BY <1>3, <2>1, LeaveTypes DEF Send, TypeInv, TypeOK, storeVars, discoveryVars, sessionVars
<1>4. CASE ReceiveAnswer(c) \/ StopWaiting(c)
  <2>1. /\ client[c].waits
        /\ UNCHANGED <<commands, runLoop, storeVars, discoveryVars, sessionVars>>
        /\ Leave(c) \/ \E answer : GoOn(c, answer)
    BY <1>4 DEF ReceiveAnswer, StopWaiting
  <2> QED
    BY <2>1, LeaveTypes, GoOnTypes DEF TypeInv, TypeOK, storeVars, discoveryVars, sessionVars
<1> QED
  BY <1>1, <1>2, <1>3, <1>4 DEF ClientStep

LEMMA HandlerTypes ==
  ASSUME TypeInv, fd # 0, ServeRequest
  PROVE  TypeInv'
<1>0. /\ fd \in Descriptors /\ descriptor[fd] \in Connections
      /\ descriptor[fd].client \in Clients \cup {None}
      /\ preferencesMutex \in Clients \cup {None} /\ None \in Clients \cup {None}
      /\ {"lock", "denied", "unlock", "release", "active", "query", "update", "login", "logout"}
            \subseteq Answers
  BY ServedIsConnection DEF Connections, TypeInv, TypeOK, Answers, Requests
<1>t. /\ store \subseteq Items /\ preferences \subseteq Items /\ active \in BOOLEAN
      /\ WithAlias(store) \subseteq Items
  BY DEF TypeInv, TypeOK, WithAlias, Items
<1>1. CASE LockAndSync
  BY <1>0, <1>t, <1>1, ReplyTypes DEF LockAndSync, sessionVars
<1>2. CASE LockBlocks
  BY <1>2 DEF LockBlocks, TypeInv, TypeOK, Structure, IsHome, clientVars, socketVars, storeVars,
              discoveryVars, sessionVars
<1>3. CASE UnlockAndSync
  <2>1. Request.prefs \subseteq Items
    BY <1>3, HandleTypes DEF UnlockAndSync, Message
  <2> QED
    BY <1>0, <1>t, <1>3, <2>1, ReplyTypes DEF UnlockAndSync, sessionVars
<1>4. CASE Release
  BY <1>0, <1>t, <1>4, ReplyTypes DEF Release, sessionVars
<1>5. CASE IsTargetActive
  BY <1>0, <1>t, <1>5, ReplyTypes DEF IsTargetActive, sessionVars
<1>6. CASE UpdateDiscovery
  BY <1>0, <1>t, <1>6, ReplyTypes DEF UpdateDiscovery, sessionVars
<1>7. CASE LoginRequest
  BY <1>0, <1>t, <1>7, ReplyTypes DEF LoginRequest, LoginCommon
<1>8. CASE LogoutRequest
  <2>1. CASE active
    <3>1. /\ unmounting' = unmounting \cup {fd} /\ runLoop' = "peek"
          /\ UNCHANGED <<client, fd, listening, preferencesMutex, store, preferences, active,
                          queuedLogin, activeTargets>>
      BY <1>8, <2>1 DEF LogoutRequest
    <3>2. /\ descriptor' \in [Descriptors -> Connections \cup {None}]
          /\ descriptor'[fd] # None
          /\ UNCHANGED <<commands, backlog, readSignal, discoveryVars>>
      BY <1>8, HandleTypes DEF LogoutRequest
    <3> QED
      BY <1>0, <3>1, <3>2 DEF TypeInv, TypeOK, Structure, IsHome, discoveryVars
  <2>2. CASE ~active
    BY <1>0, <1>t, <1>8, <2>2, ReplyTypes DEF LogoutRequest
  <2> QED
    BY <2>1, <2>2
<1> QED
  BY <1>1, <1>2, <1>3, <1>4, <1>5, <1>6, <1>7, <1>8 DEF ServeRequest

LEMMA SocketTypes ==
  ASSUME TypeInv, ServeClient
  PROVE  TypeInv'
<1>1. CASE AcceptConnection
  <2> DEFINE n == CHOOSE m \in Descriptors : m # fd
  <2>1. n \in Descriptors
    BY DEF Descriptors
  <2>2. Head(backlog) \in Connections /\ Tail(backlog) \in Seq(Connections)
    BY <1>1 DEF AcceptConnection, TypeInv, TypeOK
  <2>3. /\ descriptor' = [m \in Descriptors |-> IF m = n THEN Head(backlog) ELSE None]
        /\ fd' = n /\ backlog' = Tail(backlog) /\ runLoop' = "receive"
        /\ UNCHANGED <<clientVars, listening, readSignal, storeVars, discoveryVars, sessionVars>>
    BY <1>1 DEF AcceptConnection
  <2> HIDE DEF n
  <2>4. /\ descriptor' \in [Descriptors -> Connections \cup {None}]
        /\ descriptor'[n] # None
    BY <2>1, <2>2, <2>3, NoneIsNoConnection
  <2>5. Structure'
    BY <2>3, <2>4 DEF TypeInv, Structure, IsHome, clientVars
  <2>6. fd' \in Descriptors \cup {0} /\ backlog' \in Seq(Connections)
    BY <2>1, <2>2, <2>3
  <2> QED
    BY <2>3, <2>4, <2>5, <2>6
       DEF TypeInv, TypeOK, clientVars, storeVars, discoveryVars, sessionVars
<1>2. CASE ReadSignalled
  <2>1. /\ readSignal' \in BOOLEAN /\ runLoop' \in {"idle", "receive", "peek", "blocked"}
        /\ UNCHANGED <<clientVars, backlog, descriptor, fd, listening, storeVars, discoveryVars,
                       sessionVars>>
    BY <1>2 DEF ReadSignalled
  <2>2. Structure'
    BY <2>1 DEF TypeInv, Structure, IsHome, clientVars
  <2> QED
    BY <2>1, <2>2 DEF TypeInv, TypeOK, clientVars, storeVars, discoveryVars, sessionVars
<1>3. CASE NothingReceived
  BY <1>3 DEF NothingReceived, TypeInv, TypeOK, Structure, IsHome, clientVars, socketVars,
              storeVars, discoveryVars, sessionVars
<1>4. CASE PeekNext
  <2>1. readSignal' \in BOOLEAN
    BY <1>4 DEF PeekNext
  <2> QED
    BY <1>4, <2>1 DEF PeekNext, TypeInv, TypeOK, Structure, IsHome, clientVars, storeVars,
                discoveryVars, sessionVars
<1>5. CASE fd # 0 /\ ServeRequest
  BY <1>5, HandlerTypes
<1> QED
  BY <1>1, <1>2, <1>3, <1>4, <1>5 DEF ServeClient

LEMMA LogoutCompleteTypes ==
  ASSUME TypeInv, NEW n \in Descriptors, LogoutComplete(n)
  PROVE  TypeInv'
<1>1. /\ UNCHANGED <<commands, backlog, descriptor, readSignal, runLoop, store, preferences,
                      discoveryVars, queuedLogin, activeTargets>>
      /\ unmounting' \subseteq Descriptors \cup {0} /\ active' \in BOOLEAN
  BY DEF LogoutComplete, TypeInv, TypeOK
<1>2. /\ client' \in [Clients -> Tool]
      /\ \A c \in Clients : client'[c].todo = client[c].todo /\ client'[c].waits = client[c].waits
      /\ preferencesMutex' \in Clients \cup {None}
      /\ listening' \in BOOLEAN
      /\ fd' \in {0, fd}
  <2>1. CASE descriptor[n] = None
    BY <2>1 DEF LogoutComplete, TypeInv, TypeOK
  <2>2. CASE descriptor[n] # None
    <3>1. Answer(n, "logout", preferencesMutex)
      BY <2>2 DEF LogoutComplete
    <3>2. "logout" \in Answers /\ preferencesMutex \in Clients \cup {None}
      BY DEF Answers, Requests, TypeInv, TypeOK
    <3> QED
      BY <2>2, <3>1, <3>2, AnswerTypes
  <2> QED
    BY <2>1, <2>2
<1>3. Structure'
  BY <1>1, <1>2 DEF Structure, TypeInv, IsHome
<1>4. TypeOK'
  BY <1>1, <1>2 DEF TypeInv, TypeOK, discoveryVars
<1> QED
  BY <1>3, <1>4 DEF TypeInv

LEMMA SessionTypes ==
  ASSUME TypeInv, SessionStep
  PROVE  TypeInv'
<1>0. /\ UNCHANGED <<clientVars, socketVars, runLoop, preferencesMutex, discoveryVars>>
      /\ TypeInv' <=> TypeOK'
  <2>1. UNCHANGED <<clientVars, socketVars, runLoop, preferencesMutex, discoveryVars>>
    BY DEF SessionStep, ProcessQueuedLogin, SessionTimeout, PrepareForSystemSleep,
           PrepareForSystemSleepComplete, RestoreFromSystemSleep, storeVars
  <2> QED
    BY <2>1 DEF TypeInv, Structure, IsHome, clientVars, socketVars
<1>1. /\ store' \subseteq Items /\ preferences' \subseteq Items
      /\ active' \in BOOLEAN /\ queuedLogin' \in BOOLEAN
      /\ unmounting' \subseteq Descriptors \cup {0} /\ activeTargets' \in BOOLEAN
  <2>1. CASE LoginWithPortal
    <3>1. store' \subseteq Items /\ preferences' \subseteq Items /\ active' \in BOOLEAN
      BY <2>1 DEF LoginWithPortal, LoginCommon, WithAlias, Items, TypeInv, TypeOK
    <3> QED
      BY <2>1, <3>1
         DEF SessionStep, ProcessQueuedLogin, SessionTimeout, PrepareForSystemSleep, QueueLogin,
             PrepareForSystemSleepComplete, RestoreFromSystemSleep, TypeInv, TypeOK, storeVars
  <2>2. CASE SessionTimeout
    BY <2>2 DEF SessionTimeout, QueueLogin, TypeInv, TypeOK, Items
  <2>3. CASE PrepareForSystemSleep
    BY <2>3 DEF PrepareForSystemSleep, TypeInv, TypeOK, storeVars
  <2>4. CASE PrepareForSystemSleepComplete
    BY <2>4 DEF PrepareForSystemSleepComplete, TypeInv, TypeOK, storeVars
  <2>5. CASE ProcessQueuedLogin \/ RestoreFromSystemSleep
    <3>1. LoginWithPortal
      BY <2>5 DEF ProcessQueuedLogin, RestoreFromSystemSleep
    <3> QED
      BY <2>1, <3>1
  <2> QED
    BY <2>2, <2>3, <2>4, <2>5 DEF SessionStep
<1> QED
  BY <1>0, <1>1 DEF TypeInv, TypeOK, clientVars, socketVars, discoveryVars

LEMMA DiscoveryTypes ==
  ASSUME TypeInv, DiscoveryStep
  PROVE  TypeInv'
<1>0. UNCHANGED <<clientVars, socketVars, preferencesMutex, sessionVars>>
  BY DEF DiscoveryStep, LaunchDiscoveryThread, RunDiscovery, ProcessDiscoveryData, storeVars
<1>1. Structure'
  BY <1>0 DEF TypeInv, Structure, IsHome, clientVars, socketVars
<1>2. threads' \in 0 .. 2
  BY DEF DiscoveryStep, LaunchDiscoveryThread, RunDiscovery, ProcessDiscoveryData, TypeInv, TypeOK
<1>3. /\ runLoop' \in {"idle", "receive", "peek", "blocked"}
      /\ store' \subseteq Items /\ preferences' \subseteq Items
      /\ discoveryMutex' \in BOOLEAN /\ discoveryRecords' \in {None, "found", "freed"}
      /\ discoverySignal' \in BOOLEAN
  BY DEF DiscoveryStep, LaunchDiscoveryThread, RunDiscovery, ProcessDiscoveryData, TypeInv, TypeOK,
         storeVars, Items
<1> QED
  BY <1>0, <1>1, <1>2, <1>3 DEF TypeInv, TypeOK, clientVars, socketVars, sessionVars

LEMMA RestartTypes ==
  ASSUME TypeInv, DaemonRestarts
  PROVE  TypeInv'
<1>1. UNCHANGED <<clientVars, backlog, store, active>>
  BY DEF DaemonRestarts
<1>2. /\ descriptor' \in [Descriptors -> Connections \cup {None}]
      /\ fd' = 0 /\ fd' \in Descriptors \cup {0}
      /\ runLoop' \in {"idle", "receive", "peek", "blocked"}
      /\ preferencesMutex' \in Clients \cup {None} /\ preferences' \subseteq Items
      /\ threads' \in 0 .. 2 /\ discoveryRecords' \in {None, "found", "freed"}
      /\ unmounting' \subseteq Descriptors \cup {0}
  BY DEF DaemonRestarts, TypeInv, TypeOK
<1>3. /\ listening' \in BOOLEAN /\ readSignal' \in BOOLEAN /\ discoveryMutex' \in BOOLEAN
      /\ discoverySignal' \in BOOLEAN /\ activeTargets' \in BOOLEAN
  BY DEF DaemonRestarts
<1>4. queuedLogin' \in BOOLEAN
  <2> DEFINE known == "target" \in store
  <2>1. queuedLogin' \in {FALSE, known}
    BY DEF DaemonRestarts, AutoLogin
  <2>2. known \in BOOLEAN
    OBVIOUS
  <2> HIDE DEF known
  <2> QED
    BY <2>1, <2>2
<1>5. Structure'
  BY <1>1, <1>2 DEF TypeInv, Structure, IsHome, clientVars
<1> QED
  BY <1>1, <1>2, <1>3, <1>4, <1>5 DEF TypeInv, TypeOK, clientVars

LEMMA NextTypes ==
  ASSUME TypeInv, [Next]_vars
  PROVE  TypeInv'
<1>1. CASE UNCHANGED vars
  BY <1>1 DEF vars, TypeInv, TypeOK, Structure, IsHome, clientVars, socketVars, storeVars,
              discoveryVars, sessionVars
<1> QED
  BY <1>1, ToolTypes, SocketTypes, LogoutCompleteTypes, SessionTypes, DiscoveryTypes, RestartTypes
     DEF Next

\* Whatever the tools, the targets and the system do at the same time, every variable
\* of the daemon has its type: it never serves a connection that it does not have,
\* and nothing gets into the preferences but what was put there.
THEOREM TypeCorrect == Spec => []TypeOK
<1>1. Spec => []TypeInv
  BY InitTypes, NextTypes, PTL DEF Spec
<1>2. TypeInv => TypeOK
  BY DEF TypeInv
<1> QED
  BY <1>1, <1>2, PTL

-----------------------------------------------------------------------------
(* Discovery.                                                              *)

LEMMA DiscoveryKept ==
  ASSUME "longDiscovery" \notin Faults, TypeInv, DiscoveryIsLocked, [Next]_vars
  PROVE  DiscoveryIsLocked'
<1>1. ASSUME UNCHANGED discoveryVars
      PROVE  DiscoveryIsLocked'
  BY <1>1 DEF DiscoveryIsLocked, discoveryVars
<1>2. CASE DiscoveryStep
  BY <1>2 DEF DiscoveryStep, LaunchDiscoveryThread, RunDiscovery, ProcessDiscoveryData,
              DiscoveryIsLocked, TypeInv, TypeOK
<1>3. CASE DaemonRestarts
  BY <1>3 DEF DaemonRestarts, DiscoveryIsLocked
<1>4. ASSUME NEW n \in Descriptors, LogoutComplete(n)
      PROVE  DiscoveryIsLocked'
  BY <1>1, <1>4 DEF LogoutComplete
<1>5. CASE ServeClient
  BY <1>1, <1>5
     DEF ServeClient, AcceptConnection, ReadSignalled, NothingReceived, PeekNext, ServeRequest,
         LockAndSync, LockBlocks, UnlockAndSync, Release, IsTargetActive, UpdateDiscovery,
         LoginRequest, LogoutRequest, Handle
<1>6. CASE SessionStep
  BY <1>1, <1>6 DEF SessionStep, ProcessQueuedLogin, SessionTimeout, PrepareForSystemSleep,
     PrepareForSystemSleepComplete, RestoreFromSystemSleep
<1>7. ASSUME NEW c \in Clients, Connect(c) \/ ClientStep(c)
      PROVE  DiscoveryIsLocked'
  BY <1>1, <1>7 DEF ClientStep, Connect, Send, ReceiveAnswer, StopWaiting
<1>8. CASE UNCHANGED vars
  BY <1>1, <1>8 DEF vars
<1> QED
  BY <1>2, <1>3, <1>4, <1>5, <1>6, <1>7, <1>8 DEF Next

\* If a discovery ends before the next is due, one thread at a time discovers, and it
\* has the mutex, although the timer launches a thread when it did not get the mutex
\* (iSCSIDLaunchDiscoveryThread).
THEOREM OneDiscovery ==
  ASSUME "longDiscovery" \notin Faults
  PROVE  Spec => []DiscoveryIsLocked
<1>1. Init => DiscoveryIsLocked
  BY DEF Init, DiscoveryIsLocked
<1>2. TypeInv /\ DiscoveryIsLocked /\ [Next]_vars => DiscoveryIsLocked'
  BY DiscoveryKept
<1> QED
  BY <1>1, <1>2, InitTypes, NextTypes, PTL DEF Spec

-----------------------------------------------------------------------------
(* One tool at a time.                                                     *)

\* What can be left to ask of a command.
Stages == Commands \cup {<<>>, <<"unlock">>, <<"release">>, <<"query", "unlock">>,
                         <<"unlock", "update">>, <<"update">>}
AnswersTo(request) ==
    CASE request = "lock" -> {"lock", "denied"}
      [] request = "query" -> {"query", "active"}
      [] OTHER -> {request}

\* A tool that is not waiting has no answer, and one that is has at most one, its own.
InStage(tool) ==
    /\ tool.todo \in Stages
    /\ tool.todo = <<>> => tool = AtHome
    /\ tool.answers # <<>> =>
         tool.waits /\ \E a \in AnswersTo(Head(tool.todo)) : tool.answers = <<a>>

\* A connection has the tool's request in it as long as it is not answered.
Asked(tool) == [request |-> Head(tool.todo),
                prefs |-> IF Head(tool.todo) = "unlock" THEN tool.copy ELSE {}]
Talks(x, tool) ==
    /\ ~x.open => x.requests = <<>>
    /\ x.open => /\ tool.todo # <<>>
                 /\ ~tool.waits => x.requests = <<>>
                 /\ x.requests # <<>> =>
                      x.requests = <<Asked(tool)>> /\ tool.answers = <<>>
Waits(x, tool) == /\ Talks(x, tool) /\ x.open
                  /\ tool.todo \in Commands /\ tool.answers = <<>>
Unmounts(x, tool) == /\ x.open /\ x.requests = <<>>
                     /\ tool.todo = Logout /\ tool.waits /\ tool.answers = <<>>

\* The tool has locked the preferences and not unlocked them.
Holds(tool) == \/ Head(tool.todo) = "lock" /\ tool.answers = <<"lock">>
               \/ Head(tool.todo) \in {"unlock", "release"} /\ tool.answers = <<>>
               \/ Head(tool.todo) = "query"
Served == descriptor[fd].client
Holder == IF fd # 0 /\ descriptor[fd].open /\ Holds(client[Served]) THEN Served ELSE None

OneTool == \A c, d \in Clients : ~IsHome(c) /\ ~IsHome(d) => c = d
ToolsInStage == \A c \in Clients : InStage(client[c])
ServedTalks == /\ \A n \in Descriptors : n # fd => descriptor[n] = None
               /\ fd # 0 => Talks(descriptor[fd], client[Served])
BacklogWaits ==
    backlog # <<>> =>
        /\ Len(backlog) = 1
        /\ Waits(backlog[1], client[backlog[1].client])
        /\ fd # 0 => ~descriptor[fd].open
LogoutWaits ==
    /\ unmounting \subseteq {0, fd}
    /\ unmounting \ {0} # {} => fd # 0 /\ Unmounts(descriptor[fd], client[Served])
LockInv == /\ OneTool /\ ToolsInStage /\ ServedTalks /\ BacklogWaits /\ LogoutWaits
           /\ preferencesMutex = Holder

\* What LockInv looks at.
lockVars == <<client, backlog, descriptor, fd, preferencesMutex, unmounting>>

LEMMA SameLock ==
  ASSUME LockInv, UNCHANGED lockVars
  PROVE  LockInv'
BY DEF LockInv, OneTool, ToolsInStage, ServedTalks, BacklogWaits, LogoutWaits, Holder, Served,
       lockVars, IsHome

\* What is left of a command after its first request.
LEMMA StagesOf ==
  ASSUME NEW todo \in Stages
  PROVE  /\ todo \in Seq(Requests)
         /\ todo # <<>> => Head(todo) \in Requests /\ Tail(todo) \in Stages
         /\ Len(todo) = 1 => Head(todo) \notin {"lock", "query"}
         /\ todo # <<>> /\ Len(todo) # 1 /\ Head(todo) \in {"lock", "query"} =>
              Tail(todo) # <<>> /\ Head(Tail(todo)) \in {"unlock", "release", "query"}
         /\ todo # <<>> /\ Len(todo) # 1 /\ Head(todo) \notin {"lock", "query"} =>
              Tail(todo) = <<"update">>
         /\ todo # <<>> /\ Head(todo) = "logout" => todo = Logout
         /\ todo \in Commands => Head(todo) \in {"lock", "login", "logout"}
<1> DEFINE Fits(s) ==
         /\ s \in Seq(Requests)
         /\ s # <<>> => Head(s) \in Requests /\ Tail(s) \in Stages
         /\ Len(s) = 1 => Head(s) \notin {"lock", "query"}
         /\ s # <<>> /\ Len(s) # 1 /\ Head(s) \in {"lock", "query"} =>
              Tail(s) # <<>> /\ Head(Tail(s)) \in {"unlock", "release", "query"}
         /\ s # <<>> /\ Len(s) # 1 /\ Head(s) \notin {"lock", "query"} => Tail(s) = <<"update">>
         /\ s # <<>> /\ Head(s) = "logout" => s = Logout
         /\ s \in Commands => Head(s) \in {"lock", "login", "logout"}
<1>s. /\ <<"unlock">> \in Stages /\ <<"release">> \in Stages
      /\ <<"query", "unlock">> \in Stages /\ <<"unlock", "update">> \in Stages
      /\ <<"update">> \in Stages /\ <<>> \in Stages
  BY DEF Stages
<1>c. \A s \in Commands : Head(s) \in {"lock", "login", "logout"}
  BY DEF Commands, Modify, Refuse, Remove, ModifyDiscovery, Login, Logout
<1>1. Fits(<<>>)
  BY <1>c
<1>2. Fits(<<"unlock">>)
  BY <1>s, <1>c DEF Requests
<1>3. Fits(<<"release">>)
  BY <1>s, <1>c DEF Requests
<1>4. Fits(<<"query", "unlock">>)
  BY <1>s, <1>c DEF Requests
<1>5. Fits(<<"unlock", "update">>)
  BY <1>s, <1>c DEF Requests
<1>6. Fits(<<"update">>)
  BY <1>s, <1>c DEF Requests
<1>7. Fits(<<"lock", "unlock">>)
  BY <1>s DEF Requests
<1>8. Fits(<<"lock", "release">>)
  BY <1>s DEF Requests
<1>9. Fits(<<"lock", "query", "unlock">>)
  BY <1>s DEF Requests
<1>10. Fits(<<"lock", "unlock", "update">>)
  BY <1>s DEF Requests
<1>11. Fits(<<"login">>)
  BY <1>s DEF Requests
<1>12. Fits(<<"logout">>)
  BY <1>s DEF Requests, Logout
<1> HIDE DEF Fits
<1>13. Fits(todo)
  BY <1>1, <1>2, <1>3, <1>4, <1>5, <1>6, <1>7, <1>8, <1>9, <1>10, <1>11, <1>12
     DEF Stages, Commands, Modify, Refuse, Remove, ModifyDiscovery, Login, Logout
<1> QED
  BY <1>13 DEF Fits

\* A tool that is not at home is the only one, and what is connected is its own.
LEMMA TheTool ==
  ASSUME TypeInv, LockInv, NEW c \in Clients, ~IsHome(c)
  PROVE  /\ \A d \in Clients : d # c => client[d] = AtHome
         /\ fd # 0 /\ descriptor[fd].open => Served = c
         /\ backlog # <<>> => backlog[1].client = c /\ client[c].answers = <<>>
         /\ client[c] \in Tool /\ client[c].todo \in Stages /\ client[c].todo # <<>>
         /\ client[c].answers # <<>> =>
              \E a \in AnswersTo(Head(client[c].todo)) : client[c].answers = <<a>>
<1>1. \A d \in Clients : d # c => client[d] = AtHome
  BY DEF LockInv, OneTool, ToolsInStage, InStage, IsHome
<1>2. ASSUME fd # 0, descriptor[fd].open
      PROVE  Served = c
  <2>1. Served \in Clients /\ ~IsHome(Served)
    BY <1>2, ServedIsConnection DEF LockInv, ServedTalks, Talks, IsHome, Served, Connections
  <2> QED
    BY <2>1 DEF LockInv, OneTool
<1>3. ASSUME backlog # <<>>
      PROVE  backlog[1].client = c /\ client[c].answers = <<>>
  <2>1. backlog[1].client \in Clients
    <3>1. backlog[1] \in Connections
      BY <1>3 DEF TypeInv, TypeOK
    <3> QED
      BY <3>1 DEF Connections
  <2>2. /\ ~IsHome(backlog[1].client)
        /\ client[backlog[1].client].answers = <<>>
    BY <1>3 DEF LockInv, BacklogWaits, Waits, Talks, IsHome
  <2> QED
    BY <2>1, <2>2 DEF LockInv, OneTool
<1>4. client[c] \in Tool /\ client[c].todo \in Stages /\ client[c].todo # <<>>
  BY DEF TypeInv, TypeOK, LockInv, ToolsInStage, InStage, IsHome
<1>5. ASSUME client[c].answers # <<>>
      PROVE  \E a \in AnswersTo(Head(client[c].todo)) : client[c].answers = <<a>>
  BY <1>5 DEF LockInv, ToolsInStage, InStage
<1> QED
  BY <1>1, <1>2, <1>3, <1>4, <1>5

\* A tool goes home that has nothing to read and does not hold the lock.
LEMMA LeaveKeeps ==
  ASSUME TypeInv, LockInv, NEW c \in Clients, ~IsHome(c), Leave(c),
         backlog = <<>>, unmounting \subseteq {0},
         fd # 0 => descriptor[fd].requests = <<>>,
         fd # 0 /\ descriptor[fd].open => ~Holds(client[c]),
         UNCHANGED <<preferencesMutex, unmounting>>
  PROVE  LockInv'
<1>1. client' = [client EXCEPT ![c] = AtHome] /\ fd' = fd
  BY DEF Leave
<1>2. \A d \in Clients : client'[d] = AtHome
  BY <1>1, TheTool DEF TypeInv, TypeOK
<1>3. backlog' = <<>>
  BY DEF Leave
<1>4. /\ \A n \in Descriptors : n # fd => descriptor'[n] = None
      /\ fd # 0 => /\ descriptor'[fd].open = FALSE
                   /\ descriptor'[fd].requests = <<>>
                   /\ descriptor'[fd].client = descriptor[fd].client
  <2>1. descriptor' = [n \in Descriptors |-> Closed(descriptor[n], c)]
    BY DEF Leave
  <2>2. ASSUME NEW n \in Descriptors, n # fd
        PROVE  descriptor'[n] = None
    BY <2>1, <2>2 DEF Closed, Owns, LockInv, ServedTalks
  <2>3. ASSUME fd # 0
        PROVE  /\ descriptor'[fd].open = FALSE
               /\ descriptor'[fd].requests = <<>>
               /\ descriptor'[fd].client = descriptor[fd].client
    <3>1. /\ fd \in Descriptors /\ descriptor[fd] \in Connections /\ descriptor[fd] # None
          /\ descriptor[fd].open \in BOOLEAN
      BY <2>3, ServedIsConnection, NoneIsNoConnection DEF Connections
    <3>2. descriptor'[fd] = Closed(descriptor[fd], c)
      BY <2>1, <3>1
    <3>3. CASE descriptor[fd].open
      <4>1. descriptor'[fd] = [descriptor[fd] EXCEPT !.open = FALSE]
        BY <2>3, <3>1, <3>2, <3>3, TheTool DEF Closed, Owns, Served
      <4> QED
        BY <2>3, <3>1, <4>1 DEF Connections
    <3>4. CASE ~descriptor[fd].open
      BY <2>3, <3>1, <3>2, <3>4 DEF Closed, Owns
    <3> QED
      BY <3>3, <3>4
  <2> QED
    BY <2>2, <2>3
<1>5. OneTool' /\ ToolsInStage'
  BY <1>2 DEF OneTool, ToolsInStage, InStage, IsHome, AtHome, Stages
<1>6. ServedTalks' /\ BacklogWaits' /\ LogoutWaits'
  BY <1>1, <1>3, <1>4 DEF ServedTalks, Talks, BacklogWaits, LogoutWaits, Served
<1>7. preferencesMutex = None
  BY TheTool DEF LockInv, Holder
<1> QED
  BY <1>1, <1>4, <1>5, <1>6, <1>7 DEF LockInv, Holder, Served

\* A tool goes on with what is left of its command.
LEMMA GoOnKeeps ==
  ASSUME TypeInv, LockInv, NEW c \in Clients, ~IsHome(c), NEW answer,
         backlog = <<>>, unmounting \subseteq {0},
         fd # 0 => descriptor[fd].requests = <<>>,
         GoOn(c, answer), Len(client[c].todo) # 1,
         client[c].answers = <<>> \/ \E a : client[c].answers = <<a>>,
         fd # 0 /\ descriptor[fd].open =>
            (Holds(client[c]) <=> Head(client[c].todo) \in {"lock", "query"}),
         UNCHANGED <<preferencesMutex, unmounting>>
  PROVE  LockInv'
<1> DEFINE tool == [todo |-> Tail(client[c].todo), waits |-> FALSE, copy |-> NextCopy(c, answer),
                    answers |-> SubSeq(client[c].answers, 2, Len(client[c].answers))]
<1>1. client' = [client EXCEPT ![c] = tool] /\ UNCHANGED socketVars
  BY DEF GoOn
<1>2. SubSeq(client[c].answers, 2, Len(client[c].answers)) = <<>>
  <2>1. CASE client[c].answers = <<>>
    <3>1. Len(client[c].answers) = 0
      BY <2>1
    <3> QED
      BY <3>1, SubSeqEmpty
  <2>2. ASSUME NEW a, client[c].answers = <<a>>
        PROVE  SubSeq(client[c].answers, 2, Len(client[c].answers)) = <<>>
    <3>1. Len(client[c].answers) = 1
      BY <2>2
    <3> QED
      BY <3>1, SubSeqEmpty
  <2> QED
    BY <2>1, <2>2
<1>3. /\ tool.todo = Tail(client[c].todo) /\ tool.waits = FALSE /\ tool.answers = <<>>
  BY <1>2
<1> HIDE DEF tool
<1>4. /\ client[c].todo \in Stages /\ client[c].todo # <<>>
      /\ tool.todo \in Stages /\ tool.todo # <<>>
      /\ Holds(tool) <=> Head(client[c].todo) \in {"lock", "query"}
  <2>1. client[c].todo \in Stages /\ client[c].todo # <<>>
    BY TheTool
  <2>2. CASE Head(client[c].todo) \in {"lock", "query"}
    BY <1>3, <2>1, <2>2, StagesOf DEF Holds
  <2>3. CASE Head(client[c].todo) \notin {"lock", "query"}
    <3>1. tool.todo = <<"update">> /\ tool.todo \in Stages
      BY <1>3, <2>1, <2>3, StagesOf
    <3>2. tool.todo # <<>> /\ Head(tool.todo) = "update"
      BY <3>1
    <3> QED
      BY <1>3, <2>1, <2>3, <3>1, <3>2 DEF Holds
  <2> QED
    BY <2>2, <2>3, <2>1
<1>5. /\ client'[c] = tool
      /\ \A d \in Clients : d # c => client'[d] = AtHome
  BY <1>1, TheTool DEF TypeInv, TypeOK
<1>6. OneTool' /\ ToolsInStage'
  <2>1. InStage(tool) /\ InStage(AtHome)
    BY <1>3, <1>4 DEF InStage, AtHome, Stages
  <2> QED
    BY <1>4, <1>5, <2>1 DEF OneTool, ToolsInStage, IsHome, AtHome
<1>7. fd # 0 => Served \in Clients /\ (descriptor[fd].open => Served = c)
  BY ServedIsConnection, TheTool DEF Served, Connections
<1>8. ServedTalks'
  BY <1>1, <1>3, <1>4, <1>5, <1>7 DEF LockInv, ServedTalks, Talks, socketVars, Served
<1>9. BacklogWaits' /\ LogoutWaits'
  BY <1>1 DEF BacklogWaits, LogoutWaits, socketVars
<1>10. preferencesMutex' = Holder'
  BY <1>1, <1>4, <1>5, <1>7 DEF LockInv, Holder, Served, socketVars
<1> QED
  BY <1>6, <1>8, <1>9, <1>10 DEF LockInv

\* Nobody is connected when all are at home.
LEMMA NobodyConnected ==
  ASSUME TypeInv, LockInv, \A c \in Clients : IsHome(c)
  PROVE  /\ \A c \in Clients : client[c] = AtHome
         /\ backlog = <<>>
         /\ fd # 0 => ~descriptor[fd].open
         /\ unmounting \subseteq {0}
         /\ preferencesMutex = None
<1>1. \A c \in Clients : client[c] = AtHome
  BY DEF LockInv, ToolsInStage, InStage, IsHome
<1>2. backlog = <<>>
  <2>1. SUFFICES ASSUME backlog # <<>> PROVE FALSE
    OBVIOUS
  <2>2. backlog[1] \in Connections
    BY <2>1 DEF TypeInv, TypeOK
  <2> QED
    BY <2>1, <2>2 DEF LockInv, BacklogWaits, Waits, Talks, IsHome, Connections
<1>3. fd # 0 => ~descriptor[fd].open
  BY ServedIsConnection DEF LockInv, ServedTalks, Talks, IsHome, Served, Connections
<1> QED
  BY <1>1, <1>2, <1>3 DEF LockInv, LogoutWaits, Unmounts, Holder

LEMMA ConnectKeeps ==
  ASSUME "overlap" \notin Faults, TypeInv, LockInv, NEW c \in Clients, Connect(c)
  PROVE  LockInv'
<1>1. \A d \in Clients : IsHome(d)
  BY DEF Connect
<1>2. PICK todo \in Commands : client' = [client EXCEPT ![c].todo = todo, ![c].copy = store]
  BY DEF Connect
<1> DEFINE tool == [AtHome EXCEPT !.todo = todo, !.copy = store]
<1>3. /\ client'[c] = tool
      /\ \A d \in Clients : d # c => client'[d] = AtHome
  BY <1>1, <1>2, NobodyConnected DEF TypeInv, TypeOK
<1>4. /\ tool.todo \in Commands /\ tool.todo \in Stages /\ tool.todo # <<>>
      /\ tool.waits = FALSE /\ tool.answers = <<>>
  BY CommandsAreLists DEF AtHome, Stages
<1> HIDE DEF tool
<1>5. /\ backlog' = <<Connection(c)>>
      /\ UNCHANGED <<descriptor, fd, unmounting, preferencesMutex>>
  <2>1. backlog' = Append(backlog, Connection(c)) /\ backlog = <<>>
    BY <1>1, NobodyConnected DEF Connect
  <2>2. backlog' = <<Connection(c)>>
    BY <2>1
  <2> QED
    BY <2>2 DEF Connect, sessionVars, storeVars
<1>6. OneTool' /\ ToolsInStage'
  <2>1. InStage(tool) /\ InStage(AtHome)
    BY <1>4 DEF InStage, AtHome, Stages
  <2> QED
    BY <1>3, <1>4, <2>1 DEF OneTool, ToolsInStage, IsHome, AtHome
<1>7. fd # 0 => ~descriptor[fd].open /\ descriptor[fd].requests = <<>>
  BY <1>1, NobodyConnected DEF LockInv, ServedTalks, Talks
<1>8. ServedTalks'
  BY <1>5, <1>7 DEF LockInv, ServedTalks, Talks
<1>9. BacklogWaits'
  <2>1. /\ Len(backlog') = 1 /\ backlog'[1] = Connection(c)
    BY <1>5
  <2>2. Waits(Connection(c), tool)
    BY <1>4 DEF Waits, Talks, Connection
  <2> QED
    BY <1>3, <1>5, <1>7, <2>1, <2>2 DEF BacklogWaits, Connection
<1>10. LogoutWaits' /\ preferencesMutex' = Holder'
  BY <1>1, <1>5, <1>7, NobodyConnected DEF LogoutWaits, Holder
<1> QED
  BY <1>6, <1>8, <1>9, <1>10 DEF LockInv

LEMMA SendKeeps ==
  ASSUME TypeInv, LockInv, NEW c \in Clients, Send(c)
  PROVE  LockInv'
<1>1. /\ ~IsHome(c) /\ ~client[c].waits /\ client[c].answers = <<>>
      /\ UNCHANGED <<preferencesMutex, unmounting>>
  BY DEF Send, LockInv, ToolsInStage, InStage, storeVars, sessionVars
<1>2. unmounting \subseteq {0}
  BY <1>1, TheTool DEF LockInv, LogoutWaits, Unmounts
<1>3. CASE ~Connected(c)
  <2>1. backlog = <<>>
    <3>1. SUFFICES ASSUME backlog # <<>> PROVE FALSE
      OBVIOUS
    <3>2. 1 \in DOMAIN backlog /\ backlog[1] \in Connections
      BY <3>1 DEF TypeInv, TypeOK
    <3>3. Owns(backlog[1], c)
      BY <1>1, <3>1, <3>2, TheTool, NoneIsNoConnection DEF Owns, LockInv, BacklogWaits, Waits
    <3> QED
      BY <1>3, <3>2, <3>3 DEF Connected
  <2>2. fd # 0 => ~descriptor[fd].open
    BY <1>1, <1>3, TheTool, ServedIsConnection, NoneIsNoConnection DEF Connected, Owns, Served
  <2>3. fd # 0 => descriptor[fd].requests = <<>>
    BY <2>2 DEF LockInv, ServedTalks, Talks
  <2>4. Leave(c)
    BY <1>3 DEF Send
  <2> QED
    BY <1>1, <1>2, <2>1, <2>2, <2>3, <2>4, LeaveKeeps
<1>4. CASE Connected(c)
  <2> DEFINE tool == [client[c] EXCEPT !.waits = TRUE]
             message == Asked(tool)
  <2>1. /\ client[c] \in Tool /\ client[c].todo \in Stages /\ client[c].todo # <<>>
    BY <1>1, TheTool
  <2>2. /\ tool.todo = client[c].todo /\ tool.copy = client[c].copy
        /\ tool.waits = TRUE /\ tool.answers = <<>>
    BY <1>1, <2>1 DEF Tool
  <2>3. /\ client' = [client EXCEPT ![c] = tool]
        /\ backlog' = [i \in DOMAIN backlog |-> Written(backlog[i], c, message)]
        /\ descriptor' = [n \in Descriptors |-> Written(descriptor[n], c, message)]
        /\ fd' = fd
    <3>1. message = [request |-> Head(client[c].todo),
                     prefs |-> IF Head(client[c].todo) = "unlock" THEN client[c].copy ELSE {}]
      BY <2>2 DEF Asked
    <3>2. client' = [client EXCEPT ![c] = tool]
      BY <1>4 DEF Send, TypeInv, TypeOK
    <3> HIDE DEF tool, message
    <3> QED
      BY <1>4, <3>1, <3>2 DEF Send
  <2>4. /\ client'[c] = tool
        /\ \A d \in Clients : d # c => client'[d] = AtHome
    BY <1>1, <2>3, TheTool DEF TypeInv, TypeOK
  <2>5. message = Asked(tool)
    OBVIOUS
  <2> HIDE DEF tool, message
  <2>6. OneTool' /\ ToolsInStage'
    <3>1. InStage(tool) /\ InStage(AtHome)
      BY <2>1, <2>2 DEF InStage, AtHome, Stages
    <3> QED
      BY <2>1, <2>2, <2>4, <3>1 DEF OneTool, ToolsInStage, IsHome, AtHome
  <2>7. ASSUME NEW x \in Connections, x.open => x.client = c, Talks(x, client[c])
        PROVE  /\ Written(x, c, message).open = x.open
               /\ Written(x, c, message).client = x.client
               /\ Talks(Written(x, c, message), tool)
    <3>1. CASE x.open
      <4>1. x.requests = <<>> /\ x # None
        BY <1>1, <2>7, <3>1, NoneIsNoConnection DEF Talks
      <4>2. Append(x.requests, message) = <<message>>
        BY <4>1
      <4>3. Written(x, c, message) = [x EXCEPT !.requests = <<message>>]
        BY <2>7, <3>1, <4>1, <4>2 DEF Written, Owns
      <4>4. /\ Written(x, c, message).open = x.open
            /\ Written(x, c, message).client = x.client
            /\ Written(x, c, message).requests = <<message>>
        BY <2>7, <4>3 DEF Connections
      <4> QED
        BY <2>1, <2>2, <2>5, <3>1, <4>4 DEF Talks
    <3>2. CASE ~x.open
      BY <2>7, <3>2 DEF Written, Owns, Talks
    <3> QED
      BY <3>1, <3>2
  <2>8. ServedTalks' /\ (fd # 0 => /\ descriptor'[fd].open = descriptor[fd].open
                                   /\ descriptor'[fd].client = Served)
    <3>1. \A n \in Descriptors : n # fd => descriptor'[n] = None
      BY <2>3 DEF Written, Owns, LockInv, ServedTalks
    <3>2. ASSUME fd # 0
          PROVE  /\ Talks(descriptor'[fd], tool)
                 /\ descriptor'[fd].open = descriptor[fd].open
                 /\ descriptor'[fd].client = Served
                 /\ ~descriptor[fd].open => descriptor'[fd].requests = <<>>
      <4>1. fd \in Descriptors /\ descriptor[fd] \in Connections
        BY <3>2, ServedIsConnection
      <4>2. descriptor[fd].open => Served = c
        BY <1>1, <3>2, TheTool
      <4>3. Talks(descriptor[fd], client[c])
        BY <3>2, <4>2 DEF LockInv, ServedTalks, Talks
      <4>4. descriptor'[fd] = Written(descriptor[fd], c, message)
        BY <2>3, <4>1
      <4> QED
        BY <2>7, <4>1, <4>2, <4>3, <4>4 DEF Served, Talks
    <3>3. ASSUME fd # 0
          PROVE  Talks(descriptor'[fd], client'[Served])
      <4>1. CASE descriptor[fd].open
        BY <1>1, <2>4, <3>2, <3>3, <4>1, TheTool
      <4>2. CASE ~descriptor[fd].open
        BY <3>2, <3>3, <4>2 DEF Talks
      <4> QED
        BY <4>1, <4>2
    <3> QED
      BY <2>3, <3>1, <3>2, <3>3 DEF ServedTalks, Served
  <2>9. BacklogWaits'
    <3>1. CASE backlog = <<>>
      <4>1. DOMAIN backlog = {}
        BY <3>1
      <4>2. DOMAIN backlog' = {} /\ backlog' \in Seq(Connections)
        BY <2>3, <4>1, NextTypes DEF Next, ClientStep, TypeInv, TypeOK
      <4>3. backlog' = <<>>
        BY <4>2
      <4> QED
        BY <4>3 DEF BacklogWaits
    <3>2. CASE backlog # <<>>
      <4>1. /\ backlog[1] \in Connections /\ Len(backlog) = 1 /\ DOMAIN backlog = {1}
            /\ backlog[1].client = c /\ Waits(backlog[1], client[c])
            /\ fd # 0 => ~descriptor[fd].open
        BY <1>1, <3>2, TheTool DEF TypeInv, TypeOK, LockInv, BacklogWaits
      <4>2. /\ Written(backlog[1], c, message).open
            /\ Written(backlog[1], c, message).client = c
            /\ Talks(Written(backlog[1], c, message), tool)
        BY <2>7, <4>1 DEF Waits
      <4>3. backlog'[1] = Written(backlog[1], c, message) /\ DOMAIN backlog' = {1}
        BY <2>3, <4>1
      <4>4. Len(backlog') = 1
        <5>1. backlog' \in Seq(Connections)
          BY NextTypes DEF Next, ClientStep, TypeInv, TypeOK
        <5> QED
          BY <4>3, <5>1
      <4>5. tool.todo \in Commands
        BY <2>2, <4>1 DEF Waits
      <4> QED
        BY <2>2, <2>3, <2>4, <2>8, <4>1, <4>2, <4>3, <4>4, <4>5 DEF BacklogWaits, Waits
    <3> QED
      BY <3>1, <3>2
  <2>10. LogoutWaits'
    BY <1>1, <1>2 DEF LogoutWaits
  <2>11. preferencesMutex' = Holder'
    <3>1. Holds(tool) <=> Holds(client[c])
      BY <1>1, <2>2 DEF Holds
    <3> QED
      BY <1>1, <2>3, <2>4, <2>8, <3>1, TheTool DEF LockInv, Holder, Served
  <2> QED
    BY <2>6, <2>8, <2>9, <2>10, <2>11 DEF LockInv
<1> QED
  BY <1>3, <1>4

\* A tool reads its answer, or is disconnected and does not wait any longer.
LEMMA AnsweredKeeps ==
  ASSUME "impatient" \notin Faults, TypeInv, LockInv, NEW c \in Clients,
         ReceiveAnswer(c) \/ StopWaiting(c)
  PROVE  LockInv'
<1> DEFINE request == Head(client[c].todo)
<1>1. /\ client[c].waits /\ ~IsHome(c)
      /\ UNCHANGED <<preferencesMutex, unmounting>>
  BY DEF ReceiveAnswer, StopWaiting, storeVars, sessionVars, TypeInv, Structure
<1>2. client[c].todo \in Stages /\ client[c].todo # <<>> /\ client[c] \in Tool
  BY <1>1, TheTool
<1>3. CASE ReceiveAnswer(c)
  <2>1. client[c].answers # <<>>
    BY <1>3 DEF ReceiveAnswer
  <2>2. PICK a \in AnswersTo(request) : client[c].answers = <<a>>
    BY <1>1, <2>1, TheTool
  <2>3. backlog = <<>> /\ unmounting \subseteq {0}
    BY <1>1, <2>1, TheTool DEF LockInv, LogoutWaits, Unmounts
  <2>4. fd # 0 => descriptor[fd].requests = <<>>
    BY <1>1, <2>1, TheTool DEF LockInv, ServedTalks, Talks
  <2>5. Holds(client[c]) <=> request = "query" \/ a = "lock"
    <3>1. Holds(client[c]) <=> (request = "lock" /\ a = "lock") \/ request = "query"
      BY <2>1, <2>2 DEF Holds
    <3>2. request # "lock" => request = "query" \/ a = request
      BY <2>2 DEF AnswersTo
    <3>3. request = "query" => a # "lock"
      BY <2>2 DEF AnswersTo
    <3> QED
      BY <3>1, <3>2, <3>3
  <2>6. CASE request = "lock" /\ a # "lock"
    <3>1. Leave(c)
      BY <1>3, <2>2, <2>6 DEF ReceiveAnswer
    <3> QED
      BY <1>1, <2>3, <2>4, <2>5, <2>6, <3>1, LeaveKeeps
  <2>7. CASE ~(request = "lock" /\ a # "lock")
    <3>1. PICK answer : GoOn(c, answer)
      BY <1>3, <2>2, <2>7 DEF ReceiveAnswer
    <3>2. CASE Len(client[c].todo) = 1
      <4>1. Leave(c)
        BY <3>1, <3>2 DEF GoOn
      <4>2. request \notin {"lock", "query"}
        BY <1>2, <3>2, StagesOf
      <4>3. ~Holds(client[c])
        BY <2>2, <2>5, <4>2 DEF AnswersTo
      <4> QED
        BY <1>1, <2>3, <2>4, <4>1, <4>3, LeaveKeeps
    <3>3. CASE Len(client[c].todo) # 1
      <4>1. Holds(client[c]) <=> request \in {"lock", "query"}
        BY <2>2, <2>5, <2>7 DEF AnswersTo
      <4> QED
        BY <1>1, <2>2, <2>3, <2>4, <3>1, <3>3, <4>1, GoOnKeeps
    <3> QED
      BY <3>2, <3>3
  <2> QED
    BY <2>6, <2>7
<1>4. CASE StopWaiting(c)
  <2>1. ~Connected(c) /\ client[c].answers = <<>>
    BY <1>4 DEF StopWaiting
  <2>2. backlog = <<>>
    <3>1. SUFFICES ASSUME backlog # <<>> PROVE FALSE
      OBVIOUS
    <3>2. 1 \in DOMAIN backlog /\ backlog[1] \in Connections
      BY <3>1 DEF TypeInv, TypeOK
    <3>3. Owns(backlog[1], c)
      BY <1>1, <3>1, <3>2, TheTool, NoneIsNoConnection DEF Owns, LockInv, BacklogWaits, Waits
    <3> QED
      BY <2>1, <3>2, <3>3 DEF Connected
  <2>3. fd # 0 => ~descriptor[fd].open
    BY <1>1, <2>1, TheTool, ServedIsConnection, NoneIsNoConnection DEF Connected, Owns, Served
  <2>4. /\ fd # 0 => descriptor[fd].requests = <<>>
        /\ unmounting \subseteq {0}
    BY <2>3 DEF LockInv, ServedTalks, Talks, LogoutWaits, Unmounts
  <2>5. CASE Leave(c)
    BY <1>1, <2>2, <2>3, <2>4, <2>5, LeaveKeeps
  <2>6. CASE ~Leave(c)
    <3>1. GoOn(c, request) /\ Len(client[c].todo) # 1
      BY <1>4, <2>6 DEF StopWaiting, GoOn
    <3> QED
      BY <1>1, <2>1, <2>2, <2>3, <2>4, <3>1, GoOnKeeps
  <2> QED
    BY <2>5, <2>6
<1> QED
  BY <1>3, <1>4

\* The connection that waited is served.
LEMMA AcceptKeeps ==
  ASSUME TypeInv, LockInv, AcceptConnection
  PROVE  LockInv'
<1> DEFINE n == CHOOSE m \in Descriptors : m # fd
<1>1. n \in Descriptors /\ n # fd /\ n # 0
  BY DEF Descriptors
<1>2. /\ descriptor' = [m \in Descriptors |-> IF m = n THEN Head(backlog) ELSE None]
      /\ fd' = n /\ backlog' = Tail(backlog)
      /\ UNCHANGED <<client, unmounting, preferencesMutex>>
  BY DEF AcceptConnection, clientVars, storeVars, sessionVars
<1> HIDE DEF n
<1>3. backlog # <<>> /\ Head(backlog) = backlog[1] /\ backlog \in Seq(Connections)
  BY DEF AcceptConnection, TypeInv, TypeOK
<1>4. /\ Waits(backlog[1], client[backlog[1].client]) /\ Len(backlog) = 1
      /\ fd # 0 => ~descriptor[fd].open
  BY <1>3 DEF LockInv, BacklogWaits
<1>5. unmounting \subseteq {0} /\ preferencesMutex = None
  BY <1>4 DEF LockInv, LogoutWaits, Unmounts, Holder
<1>6. backlog' = <<>>
  <2>1. backlog' = Tail(backlog) /\ Len(backlog) = 1
    BY <1>2, <1>4
  <2> QED
    BY <1>3, <2>1
<1>7. descriptor'[n] = backlog[1] /\ \A m \in Descriptors : m # n => descriptor'[m] = None
  BY <1>1, <1>2, <1>3
<1>8. ~Holds(client[backlog[1].client])
  <2>1. Head(client[backlog[1].client].todo) \in {"lock", "login", "logout"}
    BY <1>4, StagesOf DEF Waits, Stages
  <2>2. client[backlog[1].client].answers # <<"lock">>
    BY <1>4 DEF Waits
  <2> QED
    BY <2>1, <2>2 DEF Holds
<1>9. OneTool' /\ ToolsInStage'
  BY <1>2 DEF LockInv, OneTool, ToolsInStage, IsHome
<1>10. ServedTalks' /\ BacklogWaits' /\ LogoutWaits'
  BY <1>1, <1>2, <1>4, <1>5, <1>6, <1>7
     DEF ServedTalks, Waits, BacklogWaits, LogoutWaits, Served
<1>11. Holder' = None
  BY <1>2, <1>7, <1>8 DEF Holder, Served
<1> QED
  BY <1>2, <1>5, <1>9, <1>10, <1>11 DEF LockInv

\* The request that is served: what the only tool asked for and waits for.
LEMMA TheRequest ==
  ASSUME TypeInv, LockInv, fd # 0, HasRequest
  PROVE  /\ Served \in Clients /\ ~IsHome(Served) /\ descriptor[fd].open
         /\ fd \in Descriptors /\ descriptor[fd] \in Connections
         /\ descriptor[fd].requests = <<Asked(client[Served])>>
         /\ Request = Asked(client[Served])
         /\ Request.request = Head(client[Served].todo)
         /\ client[Served].waits /\ client[Served].answers = <<>>
         /\ backlog = <<>> /\ unmounting \subseteq {0}
<1>1. fd \in Descriptors /\ descriptor[fd] \in Connections /\ Served \in Clients
  BY ServedIsConnection DEF Served, Connections
<1>2. /\ descriptor[fd].open /\ client[Served].todo # <<>> /\ client[Served].waits
      /\ descriptor[fd].requests = <<Asked(client[Served])>>
      /\ client[Served].answers = <<>>
  BY DEF LockInv, ServedTalks, Talks, HasRequest
<1>3. Request = Asked(client[Served])
  BY <1>2 DEF Request
<1>4. backlog = <<>> /\ unmounting \subseteq {0}
  BY <1>2 DEF LockInv, BacklogWaits, LogoutWaits, Unmounts, HasRequest
<1> QED
  BY <1>1, <1>2, <1>3, <1>4 DEF Asked, IsHome

\* What a tool is that has its answer.
Answered(answer) == [client[Served] EXCEPT !.answers = <<answer>>]

LEMMA AnsweredTool ==
  ASSUME TypeInv, LockInv, fd # 0, Served \in Clients, client[Served].waits,
         client[Served].answers = <<>>, NEW answer \in AnswersTo(Head(client[Served].todo))
  PROVE  /\ Answered(answer).todo = client[Served].todo
         /\ Answered(answer).waits = client[Served].waits
         /\ Answered(answer).copy = client[Served].copy
         /\ Answered(answer).answers = <<answer>>
         /\ InStage(Answered(answer)) /\ client[Served].todo # <<>>
         /\ Append(client[Served].answers, answer) = <<answer>>
<1>1. client[Served] \in Tool /\ client[Served].todo # <<>>
  BY DEF TypeInv, TypeOK, Structure, IsHome
<1>2. /\ Answered(answer).todo = client[Served].todo
      /\ Answered(answer).waits = client[Served].waits
      /\ Answered(answer).copy = client[Served].copy
      /\ Answered(answer).answers = <<answer>>
  BY <1>1 DEF Answered, Tool
<1>3. InStage(Answered(answer))
  BY <1>1, <1>2 DEF LockInv, ToolsInStage, InStage
<1>4. Append(client[Served].answers, answer) = <<answer>>
  OBVIOUS
<1> QED
  BY <1>1, <1>2, <1>3, <1>4

LEMMA ReplyKeeps ==
  ASSUME TypeInv, LockInv, fd # 0, NEW request, Handle(request),
         NEW answer \in AnswersTo(request), NEW lock, Reply(answer, lock),
         lock = IF Holds(Answered(answer)) THEN Served ELSE None,
         UNCHANGED unmounting
  PROVE  LockInv'
<1>1. /\ Served \in Clients /\ ~IsHome(Served) /\ descriptor[fd].open
      /\ fd \in Descriptors /\ descriptor[fd] \in Connections
      /\ descriptor[fd].requests = <<Asked(client[Served])>>
      /\ request = Head(client[Served].todo)
      /\ client[Served].waits /\ client[Served].answers = <<>>
      /\ backlog = <<>> /\ unmounting \subseteq {0}
  BY TheRequest DEF Handle
<1> DEFINE tool == Answered(answer)
<1>2. /\ tool.todo = client[Served].todo /\ tool.waits /\ tool.answers = <<answer>>
      /\ InStage(tool) /\ tool.todo # <<>>
  BY <1>1, AnsweredTool
<1>3. /\ client' = [client EXCEPT ![Served] = tool]
      /\ preferencesMutex' = lock /\ fd' = fd /\ backlog' = <<>>
  BY <1>1, AnsweredTool DEF Reply, Answer, Handle, Served, Answered, TypeInv, TypeOK
<1>4. /\ \A n \in Descriptors : n # fd => descriptor'[n] = None
      /\ descriptor'[fd].requests = <<>>
      /\ descriptor'[fd].open /\ descriptor'[fd].client = Served
  <2>1. descriptor' = [descriptor EXCEPT ![fd] = [descriptor[fd] EXCEPT !.requests = Tail(@)]]
    BY <1>1 DEF Handle, TypeInv, TypeOK
  <2>2. Tail(descriptor[fd].requests) = <<>>
    BY <1>1
  <2> QED
    BY <1>1, <2>1, <2>2 DEF TypeInv, TypeOK, LockInv, ServedTalks, Connections, Served
<1> HIDE DEF tool
<1>5. /\ client'[Served] = tool
      /\ \A d \in Clients : d # Served => client'[d] = AtHome
  BY <1>1, <1>3, TheTool DEF TypeInv, TypeOK
<1>6. OneTool' /\ ToolsInStage'
  <2>1. InStage(AtHome)
    BY DEF InStage, AtHome, Stages
  <2> QED
    BY <1>2, <1>5, <2>1 DEF OneTool, ToolsInStage, IsHome, AtHome
<1>7. ServedTalks' /\ BacklogWaits' /\ LogoutWaits'
  BY <1>1, <1>2, <1>3, <1>4, <1>5 DEF ServedTalks, Talks, BacklogWaits, LogoutWaits, Served
<1>8. preferencesMutex' = Holder'
  BY <1>3, <1>4, <1>5 DEF Holder, Served, tool
<1> QED
  BY <1>6, <1>7, <1>8 DEF LockInv

\* Who holds the lock when a request is served.
LEMMA HolderOfRequest ==
  ASSUME TypeInv, LockInv, fd # 0, NEW request, Handle(request),
         NEW answer \in AnswersTo(request)
  PROVE  /\ request \in {"unlock", "release", "query"} => preferencesMutex = Served
         /\ request \notin {"unlock", "release", "query"} => preferencesMutex = None
         /\ Holds(Answered(answer)) <=> request = "query" \/ answer = "lock"
<1>1. /\ Served \in Clients /\ ~IsHome(Served) /\ descriptor[fd].open
      /\ request = Head(client[Served].todo)
      /\ client[Served].waits /\ client[Served].answers = <<>>
  BY TheRequest DEF Handle
<1>2. Holds(client[Served]) <=> request \in {"unlock", "release", "query"}
  <2>1. client[Served].answers # <<"lock">>
    BY <1>1
  <2> QED
    BY <1>1, <2>1 DEF Holds
<1>3. /\ Answered(answer).todo = client[Served].todo
      /\ Answered(answer).answers = <<answer>> /\ <<answer>> # <<>>
  BY <1>1, AnsweredTool
<1>4. Holds(Answered(answer)) <=> request = "query" \/ (request = "lock" /\ answer = "lock")
  <2>1. <<answer>> = <<"lock">> <=> answer = "lock"
    OBVIOUS
  <2> QED
    BY <1>1, <1>3, <2>1 DEF Holds
<1>5. request # "lock" /\ request # "query" => answer # "lock"
  BY DEF AnswersTo
<1> QED
  BY <1>1, <1>2, <1>4, <1>5 DEF LockInv, Holder

LEMMA RequestKeeps ==
  ASSUME TypeInv, LockInv, fd # 0, ServeRequest
  PROVE  LockInv'
<1>1. CASE LockAndSync
  <2>1. Handle("lock") /\ UNCHANGED unmounting
    BY <1>1 DEF LockAndSync, sessionVars
  <2>2. "lock" \in AnswersTo("lock") /\ "denied" \in AnswersTo("lock")
    BY DEF AnswersTo
  <2>3. /\ preferencesMutex = None /\ Holds(Answered("lock")) /\ ~Holds(Answered("denied"))
    BY <2>1, <2>2, HolderOfRequest
  <2>4. CASE Reply("lock", descriptor[fd].client)
    BY <2>1, <2>2, <2>3, <2>4, ReplyKeeps DEF Served
  <2>5. CASE Reply("denied", preferencesMutex)
    BY <2>1, <2>2, <2>3, <2>5, ReplyKeeps
  <2> QED
    BY <1>1, <2>4, <2>5 DEF LockAndSync
<1>2. CASE LockBlocks
  BY <1>2, SameLock DEF LockBlocks, lockVars, clientVars, socketVars, storeVars, sessionVars
<1>3. CASE UnlockAndSync \/ Release
  <2>1. PICK request \in {"unlock", "release"} :
          Handle(request) /\ Reply(request, None) /\ UNCHANGED unmounting
    BY <1>3 DEF UnlockAndSync, Release, sessionVars
  <2>2. request \in AnswersTo(request)
    BY DEF AnswersTo
  <2>3. ~Holds(Answered(request))
    BY <2>1, <2>2, HolderOfRequest
  <2> QED
    BY <2>1, <2>2, <2>3, ReplyKeeps
<1>4. CASE IsTargetActive
  <2>1. /\ Handle("query") /\ UNCHANGED unmounting
        /\ Reply("query", preferencesMutex) \/ Reply("active", preferencesMutex)
    BY <1>4 DEF IsTargetActive, sessionVars
  <2>2. "query" \in AnswersTo("query") /\ "active" \in AnswersTo("query")
    BY DEF AnswersTo
  <2>3. /\ preferencesMutex = Served /\ Holds(Answered("query")) /\ Holds(Answered("active"))
    BY <2>1, <2>2, HolderOfRequest
  <2> QED
    BY <2>1, <2>2, <2>3, ReplyKeeps
<1>5. CASE UpdateDiscovery \/ LoginRequest \/ (LogoutRequest /\ ~active)
  <2>1. PICK request \in {"update", "login", "logout"} :
          /\ Handle(request) /\ Reply(request, preferencesMutex) /\ UNCHANGED unmounting
    BY <1>5 DEF UpdateDiscovery, LoginRequest, LogoutRequest, sessionVars
  <2>2. request \in AnswersTo(request)
    BY DEF AnswersTo
  <2>3. /\ preferencesMutex = None /\ ~Holds(Answered(request))
    BY <2>1, <2>2, HolderOfRequest
  <2> QED
    BY <2>1, <2>2, <2>3, ReplyKeeps
<1>6. CASE LogoutRequest /\ active
  <2>1. /\ Handle("logout") /\ unmounting' = unmounting \cup {fd}
        /\ UNCHANGED <<client, fd, preferencesMutex, backlog>>
    BY <1>6 DEF LogoutRequest, Handle
  <2>2. /\ Served \in Clients /\ ~IsHome(Served) /\ descriptor[fd].open
        /\ fd \in Descriptors /\ descriptor[fd] \in Connections
        /\ descriptor[fd].requests = <<Asked(client[Served])>>
        /\ Head(client[Served].todo) = "logout"
        /\ client[Served].waits /\ client[Served].answers = <<>>
        /\ backlog = <<>> /\ unmounting \subseteq {0}
    BY <2>1, TheRequest DEF Handle
  <2>3. client[Served].todo = Logout
    BY <2>2, StagesOf DEF LockInv, ToolsInStage, InStage, IsHome
  <2>4. /\ \A n \in Descriptors : n # fd => descriptor'[n] = None
        /\ descriptor'[fd].requests = <<>>
        /\ descriptor'[fd].open /\ descriptor'[fd].client = Served
    <3>1. descriptor' = [descriptor EXCEPT ![fd] = [descriptor[fd] EXCEPT !.requests = Tail(@)]]
      BY <2>1, <2>2 DEF Handle, TypeInv, TypeOK
    <3>2. Tail(descriptor[fd].requests) = <<>>
      BY <2>2
    <3> QED
      BY <2>2, <3>1, <3>2 DEF TypeInv, TypeOK, LockInv, ServedTalks, Connections, Served
  <2>5. OneTool' /\ ToolsInStage' /\ BacklogWaits'
    BY <2>1, <2>2 DEF LockInv, OneTool, ToolsInStage, BacklogWaits, IsHome
  <2>6. ServedTalks' /\ LogoutWaits'
    BY <2>1, <2>2, <2>3, <2>4 DEF ServedTalks, Talks, LogoutWaits, Unmounts, Served, IsHome
  <2>7. preferencesMutex' = Holder'
    BY <2>1, <2>2, <2>4 DEF LockInv, Holder, Served
  <2> QED
    BY <2>5, <2>6, <2>7 DEF LockInv
<1> QED
  BY <1>1, <1>2, <1>3, <1>4, <1>5, <1>6 DEF ServeRequest

\* The volumes are unmounted: the tool that waits for it has its answer.
LEMMA LogoutCompleteKeeps ==
  ASSUME TypeInv, LockInv, NEW n \in Descriptors, LogoutComplete(n)
  PROVE  LockInv'
<1>1. /\ n = fd /\ fd # 0 /\ descriptor[fd].open /\ descriptor[fd].requests = <<>>
      /\ client[Served].todo = Logout /\ client[Served].waits /\ client[Served].answers = <<>>
  BY DEF LogoutComplete, LockInv, LogoutWaits, Unmounts
<1>2. /\ fd \in Descriptors /\ descriptor[fd] \in Connections /\ descriptor[fd] # None
      /\ Served \in Clients
  BY <1>1, ServedIsConnection, NoneIsNoConnection DEF Served, Connections
<1> DEFINE tool == Answered("logout")
<1>3. "logout" \in AnswersTo(Head(client[Served].todo)) /\ Head(client[Served].todo) = "logout"
  <2>1. Head(client[Served].todo) = "logout"
    BY <1>1 DEF Logout
  <2> QED
    BY <2>1 DEF AnswersTo
<1>4. /\ tool.todo = client[Served].todo /\ tool.waits /\ tool.answers = <<"logout">>
      /\ InStage(tool) /\ tool.todo # <<>>
      /\ Append(client[Served].answers, "logout") = <<"logout">>
  BY <1>1, <1>2, <1>3, AnsweredTool
<1>5. client' = [client EXCEPT ![Served] = tool] /\ UNCHANGED <<preferencesMutex, fd>>
  BY <1>1, <1>2, <1>4 DEF LogoutComplete, Answer, Served, Answered, TypeInv, TypeOK
<1>6. UNCHANGED <<backlog, descriptor>> /\ unmounting' \subseteq {0} /\ backlog = <<>>
  BY <1>1 DEF LogoutComplete, LockInv, LogoutWaits, BacklogWaits
<1> HIDE DEF tool
<1>7. /\ client'[Served] = tool
      /\ \A d \in Clients : d # Served => client'[d] = AtHome
  BY <1>1, <1>2, <1>4, <1>5, TheTool DEF TypeInv, TypeOK, IsHome
<1>8. OneTool' /\ ToolsInStage'
  <2>1. InStage(AtHome)
    BY DEF InStage, AtHome, Stages
  <2> QED
    BY <1>4, <1>7, <2>1 DEF OneTool, ToolsInStage, IsHome, AtHome
<1>9. ServedTalks' /\ BacklogWaits' /\ LogoutWaits'
  BY <1>1, <1>4, <1>5, <1>6, <1>7
     DEF LockInv, ServedTalks, Talks, BacklogWaits, LogoutWaits, Served
<1>10. ~Holds(client[Served]) /\ ~Holds(tool)
  <2>1. <<"logout">> # <<"lock">> /\ client[Served].answers # <<"lock">>
    BY <1>1
  <2> QED
    BY <1>3, <1>4, <2>1 DEF Holds
<1>11. preferencesMutex' = Holder'
  BY <1>5, <1>6, <1>7, <1>10 DEF LockInv, Holder, Served
<1> QED
  BY <1>8, <1>9, <1>11 DEF LockInv

LEMMA LockKept ==
  ASSUME "overlap" \notin Faults, "impatient" \notin Faults, TypeInv, LockInv, [Next]_vars
  PROVE  LockInv'
<1>1. ASSUME NEW c \in Clients, Connect(c) \/ ClientStep(c)
      PROVE  LockInv'
  BY <1>1, ConnectKeeps, SendKeeps, AnsweredKeeps DEF ClientStep
<1>2. CASE ServeClient
  <2>1. CASE ReadSignalled \/ NothingReceived \/ PeekNext
    BY <2>1, SameLock DEF ReadSignalled, NothingReceived, PeekNext, lockVars, clientVars,
       socketVars, storeVars, sessionVars
  <2> QED
    BY <1>2, <2>1, AcceptKeeps, RequestKeeps DEF ServeClient
<1>3. ASSUME NEW n \in Descriptors, LogoutComplete(n)
      PROVE  LockInv'
  BY <1>3, LogoutCompleteKeeps
<1>4. CASE SessionStep
  <2>1. UNCHANGED <<client, backlog, descriptor, fd, preferencesMutex>>
    BY <1>4 DEF SessionStep, ProcessQueuedLogin, SessionTimeout, PrepareForSystemSleep,
       PrepareForSystemSleepComplete, RestoreFromSystemSleep, storeVars, clientVars, socketVars
  <2>2. unmounting' \ {0} = unmounting \ {0}
    BY <1>4 DEF SessionStep, ProcessQueuedLogin, SessionTimeout, PrepareForSystemSleep,
       PrepareForSystemSleepComplete, RestoreFromSystemSleep
  <2>3. LogoutWaits'
    BY <2>1, <2>2 DEF LockInv, LogoutWaits, Served
  <2> QED
    BY <2>1, <2>3 DEF LockInv, OneTool, ToolsInStage, ServedTalks, BacklogWaits, Holder, Served,
                      IsHome
<1>5. CASE DiscoveryStep
  BY <1>5, SameLock DEF DiscoveryStep, LaunchDiscoveryThread, RunDiscovery, ProcessDiscoveryData,
     lockVars, clientVars, socketVars, storeVars, sessionVars
<1>6. CASE DaemonRestarts
  <2>1. /\ UNCHANGED <<client, backlog>> /\ fd' = 0 /\ preferencesMutex' = None
        /\ unmounting' = {} /\ descriptor' = [n \in Descriptors |-> None]
    BY <1>6 DEF DaemonRestarts, clientVars
  <2> QED
    BY <2>1 DEF LockInv, OneTool, ToolsInStage, ServedTalks, BacklogWaits, LogoutWaits, Holder,
                IsHome
<1>7. CASE UNCHANGED vars
  BY <1>7, SameLock DEF vars, lockVars, clientVars, socketVars, storeVars, sessionVars
<1> QED
  BY <1>1, <1>2, <1>3, <1>4, <1>5, <1>6, <1>7 DEF Next

LEMMA LockInit ==
  ASSUME Init
  PROVE  LockInv
<1>1. InStage(AtHome) /\ AtHome.todo = <<>>
  BY DEF InStage, AtHome, Stages
<1> QED
  BY <1>1 DEF Init, LockInv, OneTool, ToolsInStage, ServedTalks, BacklogWaits, LogoutWaits,
              Holder, IsHome

LEMMA LockHolds ==
  ASSUME "overlap" \notin Faults, "impatient" \notin Faults
  PROVE  Spec => [](TypeInv /\ LockInv)
BY InitTypes, NextTypes, LockInit, LockKept, PTL DEF Spec

\* When tools run one after the other and wait for their answers, the tool that has
\* locked the preferences is connected and served, however the daemon is restarted and
\* whatever sessions and discovery do: no mutex is left behind by a tool that is gone
\* (iSCSIDPreferencesIOLockAndSync, iSCSIDProcessIncomingRequest).
THEOREM HolderIsServed ==
  ASSUME "overlap" \notin Faults, "impatient" \notin Faults
  PROVE  Spec => []LockHolderIsServed
<1>1. TypeInv /\ LockInv => LockHolderIsServed
  BY ServedIsConnection, NoneIsNoConnection, DaemonConstants
     DEF LockInv, Holder, LockHolderIsServed, Owns, Served
<1> QED
  BY <1>1, LockHolds, PTL

\* Under the same conditions a tool reads no answer but its own: one that waits for
\* volumes to be unmounted is the one that is answered (iSCSIDLogoutComplete).
THEOREM OwnAnswers ==
  ASSUME "overlap" \notin Faults, "impatient" \notin Faults
  PROVE  Spec => []AnswersAreOwn
<1>1. ASSUME TypeInv, LockInv, NEW c \in Clients, client[c].answers # <<>>
      PROVE  /\ client[c].waits
             /\ CASE client[c].todo[1] = "lock" -> client[c].answers[1] \in {"lock", "denied"}
                  [] client[c].todo[1] = "query" -> client[c].answers[1] \in {"query", "active"}
                  [] OTHER -> client[c].answers[1] = client[c].todo[1]
  <2>1. /\ client[c].waits /\ client[c].todo # <<>> /\ client[c] \in Tool
        /\ \E a \in AnswersTo(Head(client[c].todo)) : client[c].answers = <<a>>
    BY <1>1 DEF LockInv, ToolsInStage, InStage, TypeInv, TypeOK, Structure, IsHome
  <2>2. Head(client[c].todo) = client[c].todo[1]
    BY <2>1 DEF Tool
  <2>3. client[c].answers[1] \in AnswersTo(client[c].todo[1])
    BY <2>1, <2>2
  <2> QED
    BY <2>1, <2>3 DEF AnswersTo
<1>2. TypeInv /\ LockInv => AnswersAreOwn
  BY <1>1 DEF AnswersAreOwn
<1> QED
  BY <1>2, LockHolds, PTL

-----------------------------------------------------------------------------
(* The run loop.                                                           *)

\* Discovery is not under way while a tool is.
DiscoveryRests == (\E c \in Clients : ~IsHome(c)) => threads = 0 /\ ~discoverySignal
RunLoopInv == RunLoopRuns /\ DiscoveryRests

\* A tool leaves home by connecting.
LEMMA StaysHome ==
  ASSUME TypeInv, [Next]_vars, NEW d \in Clients, IsHome(d), ~Connect(d)
  PROVE  IsHome(d)'
<1>0. ASSUME UNCHANGED client
      PROVE  IsHome(d)'
  BY <1>0 DEF IsHome
<1>1. ASSUME NEW c \in Clients, Connect(c) \/ ClientStep(c)
      PROVE  IsHome(d)'
  <2>1. CASE c = d
    <3>1. ~Send(c)
      BY <2>1 DEF Send
    <3>2. ~client[c].waits
      BY <2>1 DEF TypeInv, Structure
    <3> QED
      BY <1>1, <2>1, <3>1, <3>2 DEF ClientStep, ReceiveAnswer, StopWaiting
  <2>2. CASE c # d
    BY <1>1, <2>2 DEF Connect, ClientStep, Send, ReceiveAnswer, StopWaiting, GoOn, Leave, IsHome,
                      TypeInv, TypeOK
  <2> QED
    BY <2>1, <2>2
<1>2. ASSUME NEW n \in Descriptors, NEW answer, NEW lock, descriptor[n] # None,
             Answer(n, answer, lock)
      PROVE  IsHome(d)'
  <2>1. CASE descriptor[n].open
    <3>1. descriptor[n].client \in Clients
      BY <1>2 DEF TypeInv, TypeOK, Connections
    <3>2. client' = [client EXCEPT ![descriptor[n].client].answers = Append(@, answer)]
      BY <1>2, <2>1 DEF Answer
    <3>3. client'[d].todo = client[d].todo
      BY <3>1, <3>2 DEF TypeInv, TypeOK, Tool
    <3> QED
      BY <3>3 DEF IsHome
  <2>2. CASE ~descriptor[n].open
    BY <1>0, <1>2, <2>2 DEF Answer
  <2> QED
    BY <2>1, <2>2
<1>3. CASE fd # 0 /\ ServeRequest
  <2>1. fd \in Descriptors /\ descriptor[fd] # None
    BY <1>3, ServedIsConnection, NoneIsNoConnection
  <2> QED
    BY <1>0, <1>2, <1>3, <2>1
       DEF ServeRequest, LockAndSync, LockBlocks, UnlockAndSync, Release, IsTargetActive,
           UpdateDiscovery, LoginRequest, LogoutRequest, Reply, clientVars
<1>4. CASE ServeClient
  BY <1>0, <1>3, <1>4
     DEF ServeClient, AcceptConnection, ReadSignalled, NothingReceived, PeekNext, clientVars
<1>5. ASSUME NEW n \in Descriptors, LogoutComplete(n)
      PROVE  IsHome(d)'
  BY <1>0, <1>2, <1>5 DEF LogoutComplete
<1>6. CASE SessionStep \/ DiscoveryStep \/ DaemonRestarts \/ UNCHANGED vars
  BY <1>0, <1>6
     DEF SessionStep, ProcessQueuedLogin, SessionTimeout, PrepareForSystemSleep,
         PrepareForSystemSleepComplete, RestoreFromSystemSleep, DiscoveryStep,
         LaunchDiscoveryThread, RunDiscovery, ProcessDiscoveryData, DaemonRestarts, vars, clientVars
<1> QED
  BY <1>1, <1>4, <1>5, <1>6 DEF Next

\* Nobody has the lock when all tools are at home, or when one wants it.
LEMMA RunLoopKept ==
  ASSUME "busyDiscovery" \notin Faults, TypeInv, LockInv, RunLoopInv, [Next]_vars
  PROVE  RunLoopInv'
<1>1. ASSUME NEW c \in Clients, Connect(c)
      PROVE  RunLoopInv'
  BY <1>1 DEF Connect, RunLoopInv, RunLoopRuns, DiscoveryRests, discoveryVars
<1>2. ASSUME \A c \in Clients : ~Connect(c)
      PROVE  DiscoveryRests'
  <2>1. (\E c \in Clients : ~IsHome(c))' => \E c \in Clients : ~IsHome(c)
    BY <1>2, StaysHome
  <2>2. CASE threads' = threads /\ discoverySignal' = discoverySignal
    BY <2>1, <2>2 DEF RunLoopInv, DiscoveryRests
  <2>3. CASE LaunchDiscoveryThread
    BY <2>1, <2>3 DEF LaunchDiscoveryThread, DiscoveryRests
  <2>4. CASE RunDiscovery
    BY <2>1, <2>4 DEF RunDiscovery, RunLoopInv, DiscoveryRests
  <2>5. CASE ProcessDiscoveryData
    BY <2>1, <2>5 DEF ProcessDiscoveryData, RunLoopInv, DiscoveryRests
  <2>6. CASE DaemonRestarts
    BY <2>6 DEF DaemonRestarts, DiscoveryRests
  <2>7. CASE ServeClient
    BY <2>2, <2>7
       DEF ServeClient, AcceptConnection, ReadSignalled, NothingReceived, PeekNext, ServeRequest,
           LockAndSync, LockBlocks, UnlockAndSync, Release, IsTargetActive, UpdateDiscovery,
           LoginRequest, LogoutRequest, Handle, discoveryVars
  <2>8. CASE SessionStep
    BY <2>2, <2>8 DEF SessionStep, ProcessQueuedLogin, SessionTimeout, PrepareForSystemSleep,
       PrepareForSystemSleepComplete, RestoreFromSystemSleep, discoveryVars
  <2>9. ASSUME NEW n \in Descriptors, LogoutComplete(n)
        PROVE  DiscoveryRests'
    BY <2>2, <2>9 DEF LogoutComplete, discoveryVars
  <2>10. ASSUME NEW c \in Clients, ClientStep(c)
         PROVE  DiscoveryRests'
    BY <2>2, <2>10 DEF ClientStep, Send, ReceiveAnswer, StopWaiting, discoveryVars
  <2>11. CASE UNCHANGED vars
    BY <2>2, <2>11 DEF vars, discoveryVars
  <2> QED
    BY <1>2, <2>3, <2>4, <2>5, <2>6, <2>7, <2>8, <2>9, <2>10, <2>11 DEF Next, DiscoveryStep
<1>3. RunLoopRuns'
  <2>1. CASE fd # 0 /\ LockBlocks
    <3>1. /\ HasRequest /\ Request.request = "lock" /\ preferencesMutex # None
      BY <2>1 DEF LockBlocks
    <3>2. /\ Head(client[Served].todo) = "lock" /\ client[Served].answers = <<>>
      BY <2>1, <3>1, TheRequest
    <3>3. Holds(client[Served])
      BY <3>1 DEF LockInv, Holder
    <3> QED
      BY <3>2, <3>3 DEF Holds
  <2>2. CASE ProcessDiscoveryData
    <3>1. discoverySignal
      BY <2>2 DEF ProcessDiscoveryData
    <3>2. preferencesMutex = None
      BY <3>1, NobodyConnected DEF RunLoopInv, DiscoveryRests
    <3> QED
      BY <2>2, <3>2 DEF ProcessDiscoveryData, RunLoopInv, RunLoopRuns
  <2>3. CASE UNCHANGED runLoop
    BY <2>3 DEF RunLoopInv, RunLoopRuns
  <2>4. CASE ServeClient
    BY <2>1, <2>3, <2>4
       DEF ServeClient, AcceptConnection, ReadSignalled, NothingReceived, PeekNext, ServeRequest,
           LockAndSync, UnlockAndSync, Release, IsTargetActive, UpdateDiscovery,
           LoginRequest, LogoutRequest, Reply, RunLoopRuns
  <2>5. CASE SessionStep
    BY <2>3, <2>5 DEF SessionStep, ProcessQueuedLogin, SessionTimeout, PrepareForSystemSleep,
       PrepareForSystemSleepComplete, RestoreFromSystemSleep
  <2>6. ASSUME NEW n \in Descriptors, LogoutComplete(n)
        PROVE  RunLoopRuns'
    BY <2>3, <2>6 DEF LogoutComplete
  <2>7. ASSUME NEW c \in Clients, Connect(c) \/ ClientStep(c)
        PROVE  RunLoopRuns'
    BY <2>3, <2>7 DEF Connect, ClientStep, Send, ReceiveAnswer, StopWaiting
  <2>8. CASE LaunchDiscoveryThread \/ RunDiscovery \/ UNCHANGED vars
    BY <2>3, <2>8 DEF LaunchDiscoveryThread, RunDiscovery, vars
  <2>9. CASE DaemonRestarts
    BY <2>9 DEF DaemonRestarts, RunLoopRuns
  <2> QED
    BY <2>2, <2>4, <2>5, <2>6, <2>7, <2>8, <2>9 DEF Next, DiscoveryStep
<1> QED
  BY <1>1, <1>2, <1>3 DEF RunLoopInv

\* If besides discovery does not run while a tool does, the run loop never waits for
\* the lock of the preferences, which only a request that it would serve later could
\* give back (iSCSIDPreferencesIOLockAndSync, iSCSIDProcessDiscoveryData).
THEOREM RunLoopNeverBlocks ==
  ASSUME "overlap" \notin Faults, "impatient" \notin Faults, "busyDiscovery" \notin Faults
  PROVE  Spec => []RunLoopRuns
<1>1. Init => RunLoopInv
  BY DEF Init, RunLoopInv, RunLoopRuns, DiscoveryRests
<1>2. TypeInv /\ LockInv /\ RunLoopInv /\ [Next]_vars => RunLoopInv'
  BY RunLoopKept
<1>3. RunLoopInv => RunLoopRuns
  BY DEF RunLoopInv
<1> QED
  BY <1>1, <1>2, <1>3, LockHolds, PTL DEF Spec

-----------------------------------------------------------------------------
(* What is stored.                                                         *)

\* The copy of the tool that holds the lock: what is stored, with its change, or
\* without the target, which then has no session.
CopyOf(tool, c) ==
    /\ Head(tool.todo) = "unlock" =>
         \/ store \subseteq tool.copy /\ tool.copy \subseteq store \cup {c}
         \/ tool.copy = Removed(store) /\ ~active
    /\ Head(tool.todo) = "query" =>
         tool.copy = store /\ (tool.answers = <<"query">> => ~active)
CopyInv == preferencesMutex # None => CopyOf(client[preferencesMutex], preferencesMutex)

\* The answer of a tool that leaves the lock as it is tells what it copies.
LEMMA SameCopy ==
  ASSUME CopyInv, UNCHANGED <<preferencesMutex, client, store>>, active' => active
  PROVE  CopyInv'
BY DEF CopyInv, CopyOf

\* The tool that has the lock.
LEMMA TheHolder ==
  ASSUME TypeInv, LockInv, preferencesMutex # None
  PROVE  /\ fd # 0 /\ descriptor[fd].open /\ Served = preferencesMutex
         /\ preferencesMutex \in Clients /\ Holds(client[preferencesMutex])
         /\ ~IsHome(preferencesMutex) /\ backlog = <<>>
<1>1. fd # 0 /\ descriptor[fd].open /\ Served = preferencesMutex /\ Holds(client[Served])
  BY DEF LockInv, Holder
<1>2. preferencesMutex \in Clients
  BY DEF TypeInv, TypeOK
<1> QED
  BY <1>1, <1>2 DEF LockInv, ServedTalks, BacklogWaits, Talks, IsHome

\* The command that asks whether the target is active is Remove.
LEMMA RemoveAsks ==
  ASSUME NEW todo \in Stages, todo # <<>>
  PROVE  /\ Head(todo) = "lock" /\ Tail(todo) # <<>> /\ Head(Tail(todo)) = "query" => todo = Remove
         /\ Head(todo) = "query" => Tail(todo) = <<"unlock">>
<1> DEFINE Fits(s) ==
         /\ Head(s) = "lock" /\ Tail(s) # <<>> /\ Head(Tail(s)) = "query" => s = Remove
         /\ Head(s) = "query" => Tail(s) = <<"unlock">>
<1>1. Fits(<<"unlock">>) /\ Fits(<<"release">>) /\ Fits(<<"update">>)
  OBVIOUS
<1>2. Fits(<<"query", "unlock">>) /\ Fits(<<"unlock", "update">>)
  OBVIOUS
<1>3. Fits(<<"lock", "unlock">>) /\ Fits(<<"lock", "release">>)
  OBVIOUS
<1>4. Fits(<<"lock", "query", "unlock">>) /\ Fits(<<"lock", "unlock", "update">>)
  BY DEF Remove
<1>5. Fits(<<"login">>) /\ Fits(<<"logout">>)
  OBVIOUS
<1> HIDE DEF Fits
<1>6. Fits(todo)
  BY <1>1, <1>2, <1>3, <1>4, <1>5
     DEF Stages, Commands, Modify, Refuse, Remove, ModifyDiscovery, Login, Logout
<1> QED
  BY <1>6 DEF Fits

\* The tool that holds the lock goes on.
LEMMA CopyMade ==
  ASSUME "impatient" \notin Faults, TypeInv, LockInv, CopyInv, NEW c \in Clients, ClientStep(c)
  PROVE  CopyInv'
<1>1. ~IsHome(c) /\ UNCHANGED <<preferencesMutex, store, active>>
  BY DEF ClientStep, Send, ReceiveAnswer, StopWaiting, TypeInv, Structure, storeVars, sessionVars
<1>2. SUFFICES ASSUME preferencesMutex # None
               PROVE  CopyOf(client[c], c)'
  <2>1. preferencesMutex # None => preferencesMutex = c
    BY <1>1, TheHolder, TheTool
  <2> QED
    BY <1>1, <1>2, <2>1 DEF CopyInv
<1>3. /\ preferencesMutex = c /\ fd # 0 /\ descriptor[fd].open /\ Served = c
      /\ Holds(client[c]) /\ CopyOf(client[c], c) /\ client[c] \in Tool
      /\ client[c].todo \in Stages /\ client[c].todo # <<>>
  BY <1>1, <1>2, TheHolder, TheTool DEF CopyInv
<1>4. Connected(c)
  BY <1>3, ServedIsConnection, NoneIsNoConnection DEF Connected, Owns, Served
<1>5. CASE Send(c)
  <2>1. client' = [client EXCEPT ![c].waits = TRUE]
    BY <1>4, <1>5 DEF Send
  <2>2. /\ client'[c].todo = client[c].todo /\ client'[c].copy = client[c].copy
        /\ client'[c].answers = client[c].answers
    BY <1>3, <2>1 DEF TypeInv, TypeOK, Tool
  <2> QED
    BY <1>1, <1>3, <2>2 DEF CopyOf
<1>6. CASE StopWaiting(c)
  BY <1>4, <1>6 DEF StopWaiting
<1>7. CASE ReceiveAnswer(c)
  <2> DEFINE request == Head(client[c].todo)
             answer == Head(client[c].answers)
  <2>1. client[c].answers # <<>>
    BY <1>7 DEF ReceiveAnswer
  <2>2. PICK a \in AnswersTo(request) : client[c].answers = <<a>>
    BY <1>1, <2>1, TheTool
  <2>3. answer = a
    BY <2>2
  <2>4. (request = "lock" /\ a = "lock") \/ request = "query"
    BY <1>3, <2>1, <2>2 DEF Holds
  <2>5. PICK read : GoOn(c, read) /\ read = IF request = "query" /\ a # "active" THEN "query" ELSE a
    BY <1>7, <2>3, <2>4 DEF ReceiveAnswer
  <2>6. Len(client[c].todo) # 1
    BY <1>3, <2>4, StagesOf
  <2>7. /\ client'[c].todo = Tail(client[c].todo) /\ client'[c].copy = NextCopy(c, read)
        /\ client'[c].answers = SubSeq(client[c].answers, 2, Len(client[c].answers))
    BY <2>5, <2>6 DEF GoOn, TypeInv, TypeOK
  <2>8. client'[c].answers = <<>>
    <3>1. Len(client[c].answers) = 1
      BY <2>2
    <3> QED
      BY <2>7, <3>1, SubSeqEmpty
  <2>9. CASE request = "lock" /\ a = "lock"
    <3>1. read = "lock" /\ request = "lock"
      BY <2>5, <2>9
    <3>2. client'[c].copy = store \cup (IF client[c].todo = Remove THEN {} ELSE {c})
      BY <2>7, <3>1 DEF NextCopy
    <3>3. Head(Tail(client[c].todo)) = "query" => client[c].todo = Remove
      BY <1>3, <2>6, <3>1, StagesOf, RemoveAsks
    <3>4. client'[c].answers # <<"query">>
      BY <2>8
    <3> QED
      BY <1>1, <2>7, <3>2, <3>3, <3>4 DEF CopyOf
  <2>10. CASE request = "query"
    <3>1. Head(client'[c].todo) = "unlock"
      <4>1. client'[c].todo = <<"unlock">>
        BY <1>3, <2>7, <2>10, RemoveAsks
      <4> QED
        BY <4>1
    <3>2. client[c].copy = store /\ (a = "query" => ~active)
      BY <1>3, <2>2, <2>10 DEF CopyOf
    <3>3. a \in {"query", "active"}
      BY <2>2, <2>10 DEF AnswersTo
    <3>4. CASE a = "query"
      <4>1. client'[c].copy = Removed(store)
        BY <2>5, <2>7, <2>10, <3>2, <3>4 DEF NextCopy
      <4> QED
        BY <1>1, <3>1, <3>2, <3>4, <4>1 DEF CopyOf, Removed
    <3>5. CASE a = "active"
      <4>1. client'[c].copy = store
        BY <2>5, <2>7, <2>10, <3>2, <3>5 DEF NextCopy
      <4> QED
        BY <1>1, <3>1, <4>1 DEF CopyOf
    <3> QED
      BY <3>3, <3>4, <3>5
  <2> QED
    BY <2>4, <2>9, <2>10
<1> QED
  BY <1>5, <1>6, <1>7 DEF ClientStep

LEMMA CopyServed ==
  ASSUME TypeInv, LockInv, CopyInv, fd # 0, ServeRequest
  PROVE  CopyInv'
<1>0. ASSUME preferencesMutex' = None
      PROVE  CopyInv'
  BY <1>0 DEF CopyInv
<1>1. ASSUME NEW request, Handle(request)
      PROVE  /\ Served \in Clients /\ descriptor[fd].open /\ client[Served] \in Tool
             /\ Head(client[Served].todo) = request /\ client[Served].answers = <<>>
  BY <1>1, TheRequest DEF Handle, TypeInv, TypeOK
<1>2. CASE LockAndSync
  <2>1. Handle("lock")
    BY <1>2 DEF LockAndSync
  <2>2. CASE Reply("lock", descriptor[fd].client)
    <3>1. preferencesMutex' = Served /\ client' = [client EXCEPT ![Served].answers = Append(@, "lock")]
      BY <1>1, <2>1, <2>2 DEF Reply, Answer, Served
    <3>2. Head(client'[Served].todo) = "lock"
      BY <1>1, <2>1, <3>1 DEF TypeInv, TypeOK, Tool
    <3> QED
      BY <3>1, <3>2 DEF CopyInv, CopyOf
  <2>3. CASE Reply("denied", preferencesMutex)
    BY <1>0, <1>1, <1>2, <2>1, <2>3 DEF LockAndSync, Reply, Answer
  <2> QED
    BY <1>2, <2>2, <2>3 DEF LockAndSync
<1>3. CASE LockBlocks
  BY <1>3, SameCopy DEF LockBlocks, clientVars, storeVars, sessionVars
<1>4. CASE UnlockAndSync \/ Release
  BY <1>0, <1>1, <1>4 DEF UnlockAndSync, Release, Reply, Answer
<1>5. CASE IsTargetActive
  <2> DEFINE answer == IF active THEN "active" ELSE "query"
  <2>1. Handle("query") /\ Reply(answer, preferencesMutex) /\ UNCHANGED <<store, active>>
    BY <1>5 DEF IsTargetActive, sessionVars
  <2> HIDE DEF answer
  <2>2. "query" \in AnswersTo("query")
    BY DEF AnswersTo
  <2>3. preferencesMutex = Served
    BY <2>1, <2>2, HolderOfRequest
  <2>4. /\ preferencesMutex' = Served
        /\ client' = [client EXCEPT ![Served].answers = Append(@, answer)]
    BY <1>1, <2>1, <2>3 DEF Reply, Answer, Served
  <2>5. Append(client[Served].answers, answer) = <<answer>>
    <3>1. client[Served].answers = <<>>
      BY <1>1, <2>1
    <3>2. \A a : Append(<<>>, a) = <<a>>
      OBVIOUS
    <3> QED
      BY <3>1, <3>2
  <2>6. /\ client'[Served].todo = client[Served].todo /\ client'[Served].copy = client[Served].copy
        /\ client'[Served].answers = <<answer>>
    BY <1>1, <2>1, <2>4, <2>5 DEF TypeInv, TypeOK, Tool
  <2>7. CopyOf(client[Served], Served) /\ Head(client[Served].todo) = "query"
    BY <1>1, <2>1, <2>3, DaemonConstants DEF CopyInv
  <2>8. <<answer>> = <<"query">> => ~active
    BY DEF answer
  <2> QED
    BY <2>1, <2>4, <2>6, <2>7, <2>8 DEF CopyInv, CopyOf
<1>6. CASE UpdateDiscovery \/ LoginRequest \/ LogoutRequest
  <2>1. PICK request \in {"update", "login", "logout"} :
          /\ Handle(request)
          /\ Reply(request, preferencesMutex) \/ UNCHANGED preferencesMutex
    BY <1>6 DEF UpdateDiscovery, LoginRequest, LogoutRequest
  <2>2. request \in AnswersTo(request)
    BY DEF AnswersTo
  <2>3. preferencesMutex = None
    BY <2>1, <2>2, HolderOfRequest
  <2> QED
    BY <1>0, <2>1, <2>3 DEF Reply, Answer
<1> QED
  BY <1>2, <1>3, <1>4, <1>5, <1>6 DEF ServeRequest

LEMMA CopyKept ==
  ASSUME "overlap" \notin Faults, "impatient" \notin Faults, "busyLogin" \notin Faults,
         TypeInv, LockInv, CopyInv, [Next]_vars
  PROVE  CopyInv'
<1>0. ASSUME preferencesMutex' = None
      PROVE  CopyInv'
  BY <1>0 DEF CopyInv
<1>1. ASSUME NEW c \in Clients, Connect(c)
      PROVE  CopyInv'
  BY <1>0, <1>1, NobodyConnected DEF Connect, storeVars
<1>2. CASE ServeClient
  <2>1. CASE AcceptConnection
    BY <1>0, <2>1, TheHolder DEF AcceptConnection, storeVars
  <2>2. CASE ReadSignalled \/ NothingReceived \/ PeekNext
    BY <2>2, SameCopy DEF ReadSignalled, NothingReceived, PeekNext, clientVars, storeVars, sessionVars
  <2> QED
    BY <1>2, <2>1, <2>2, CopyServed DEF ServeClient
<1>3. ASSUME NEW n \in Descriptors, LogoutComplete(n)
      PROVE  CopyInv'
  <2>1. /\ fd # 0 /\ client[Served].todo = Logout /\ client[Served].answers = <<>>
    BY <1>3 DEF LogoutComplete, LockInv, LogoutWaits, Unmounts
  <2>2. Head(client[Served].todo) = "logout"
    BY <2>1 DEF Logout
  <2>3. client[Served].answers # <<"lock">>
    BY <2>1
  <2>4. preferencesMutex = None
    BY <2>2, <2>3 DEF LockInv, Holder, Holds
  <2> QED
    BY <1>0, <1>3, <2>4 DEF LogoutComplete, Answer
<1>4. CASE SessionStep
  <2>1. CASE PrepareForSystemSleepComplete
    <3>1. active' => active
      BY <2>1 DEF PrepareForSystemSleepComplete
    <3> QED
      BY <2>1, <3>1, SameCopy DEF PrepareForSystemSleepComplete, clientVars, storeVars
  <2>2. CASE ~PrepareForSystemSleepComplete
    BY <1>0, <1>4, <2>2 DEF SessionStep, ProcessQueuedLogin, SessionTimeout, PrepareForSystemSleep,
       RestoreFromSystemSleep, MayLogin, storeVars
  <2> QED
    BY <2>1, <2>2
<1>5. CASE DiscoveryStep
  <2>1. CASE LaunchDiscoveryThread \/ RunDiscovery
    BY <2>1, SameCopy DEF LaunchDiscoveryThread, RunDiscovery, clientVars, storeVars, sessionVars
  <2>2. CASE ProcessDiscoveryData
    <3>1. CASE preferencesMutex = None
      BY <1>0, <2>2, <3>1 DEF ProcessDiscoveryData
    <3>2. CASE preferencesMutex # None
      BY <2>2, <3>2, SameCopy DEF ProcessDiscoveryData, clientVars, sessionVars
    <3> QED
      BY <3>1, <3>2
  <2> QED
    BY <1>5, <2>1, <2>2 DEF DiscoveryStep
<1>6. CASE DaemonRestarts
  BY <1>0, <1>6 DEF DaemonRestarts
<1>7. CASE UNCHANGED vars
  BY <1>7, SameCopy DEF vars, clientVars, storeVars, sessionVars
<1> QED
  BY <1>1, <1>2, <1>3, <1>4, <1>5, <1>6, <1>7, CopyMade DEF Next

LEMMA CopyHolds ==
  ASSUME "overlap" \notin Faults, "impatient" \notin Faults, "busyLogin" \notin Faults
  PROVE  Spec => [](TypeInv /\ LockInv /\ CopyInv)
<1>1. Init => CopyInv
  BY DEF Init, CopyInv
<1>2. TypeInv /\ LockInv /\ CopyInv /\ [Next]_vars => CopyInv'
  BY CopyKept
<1> QED
  BY <1>1, <1>2, LockHolds, PTL DEF Spec

\* What a request to unlock stores.
LEMMA StoredByUnlock ==
  ASSUME TypeInv, LockInv, CopyInv, fd # 0, UnlockAndSync
  PROVE  /\ preferencesMutex = Served /\ Served \in Clients
         /\ preferences' = store' /\ active' = active
         /\ \/ store \subseteq store' /\ store' \subseteq store \cup {Served}
            \/ store' = Removed(store) /\ ~active
<1>1. Handle("unlock") /\ "unlock" \in AnswersTo("unlock")
  BY DEF UnlockAndSync, AnswersTo
<1>2. preferencesMutex = Served
  BY <1>1, HolderOfRequest
<1>3. /\ Served \in Clients /\ Head(client[Served].todo) = "unlock"
      /\ Request.prefs = client[Served].copy
  <2>1. /\ Served \in Clients /\ Head(client[Served].todo) = "unlock"
        /\ Request = Asked(client[Served])
    BY <1>1, TheRequest DEF Handle
  <2> QED
    BY <2>1 DEF Asked
<1>4. preferencesMutex # None /\ CopyOf(client[Served], Served)
  BY <1>2, <1>3, DaemonConstants DEF CopyInv
<1>5. store' = client[Served].copy /\ preferences' = store' /\ active' = active
  BY <1>3, <1>4 DEF UnlockAndSync, sessionVars
<1> QED
  BY <1>2, <1>3, <1>4, <1>5 DEF CopyOf

-----------------------------------------------------------------------------
(* Sessions and their target.                                              *)

TargetInv == SessionHasTarget /\ ("target" \in store => "target" \in preferences)

LEMMA TargetKept ==
  ASSUME "staleLogin" \notin Faults, TypeInv, LockInv, CopyInv, TargetInv, [Next]_vars
  PROVE  TargetInv'
<1>0. ASSUME UNCHANGED <<store, preferences>>, active' => active
      PROVE  TargetInv'
  BY <1>0 DEF TargetInv, SessionHasTarget
<1>1. ASSUME NEW prefs, LoginCommon(prefs), "target" \in store => "target" \in prefs
      PROVE  TargetInv'
  BY <1>1 DEF LoginCommon, WithAlias, TargetInv, SessionHasTarget
<1>2. CASE fd # 0 /\ UnlockAndSync
  BY <1>2, StoredByUnlock DEF TargetInv, SessionHasTarget
<1>3. CASE UpdateDiscovery
  BY <1>3 DEF UpdateDiscovery, sessionVars, TargetInv, SessionHasTarget
<1>4. CASE LoginRequest
  BY <1>1, <1>4 DEF LoginRequest, TargetInv, SessionHasTarget
<1>5. CASE ServeClient
  BY <1>0, <1>2, <1>3, <1>4, <1>5
     DEF ServeClient, AcceptConnection, ReadSignalled, NothingReceived, PeekNext, ServeRequest,
         LockAndSync, LockBlocks, Release, IsTargetActive, LogoutRequest, storeVars, sessionVars
<1>6. ASSUME NEW n \in Descriptors, LogoutComplete(n)
      PROVE  TargetInv'
  <2>1. active' => active
    BY <1>6 DEF LogoutComplete
  <2> QED
    BY <1>0, <1>6, <2>1 DEF LogoutComplete
<1>7. CASE SessionStep
  <2>1. CASE LoginWithPortal
    BY <1>0, <1>1, <2>1 DEF LoginWithPortal, TargetInv
  <2>2. CASE SessionTimeout
    BY <2>2 DEF SessionTimeout, TargetInv, SessionHasTarget
  <2>3. CASE PrepareForSystemSleep
    BY <1>0, <2>3 DEF PrepareForSystemSleep, storeVars
  <2>4. CASE PrepareForSystemSleepComplete
    <3>1. active' => active
      BY <2>4 DEF PrepareForSystemSleepComplete
    <3> QED
      BY <1>0, <2>4, <3>1 DEF PrepareForSystemSleepComplete, storeVars
  <2> QED
    BY <1>7, <2>1, <2>2, <2>3, <2>4 DEF SessionStep, ProcessQueuedLogin, RestoreFromSystemSleep
<1>8. CASE DiscoveryStep
  BY <1>0, <1>8 DEF DiscoveryStep, LaunchDiscoveryThread, RunDiscovery, ProcessDiscoveryData,
     storeVars, sessionVars, TargetInv, SessionHasTarget
<1>9. CASE DaemonRestarts
  BY <1>9 DEF DaemonRestarts, TargetInv, SessionHasTarget
<1>10. ASSUME NEW c \in Clients, Connect(c) \/ ClientStep(c)
       PROVE  TargetInv'
  BY <1>0, <1>10 DEF Connect, ClientStep, Send, ReceiveAnswer, StopWaiting, storeVars, sessionVars
<1>11. CASE UNCHANGED vars
  BY <1>0, <1>11 DEF vars, storeVars, sessionVars
<1> QED
  BY <1>5, <1>6, <1>7, <1>8, <1>9, <1>10, <1>11 DEF Next

\* The run loop has a connection when it receives.
Receives == runLoop \in {"receive", "peek"} => fd # 0

LEMMA ReceivesKept ==
  ASSUME TypeInv, Receives, [Next]_vars
  PROVE  Receives'
<1>0. ASSUME UNCHANGED <<runLoop, fd>>
      PROVE  Receives'
  BY <1>0 DEF Receives
<1>1. CASE ServeClient
  <2>1. CASE AcceptConnection
    <3>1. (CHOOSE m \in Descriptors : m # fd) \in Descriptors
      BY DEF Descriptors
    <3>2. fd' \in Descriptors
      BY <2>1, <3>1 DEF AcceptConnection
    <3> QED
      BY <3>2 DEF Receives, Descriptors
  <2>2. CASE ReadSignalled
    BY <2>2 DEF ReadSignalled, Receives
  <2>3. CASE fd # 0 /\ (NothingReceived \/ PeekNext)
    BY <2>3 DEF NothingReceived, PeekNext, Receives, socketVars
  <2>4. CASE fd # 0 /\ ServeRequest
    BY <2>4 DEF ServeRequest, LockAndSync, LockBlocks, UnlockAndSync, Release, IsTargetActive,
       UpdateDiscovery, LoginRequest, LogoutRequest, Reply, Answer, Receives, socketVars
  <2> QED
    BY <1>1, <2>1, <2>2, <2>3, <2>4 DEF ServeClient
<1>2. ASSUME NEW n \in Descriptors, LogoutComplete(n)
      PROVE  Receives'
  BY <1>2 DEF LogoutComplete, Receives
<1>3. CASE SessionStep
  BY <1>0, <1>3 DEF SessionStep, ProcessQueuedLogin, SessionTimeout, PrepareForSystemSleep,
     PrepareForSystemSleepComplete, RestoreFromSystemSleep, socketVars
<1>4. CASE DiscoveryStep
  BY <1>0, <1>4 DEF DiscoveryStep, LaunchDiscoveryThread, RunDiscovery, ProcessDiscoveryData,
     socketVars, Receives
<1>5. CASE DaemonRestarts
  BY <1>5 DEF DaemonRestarts, Receives
<1>6. ASSUME NEW c \in Clients, Connect(c) \/ ClientStep(c)
      PROVE  Receives'
  BY <1>0, <1>6 DEF Connect, ClientStep, Send, ReceiveAnswer, StopWaiting, GoOn, Leave, socketVars
<1>7. CASE UNCHANGED vars
  BY <1>0, <1>7 DEF vars, socketVars
<1> QED
  BY <1>1, <1>2, <1>3, <1>4, <1>5, <1>6, <1>7 DEF Next

LEMMA ReceivesHolds == Spec => []Receives
<1>1. Init => Receives
  BY DEF Init, Receives
<1>2. TypeInv /\ Receives /\ [Next]_vars => Receives'
  BY ReceivesKept
<1> QED
  BY <1>1, <1>2, InitTypes, NextTypes, PTL DEF Spec

\* When tools run one after the other and wait, the run loop does not log in while one
\* has the lock, and no target accepts a login after it was removed, a session always
\* has its target in the preferences (iSCSIDLoginCommon, iSCSIDPreferencesIOUnlockAndSync).
THEOREM SessionsHaveTarget ==
  ASSUME "overlap" \notin Faults, "impatient" \notin Faults, "busyLogin" \notin Faults,
         "staleLogin" \notin Faults
  PROVE  Spec => []SessionHasTarget
<1>1. Init => TargetInv
  BY DEF Init, TargetInv, SessionHasTarget
<1>2. TypeInv /\ LockInv /\ CopyInv /\ TargetInv /\ [Next]_vars => TargetInv'
  BY TargetKept
<1>3. TargetInv => SessionHasTarget
  BY DEF TargetInv
<1> QED
  BY <1>1, <1>2, <1>3, CopyHolds, PTL DEF Spec

LEMMA LoginKept ==
  ASSUME "staleLogin" \notin Faults, TypeInv, LockInv, CopyInv, [Next]_vars
  PROVE  /\ "alias" \in store /\ "target" \in store' => "alias" \in store'
         /\ "target" \in store' => "target" \in store
<1> DEFINE Kept == /\ "alias" \in store /\ "target" \in store' => "alias" \in store'
                   /\ "target" \in store' => "target" \in store
<1> SUFFICES Kept
  OBVIOUS
<1>0. ASSUME UNCHANGED store
      PROVE  Kept
  BY <1>0
<1>1. ASSUME NEW prefs, LoginCommon(prefs)
      PROVE  Kept
  BY <1>1 DEF LoginCommon, WithAlias
<1>2. CASE fd # 0 /\ UnlockAndSync
  BY <1>2, StoredByUnlock, DaemonConstants DEF Removed, Kept
<1> HIDE DEF Kept
<1>3. CASE ServeClient
  BY <1>0, <1>1, <1>2, <1>3
     DEF ServeClient, AcceptConnection, ReadSignalled, NothingReceived, PeekNext, ServeRequest,
         LockAndSync, LockBlocks, Release, IsTargetActive, UpdateDiscovery, LoginRequest,
         LogoutRequest, storeVars
<1>4. CASE SessionStep
  BY <1>0, <1>1, <1>4 DEF SessionStep, ProcessQueuedLogin, SessionTimeout, PrepareForSystemSleep,
     PrepareForSystemSleepComplete, RestoreFromSystemSleep, LoginWithPortal, storeVars
<1>5. CASE DiscoveryStep
  <2>1. CASE store' = store \cup {"found"}
    BY <2>1 DEF Kept
  <2> QED
    BY <1>0, <1>5, <2>1 DEF DiscoveryStep, LaunchDiscoveryThread, RunDiscovery,
       ProcessDiscoveryData, storeVars
<1>6. ASSUME NEW c \in Clients, Connect(c) \/ ClientStep(c)
      PROVE  Kept
  BY <1>0, <1>6 DEF Connect, ClientStep, Send, ReceiveAnswer, StopWaiting, storeVars
<1>7. ASSUME NEW n \in Descriptors, LogoutComplete(n)
      PROVE  Kept
  BY <1>0, <1>7 DEF LogoutComplete
<1>8. CASE DaemonRestarts \/ UNCHANGED vars
  BY <1>0, <1>8 DEF DaemonRestarts, vars, storeVars
<1> QED
  BY <1>3, <1>4, <1>5, <1>6, <1>7, <1>8 DEF Next

\* Under the conditions of SessionsHaveTarget the alias that a target told at login is
\* stored for as long as the target is, and no login brings back a target that was
\* removed (iSCSIDLoginCommon).
THEOREM NoLoginIsLost ==
  ASSUME "overlap" \notin Faults, "impatient" \notin Faults, "busyLogin" \notin Faults,
         "staleLogin" \notin Faults
  PROVE  Spec => LoginsAreKept
<1>1. TypeInv /\ LockInv /\ CopyInv /\ [Next]_vars =>
        [/\ "alias" \in store /\ "target" \in store' => "alias" \in store'
         /\ "target" \in store' => "target" \in store]_vars
  BY LoginKept
<1> QED
  BY <1>1, CopyHolds, PTL DEF Spec, LoginsAreKept

-----------------------------------------------------------------------------
(* Changes.                                                                *)

\* What tools and discovery have stored, and the requests that leave the lock alone.
Contributed == Clients \cup {"found"}
Complete(copy) == store \cap Contributed \subseteq copy
Early == Requests \ {"unlock", "release"}
EarlyOnly(requests) == \A k \in 1 .. Len(requests) : requests[k].request \in Early

\* The tool may send its preferences, next or after one question.
Granted(tool) == \/ Head(tool.todo) = "query"
                 \/ Head(tool.todo) = "unlock" /\ ~tool.waits

OnlyServed == fd # 0 => \A n \in Descriptors : n # fd => descriptor[n] = None
ToolsGoOn == \A c \in Clients : client[c].todo \in Stages /\ (IsHome(c) => client[c] = AtHome)
OneConnection ==
    \A c \in Clients :
        /\ IsHome(c) => ~Connected(c)
        /\ \A i \in 1 .. Len(backlog) : Owns(backlog[i], c) =>
              /\ \A j \in 1 .. Len(backlog) : Owns(backlog[j], c) => i = j
              /\ \A n \in Descriptors : ~Owns(descriptor[n], c)
BacklogAsks ==
    \A i \in 1 .. Len(backlog) :
        /\ EarlyOnly(backlog[i].requests)
        /\ \A c \in Clients : Owns(backlog[i], c) => client[c].todo \in Commands /\ client[c].answers = <<>>
LockComesFirst ==
    \A c \in Clients :
        /\ fd # 0 /\ Owns(descriptor[fd], c)
        /\ Head(client[c].todo) = "lock" \/ Granted(client[c])
        => EarlyOnly(descriptor[fd].requests)
GrantsHold ==
    \A c \in Clients : fd # 0 /\ Owns(descriptor[fd], c) =>
        /\ Granted(client[c]) => preferencesMutex = c /\ Complete(client[c].copy)
        /\ Head(client[c].todo) = "lock" /\ client[c].answers # <<>> /\ Head(client[c].answers) = "lock" =>
              preferencesMutex = c
UnlocksAreGranted ==
    fd # 0 => \A k \in 1 .. Len(descriptor[fd].requests) :
        descriptor[fd].requests[k].request = "unlock" =>
            /\ preferencesMutex = Served /\ Complete(descriptor[fd].requests[k].prefs)
            /\ \A j \in 1 .. k - 1 : descriptor[fd].requests[j].request \in Early
GrantInv == /\ OnlyServed /\ ToolsGoOn /\ OneConnection /\ BacklogAsks
            /\ LockComesFirst /\ GrantsHold /\ UnlocksAreGranted

\* What GrantInv looks at, but for what is stored.
grantVars == <<client, backlog, descriptor, fd, preferencesMutex>>

LEMMA SameGrants ==
  ASSUME GrantInv, UNCHANGED grantVars, TypeInv,
         preferencesMutex # None => store' \cap Contributed = store \cap Contributed
  PROVE  GrantInv'
<1>1. OnlyServed' /\ ToolsGoOn' /\ OneConnection' /\ BacklogAsks' /\ LockComesFirst'
  BY DEF GrantInv, OnlyServed, ToolsGoOn, OneConnection, BacklogAsks, LockComesFirst,
         grantVars, IsHome, Connected, Granted
<1>2. preferencesMutex # None => \A copy : Complete(copy)' <=> store \cap Contributed \subseteq copy
  BY DEF Complete
<1>3. GrantsHold'
  BY <1>2, DaemonConstants DEF GrantInv, GrantsHold, grantVars, Granted, Complete
<1>4. UnlocksAreGranted'
  <2>1. fd # 0 => Served \in Clients
    BY ServedIsConnection DEF Served, Connections
  <2> QED
    BY <1>2, <2>1, DaemonConstants DEF GrantInv, UnlocksAreGranted, grantVars, Served, Complete
<1> QED
  BY <1>1, <1>3, <1>4 DEF GrantInv

LEMMA GrantInit == Init => GrantInv
<1> SUFFICES ASSUME Init PROVE GrantInv
  OBVIOUS
<1>1. /\ client = [c \in Clients |-> AtHome] /\ backlog = <<>> /\ fd = 0
      /\ descriptor = [n \in Descriptors |-> None]
  BY DEF Init
<1>2. \A c \in Clients : client[c].todo = <<>>
  BY <1>1 DEF AtHome
<1>3. Len(backlog) = 0 /\ DOMAIN backlog = {}
  BY <1>1
<1>4. OneConnection
  <2>1. \A c \in Clients : ~Connected(c)
    BY <1>1, <1>3 DEF Connected, Owns
  <2>2. 1 .. Len(backlog) = {}
    BY <1>3
  <2> QED
    BY <2>1, <2>2 DEF OneConnection
<1>5. BacklogAsks
  BY <1>3 DEF BacklogAsks
<1> QED
  BY <1>1, <1>2, <1>4, <1>5
     DEF GrantInv, OnlyServed, ToolsGoOn, LockComesFirst, GrantsHold, UnlocksAreGranted, Stages, IsHome

\* The run loop accepts a connection.
LEMMA AcceptGrants ==
  ASSUME TypeInv, GrantInv, AcceptConnection
  PROVE  GrantInv'
<1>1. PICK n \in Descriptors :
        /\ descriptor' = [m \in Descriptors |-> IF m = n THEN Head(backlog) ELSE None]
        /\ fd' = n
  <2>1. \E m \in Descriptors : m # fd
    BY DEF Descriptors
  <2> QED
    BY <2>1 DEF AcceptConnection
<1>2. /\ client' = client /\ preferencesMutex' = preferencesMutex /\ store' = store
      /\ backlog # <<>> /\ backlog' = Tail(backlog)
  BY DEF AcceptConnection, clientVars, storeVars
<1>3. /\ backlog \in Seq(Connections) /\ Head(backlog) = backlog[1] /\ 1 \in 1 .. Len(backlog)
      /\ Len(backlog') = Len(backlog) - 1
      /\ \A i \in 1 .. Len(backlog') : i + 1 \in 1 .. Len(backlog) /\ backlog'[i] = backlog[i + 1]
  BY <1>2 DEF TypeInv, TypeOK
<1>4. descriptor'[n] = backlog[1] /\ \A m \in Descriptors : m # n => descriptor'[m] = None
  BY <1>1, <1>3
<1>5. OnlyServed'
  BY <1>1, <1>4 DEF OnlyServed
<1>6. ToolsGoOn'
  BY <1>2 DEF GrantInv, ToolsGoOn, IsHome
<1>7. OneConnection'
  <2>1. ASSUME NEW c \in Clients
        PROVE  Connected(c)' => Connected(c)
    <3>1. DOMAIN backlog = 1 .. Len(backlog) /\ DOMAIN backlog' = 1 .. Len(backlog')
      BY <1>2, <1>3
    <3> QED
      BY <1>3, <1>4, <3>1 DEF Connected, Owns
  <2>2. ASSUME NEW c \in Clients, NEW i \in 1 .. Len(backlog'), Owns(backlog'[i], c)
        PROVE  /\ \A j \in 1 .. Len(backlog') : Owns(backlog'[j], c) => i = j
               /\ \A m \in Descriptors : ~Owns(descriptor'[m], c)
    <3>1. \A j \in 1 .. Len(backlog) : Owns(backlog[j], c) => j = i + 1
      BY <1>3, <2>2 DEF GrantInv, OneConnection
    <3>2. ~Owns(backlog[1], c)
      BY <1>3, <2>2, <3>1
    <3>3. ASSUME NEW j \in 1 .. Len(backlog'), Owns(backlog'[j], c)
          PROVE  i = j
      <4>1. j + 1 = i + 1
        BY <1>3, <3>1, <3>3
      <4> QED
        BY <1>3, <4>1
    <3> QED
      BY <1>3, <1>4, <3>2, <3>3 DEF Owns
  <2> QED
    BY <1>2, <2>1, <2>2 DEF GrantInv, OneConnection, IsHome
<1>8. BacklogAsks'
  BY <1>2, <1>3 DEF GrantInv, BacklogAsks
<1>9. /\ EarlyOnly(descriptor'[n].requests)
      /\ \A c \in Clients : Owns(descriptor'[n], c) => client[c].todo \in Commands /\ client[c].answers = <<>>
  BY <1>3, <1>4 DEF GrantInv, BacklogAsks
<1>10. LockComesFirst'
  BY <1>1, <1>9 DEF LockComesFirst
<1>11. GrantsHold'
  <2>1. \A todo \in Commands : Head(todo) \in {"lock", "login", "logout"}
    BY StagesOf DEF Stages
  <2> QED
    BY <1>1, <1>2, <1>9, <2>1 DEF GrantsHold, Granted
<1>12. UnlocksAreGranted'
  BY <1>1, <1>9 DEF UnlocksAreGranted, EarlyOnly, Early
<1> QED
  BY <1>5, <1>6, <1>7, <1>8, <1>10, <1>11, <1>12 DEF GrantInv

LEMMA RestartGrants ==
  ASSUME TypeInv, GrantInv, DaemonRestarts
  PROVE  GrantInv'
<1>1. /\ client' = client /\ backlog' = backlog /\ fd' = 0
      /\ descriptor' = [n \in Descriptors |-> None]
  BY DEF DaemonRestarts, clientVars
<1>2. OneConnection'
  BY <1>1 DEF GrantInv, OneConnection, Connected, Owns, IsHome
<1>3. BacklogAsks' /\ ToolsGoOn'
  BY <1>1 DEF GrantInv, BacklogAsks, ToolsGoOn, IsHome
<1> QED
  BY <1>1, <1>2, <1>3 DEF GrantInv, OnlyServed, LockComesFirst, GrantsHold, UnlocksAreGranted

\* A tool connects.
LEMMA ConnectGrants ==
  ASSUME TypeInv, GrantInv, NEW c \in Clients, Connect(c)
  PROVE  GrantInv'
<1>1. /\ IsHome(c) /\ ~Connected(c)
      /\ backlog' = Append(backlog, Connection(c))
      /\ UNCHANGED <<descriptor, fd, preferencesMutex, store>>
  BY DEF Connect, GrantInv, OneConnection, storeVars
<1>2. PICK todo \in Commands : client' = [client EXCEPT ![c].todo = todo, ![c].copy = store]
  BY DEF Connect
<1>3. /\ client[c] \in Tool /\ client'[c].todo = todo /\ client'[c].answers = client[c].answers
      /\ \A d \in Clients : d # c => client'[d] = client[d]
  BY <1>2 DEF TypeInv, TypeOK, Tool
<1>4. client[c].answers = <<>>
  BY <1>1 DEF GrantInv, ToolsGoOn, AtHome
<1>5. /\ backlog \in Seq(Connections) /\ Len(backlog') = Len(backlog) + 1
      /\ backlog'[Len(backlog) + 1] = Connection(c)
      /\ \A i \in 1 .. Len(backlog) : backlog'[i] = backlog[i]
  BY <1>1 DEF TypeInv, TypeOK
<1>6. \A d : Owns(Connection(c), d) => d = c
  BY DEF Owns, Connection
<1>7. /\ \A i \in 1 .. Len(backlog) : ~Owns(backlog[i], c)
      /\ \A n \in Descriptors : ~Owns(descriptor[n], c)
  <2>1. DOMAIN backlog = 1 .. Len(backlog)
    BY <1>5
  <2> QED
    BY <1>1, <2>1 DEF Connected
<1>8. OnlyServed' /\ LockComesFirst' /\ GrantsHold' /\ UnlocksAreGranted'
  <2>1. OnlyServed' /\ LockComesFirst'
    BY <1>1, <1>3, <1>7 DEF GrantInv, OnlyServed, LockComesFirst, Granted, Structure, TypeInv, TypeOK
  <2>2. GrantsHold'
    BY <1>1, <1>3, <1>7 DEF GrantInv, GrantsHold, Granted, Structure, TypeInv, TypeOK, Complete
  <2>3. UnlocksAreGranted'
    BY <1>1 DEF GrantInv, UnlocksAreGranted, Served, Complete
  <2> QED
    BY <2>1, <2>2, <2>3
<1>9. ToolsGoOn'
  BY <1>3, CommandsAreLists DEF GrantInv, ToolsGoOn, Stages, IsHome
<1>10. OneConnection'
  <2>1. ASSUME NEW d \in Clients, IsHome(d)'
        PROVE  ~Connected(d)'
    <3>1. d # c
      BY <1>3, <2>1, CommandsAreLists DEF IsHome
    <3>2. ~Connected(d)
      BY <1>3, <2>1, <3>1 DEF GrantInv, OneConnection, IsHome
    <3>3. DOMAIN backlog = 1 .. Len(backlog) /\ DOMAIN backlog' = 1 .. (Len(backlog) + 1)
      BY <1>1, <1>5
    <3>4. \A i \in 1 .. (Len(backlog) + 1) : ~Owns(backlog'[i], d)
      BY <1>5, <1>6, <3>1, <3>2, <3>3 DEF Connected
    <3> QED
      BY <1>1, <3>2, <3>3, <3>4 DEF Connected
  <2>2. ASSUME NEW d \in Clients, NEW i \in 1 .. Len(backlog'), Owns(backlog'[i], d)
        PROVE  /\ \A j \in 1 .. Len(backlog') : Owns(backlog'[j], d) => i = j
               /\ \A n \in Descriptors : ~Owns(descriptor'[n], d)
    BY <1>1, <1>5, <1>6, <1>7, <2>2 DEF GrantInv, OneConnection
  <2> QED
    BY <2>1, <2>2 DEF OneConnection
<1>11. BacklogAsks'
  <2>1. EarlyOnly(Connection(c).requests)
    BY DEF EarlyOnly, Connection
  <2>2. ASSUME NEW i \in 1 .. Len(backlog')
        PROVE  /\ EarlyOnly(backlog'[i].requests)
               /\ \A d \in Clients : Owns(backlog'[i], d) =>
                    client'[d].todo \in Commands /\ client'[d].answers = <<>>
    <3>1. CASE i = Len(backlog) + 1
      BY <1>3, <1>4, <1>5, <1>6, <2>1, <3>1
    <3>2. CASE i \in 1 .. Len(backlog)
      BY <1>3, <1>5, <1>7, <3>2 DEF GrantInv, BacklogAsks
    <3> QED
      BY <1>5, <3>1, <3>2
  <2> QED
    BY <2>2 DEF BacklogAsks
<1> QED
  BY <1>8, <1>9, <1>10, <1>11 DEF GrantInv

\* A tool leaves: what was its own is nobody's, and the rest stays.
LEMMA LeaveGrants ==
  ASSUME TypeInv, GrantInv, NEW c \in Clients, Leave(c), UNCHANGED <<preferencesMutex, store>>
  PROVE  GrantInv'
<1>1. /\ client' = [client EXCEPT ![c] = AtHome] /\ fd' = fd
      /\ backlog' = [i \in DOMAIN backlog |-> Closed(backlog[i], c)]
      /\ descriptor' = [n \in Descriptors |-> Closed(descriptor[n], c)]
  BY DEF Leave
<1>2. /\ client'[c] = AtHome /\ AtHome.todo = <<>>
      /\ \A d \in Clients : d # c => client'[d] = client[d]
  BY <1>1 DEF TypeInv, TypeOK, AtHome
<1>3. ASSUME NEW x \in Connections \cup {None}, NEW d \in Clients
      PROVE  /\ Owns(Closed(x, c), d) <=> d # c /\ Owns(x, d)
             /\ Closed(x, c).requests = x.requests /\ Closed(x, c).client = x.client
             /\ Closed(x, c) = None <=> x = None
  <2>1. CASE Owns(x, c)
    <3>1. x \in Connections /\ x.client = c
      BY <2>1 DEF Owns
    <3>2. /\ [x EXCEPT !.open = FALSE].open = FALSE
          /\ [x EXCEPT !.open = FALSE].requests = x.requests
          /\ [x EXCEPT !.open = FALSE].client = x.client
          /\ [x EXCEPT !.open = FALSE] \in Connections
      BY <3>1 DEF Connections
    <3> QED
      BY <2>1, <3>1, <3>2, NoneIsNoConnection DEF Owns, Closed
  <2>2. CASE ~Owns(x, c)
    BY <2>2 DEF Owns, Closed
  <2> QED
    BY <2>1, <2>2
<1>4. /\ Len(backlog') = Len(backlog) /\ DOMAIN backlog = 1 .. Len(backlog)
      /\ DOMAIN backlog' = DOMAIN backlog
      /\ \A i \in 1 .. Len(backlog) : backlog[i] \in Connections /\ backlog'[i] = Closed(backlog[i], c)
  BY <1>1 DEF TypeInv, TypeOK
<1>5. \A n \in Descriptors : descriptor[n] \in Connections \cup {None} /\ descriptor'[n] = Closed(descriptor[n], c)
  BY <1>1 DEF TypeInv, TypeOK
<1>6. fd # 0 => fd \in Descriptors
  BY DEF TypeInv, TypeOK
<1>7. OnlyServed' /\ ToolsGoOn'
  <2>1. OnlyServed'
    BY <1>1, <1>3, <1>5 DEF GrantInv, OnlyServed, Closed, Owns
  <2>2. ToolsGoOn'
    BY <1>2 DEF GrantInv, ToolsGoOn, Stages, IsHome
  <2> QED
    BY <2>1, <2>2
<1>8. OneConnection'
  <2>1. ASSUME NEW d \in Clients, IsHome(d)'
        PROVE  ~Connected(d)'
    <3>1. d # c => ~Connected(d)
      BY <1>2, <2>1 DEF GrantInv, OneConnection, IsHome
    <3> QED
      BY <1>3, <1>4, <1>5, <3>1 DEF Connected
  <2>2. ASSUME NEW d \in Clients, NEW i \in 1 .. Len(backlog'), Owns(backlog'[i], d)
        PROVE  /\ \A j \in 1 .. Len(backlog') : Owns(backlog'[j], d) => i = j
               /\ \A n \in Descriptors : ~Owns(descriptor'[n], d)
    BY <1>3, <1>4, <1>5, <2>2 DEF GrantInv, OneConnection
  <2> QED
    BY <2>1, <2>2 DEF OneConnection
<1>9. BacklogAsks'
  <2>1. ASSUME NEW i \in 1 .. Len(backlog')
        PROVE  /\ EarlyOnly(backlog'[i].requests)
               /\ \A d \in Clients : Owns(backlog'[i], d) =>
                    client'[d].todo \in Commands /\ client'[d].answers = <<>>
    BY <1>2, <1>3, <1>4 DEF GrantInv, BacklogAsks
  <2> QED
    BY <2>1 DEF BacklogAsks
<1>10. ASSUME fd # 0
       PROVE  /\ descriptor'[fd].requests = descriptor[fd].requests
              /\ descriptor'[fd].client = Served
              /\ \A d \in Clients : Owns(descriptor'[fd], d) =>
                   Owns(descriptor[fd], d) /\ client'[d] = client[d]
  <2>1. \A d \in Clients : Owns(descriptor'[fd], d) => d # c /\ Owns(descriptor[fd], d)
    BY <1>3, <1>5, <1>6, <1>10
  <2>2. /\ Closed(descriptor[fd], c).requests = descriptor[fd].requests
        /\ Closed(descriptor[fd], c).client = descriptor[fd].client
    BY <1>3, <1>5, <1>6, <1>10
  <2> QED
    BY <1>2, <1>5, <1>6, <1>10, <2>1, <2>2 DEF Served
<1>11. LockComesFirst'
  BY <1>1, <1>10 DEF GrantInv, LockComesFirst, Granted
<1>12. GrantsHold'
  BY <1>1, <1>10 DEF GrantInv, GrantsHold, Granted, Complete
<1>13. UnlocksAreGranted'
  BY <1>1, <1>10 DEF GrantInv, UnlocksAreGranted, Served, Complete
<1> QED
  BY <1>7, <1>8, <1>9, <1>11, <1>12, <1>13 DEF GrantInv

\* A tool writes a request to its connection.
LEMMA SendGrants ==
  ASSUME TypeInv, GrantInv, NEW c \in Clients, Send(c)
  PROVE  GrantInv'
<1>1. ~IsHome(c) /\ ~client[c].waits /\ UNCHANGED <<preferencesMutex, store>>
  BY DEF Send, storeVars
<1>2. CASE ~Connected(c)
  BY <1>1, <1>2, LeaveGrants DEF Send
<1>3. CASE Connected(c)
  <2> DEFINE request == Head(client[c].todo)
             message == [request |-> request, prefs |-> IF request = "unlock" THEN client[c].copy ELSE {}]
  <2>1. /\ client' = [client EXCEPT ![c].waits = TRUE] /\ fd' = fd
        /\ backlog' = [i \in DOMAIN backlog |-> Written(backlog[i], c, message)]
        /\ descriptor' = [n \in Descriptors |-> Written(descriptor[n], c, message)]
    BY <1>3 DEF Send
  <2>2. /\ client[c] \in Tool /\ client[c].todo \in Stages /\ client[c].todo # <<>>
        /\ request \in Requests
    BY <1>1, StagesOf DEF TypeInv, TypeOK, GrantInv, ToolsGoOn, IsHome
  <2>3. /\ client'[c].todo = client[c].todo /\ client'[c].waits = TRUE
        /\ client'[c].copy = client[c].copy /\ client'[c].answers = client[c].answers
        /\ \A d \in Clients : d # c => client'[d] = client[d]
    BY <2>1, <2>2 DEF TypeInv, TypeOK, Tool
  <2>4. message \in Message /\ message.request = request /\ message.prefs = IF request = "unlock" THEN client[c].copy ELSE {}
    BY <2>2 DEF Message, Tool
  <2> HIDE DEF message
  <2>5. ASSUME NEW x \in Connections \cup {None}
        PROVE  /\ \A d \in Clients : Owns(Written(x, c, message), d) <=> Owns(x, d)
               /\ Written(x, c, message).client = x.client
               /\ x = None => Written(x, c, message) = None
               /\ Written(x, c, message).requests =
                    IF Owns(x, c) THEN Append(x.requests, message) ELSE x.requests
    <3>1. CASE Owns(x, c)
      <4>1. x \in Connections
        BY <3>1 DEF Owns
      <4>2. x.requests \in Seq(Message)
        BY <4>1 DEF Connections
      <4>3. /\ [x EXCEPT !.requests = Append(@, message)].open = x.open
            /\ [x EXCEPT !.requests = Append(@, message)].requests = Append(x.requests, message)
            /\ [x EXCEPT !.requests = Append(@, message)].client = x.client
        BY <4>1 DEF Connections
      <4>4. [x EXCEPT !.requests = Append(@, message)] \in Connections
        <5>1. Append(x.requests, message) \in Seq(Message)
          BY <2>4, <4>2
        <5> QED
          BY <4>1, <5>1 DEF Connections
      <4>5. Written(x, c, message) = [x EXCEPT !.requests = Append(@, message)]
        BY <3>1 DEF Written
      <4>6. x # None /\ Written(x, c, message) # None
        BY <4>1, <4>4, <4>5, NoneIsNoConnection
      <4> QED
        BY <3>1, <4>3, <4>5, <4>6 DEF Owns
    <3>2. CASE ~Owns(x, c)
      BY <3>2 DEF Owns, Written
    <3> QED
      BY <3>1, <3>2
  <2>6. /\ Len(backlog') = Len(backlog) /\ DOMAIN backlog = 1 .. Len(backlog)
        /\ DOMAIN backlog' = DOMAIN backlog
        /\ \A i \in 1 .. Len(backlog) :
             backlog[i] \in Connections /\ backlog'[i] = Written(backlog[i], c, message)
    BY <2>1 DEF TypeInv, TypeOK
  <2>7. \A n \in Descriptors : /\ descriptor[n] \in Connections \cup {None}
                               /\ descriptor'[n] = Written(descriptor[n], c, message)
    BY <2>1 DEF TypeInv, TypeOK
  <2>8. ASSUME NEW s \in Seq(Message)
        PROVE  /\ Len(Append(s, message)) = Len(s) + 1 /\ Append(s, message)[Len(s) + 1] = message
               /\ \A k \in 1 .. Len(s) : Append(s, message)[k] = s[k]
               /\ EarlyOnly(s) /\ request \in Early => EarlyOnly(Append(s, message))
    <3>1. /\ Len(Append(s, message)) = Len(s) + 1 /\ Append(s, message)[Len(s) + 1] = message
          /\ \A k \in 1 .. Len(s) : Append(s, message)[k] = s[k]
      BY <2>4
    <3> QED
      BY <2>4, <3>1 DEF EarlyOnly
  <2>9. OnlyServed' /\ ToolsGoOn'
    <3>1. OnlyServed'
      BY <2>1, <2>5, <2>7 DEF GrantInv, OnlyServed
    <3>2. ToolsGoOn'
      BY <2>2, <2>3 DEF GrantInv, ToolsGoOn, IsHome
    <3> QED
      BY <3>1, <3>2
  <2>10. OneConnection'
    <3>1. ASSUME NEW d \in Clients, IsHome(d)'
          PROVE  ~Connected(d)'
      <4>1. ~Connected(d)
        BY <2>3, <3>1 DEF GrantInv, OneConnection, IsHome
      <4> QED
        BY <2>5, <2>6, <2>7, <4>1 DEF Connected
    <3>2. ASSUME NEW d \in Clients, NEW i \in 1 .. Len(backlog'), Owns(backlog'[i], d)
          PROVE  /\ \A j \in 1 .. Len(backlog') : Owns(backlog'[j], d) => i = j
                 /\ \A n \in Descriptors : ~Owns(descriptor'[n], d)
      BY <2>5, <2>6, <2>7, <3>2 DEF GrantInv, OneConnection
    <3> QED
      BY <3>1, <3>2 DEF OneConnection
  <2>11. BacklogAsks'
    <3>1. ASSUME NEW i \in 1 .. Len(backlog')
          PROVE  /\ EarlyOnly(backlog'[i].requests)
                 /\ \A d \in Clients : Owns(backlog'[i], d) =>
                      client'[d].todo \in Commands /\ client'[d].answers = <<>>
      <4>1. /\ EarlyOnly(backlog[i].requests) /\ backlog[i].requests \in Seq(Message)
            /\ \A d \in Clients : Owns(backlog[i], d) =>
                 client[d].todo \in Commands /\ client[d].answers = <<>>
        BY <2>6, <3>1 DEF GrantInv, BacklogAsks, Connections
      <4>2. Owns(backlog[i], c) => request \in Early
        BY <4>1, StagesOf DEF Stages, Early, Requests
      <4>3. EarlyOnly(backlog'[i].requests)
        BY <2>5, <2>6, <2>8, <3>1, <4>1, <4>2
      <4>4. \A d \in Clients : Owns(backlog'[i], d) => Owns(backlog[i], d)
        BY <2>5, <2>6, <3>1
      <4> QED
        BY <2>3, <4>1, <4>3, <4>4
    <3> QED
      BY <3>1 DEF BacklogAsks
  <2>12. ASSUME fd # 0
         PROVE  /\ descriptor[fd] \in Connections /\ descriptor[fd].requests \in Seq(Message)
                /\ descriptor'[fd].client = Served
                /\ \A d \in Clients : Owns(descriptor'[fd], d) <=> Owns(descriptor[fd], d)
                /\ descriptor'[fd].requests = IF Owns(descriptor[fd], c)
                                              THEN Append(descriptor[fd].requests, message)
                                              ELSE descriptor[fd].requests
    <3>1. fd \in Descriptors /\ descriptor[fd] \in Connections
      BY <2>12, ServedIsConnection
    <3>2. descriptor[fd].requests \in Seq(Message)
      BY <3>1 DEF Connections
    <3> QED
      BY <2>5, <2>7, <3>1, <3>2 DEF Served
  <2>13. LockComesFirst'
    <3>1. SUFFICES ASSUME NEW d \in Clients, fd # 0, Owns(descriptor'[fd], d),
                          Head(client'[d].todo) = "lock" \/ Granted(client'[d])
                   PROVE  EarlyOnly(descriptor'[fd].requests)
      BY <2>1 DEF LockComesFirst
    <3>2. Owns(descriptor[fd], d)
      BY <2>12, <3>1
    <3>3. Head(client[d].todo) = "lock" \/ Granted(client[d])
      BY <2>3, <3>1 DEF Granted
    <3>4. EarlyOnly(descriptor[fd].requests)
      BY <3>1, <3>2, <3>3 DEF GrantInv, LockComesFirst
    <3>5. Owns(descriptor[fd], c) => request \in Early
      <4>1. Owns(descriptor[fd], c) => d = c
        BY <3>2 DEF Owns
      <4>2. d = c => request \in {"lock", "query"}
        BY <2>3, <3>1 DEF Granted
      <4> QED
        BY <4>1, <4>2 DEF Early, Requests
    <3> QED
      BY <2>8, <2>12, <3>1, <3>4, <3>5
  <2>14. GrantsHold'
    <3>1. SUFFICES ASSUME NEW d \in Clients, fd # 0, Owns(descriptor'[fd], d)
                   PROVE  /\ Granted(client'[d]) => preferencesMutex = d /\ Complete(client'[d].copy)
                          /\ Head(client'[d].todo) = "lock" /\ client'[d].answers # <<>>
                             /\ Head(client'[d].answers) = "lock" => preferencesMutex = d
      BY <1>1, <2>1 DEF GrantsHold, Complete
    <3>2. Owns(descriptor[fd], d)
      BY <2>12, <3>1
    <3>3. /\ client'[d].todo = client[d].todo /\ client'[d].answers = client[d].answers
          /\ client'[d].copy = client[d].copy
          /\ Granted(client'[d]) => Granted(client[d])
      BY <2>3 DEF Granted
    <3> QED
      BY <3>1, <3>2, <3>3 DEF GrantInv, GrantsHold, Complete
  <2>15. UnlocksAreGranted'
    <3> DEFINE rs == descriptor[fd].requests
    <3>1. SUFFICES ASSUME NEW k \in 1 .. Len(descriptor'[fd].requests), fd # 0,
                          descriptor'[fd].requests[k].request = "unlock"
                   PROVE  /\ preferencesMutex = Served /\ Complete(descriptor'[fd].requests[k].prefs)
                          /\ \A j \in 1 .. k - 1 : descriptor'[fd].requests[j].request \in Early
      <4>1. fd # 0 => Served' = Served
        BY <2>1, <2>12 DEF Served
      <4>2. \A copy : Complete(copy)' <=> Complete(copy)
        BY <1>1, <2>1 DEF Complete
      <4> QED
        BY <1>1, <2>1, <4>1, <4>2 DEF UnlocksAreGranted
    <3>2. rs \in Seq(Message)
      BY <2>12, <3>1
    <3>3. CASE k \in 1 .. Len(rs) /\ \A j \in 1 .. k : descriptor'[fd].requests[j] = rs[j]
      <4>1. k \in 1 .. Len(rs) /\ descriptor'[fd].requests[k] = rs[k]
        BY <3>3
      <4>2. /\ preferencesMutex = Served /\ Complete(rs[k].prefs)
            /\ \A j \in 1 .. k - 1 : rs[j].request \in Early
        BY <3>1, <4>1 DEF GrantInv, UnlocksAreGranted
      <4>3. \A j \in 1 .. k - 1 : descriptor'[fd].requests[j] = rs[j]
        BY <3>3
      <4> HIDE DEF rs
      <4> QED
        BY <4>1, <4>2, <4>3
    <3>4. CASE Owns(descriptor[fd], c) /\ k = Len(rs) + 1
      <4>1. /\ descriptor'[fd].requests[k] = message
            /\ \A j \in 1 .. k - 1 : descriptor'[fd].requests[j] = rs[j]
        BY <2>8, <2>12, <3>1, <3>2, <3>4
      <4>2. request = "unlock" /\ message.prefs = client[c].copy
        BY <2>4, <3>1, <4>1
      <4>3. Granted(client[c]) /\ Served = c
        BY <1>1, <3>4, <4>2 DEF Granted, Owns, Served
      <4>4. EarlyOnly(rs) /\ preferencesMutex = c /\ Complete(client[c].copy)
        BY <3>1, <3>4, <4>3 DEF GrantInv, LockComesFirst, GrantsHold
      <4>5. preferencesMutex = Served /\ Complete(descriptor'[fd].requests[k].prefs)
        BY <4>1, <4>2, <4>3, <4>4
      <4>6. \A j \in 1 .. Len(rs) : rs[j].request \in Early
        BY <4>4 DEF EarlyOnly
      <4>7. \A j \in 1 .. k - 1 : descriptor'[fd].requests[j].request \in Early
        <5>1. Len(rs) \in Nat
          BY <3>2
        <5>2. k - 1 = Len(rs)
          BY <3>4, <5>1
        <5> QED
          BY <4>1, <4>6, <5>2
      <4> QED
        BY <4>5, <4>7
    <3>5. \/ k \in 1 .. Len(rs) /\ \A j \in 1 .. k : descriptor'[fd].requests[j] = rs[j]
          \/ Owns(descriptor[fd], c) /\ k = Len(rs) + 1
      <4>1. CASE Owns(descriptor[fd], c)
        <5>1. descriptor'[fd].requests = Append(rs, message)
          BY <2>12, <3>1, <4>1
        <5>2. k \in 1 .. (Len(rs) + 1)
          BY <2>8, <3>2, <5>1
        <5> QED
          BY <2>8, <3>2, <4>1, <5>1, <5>2
      <4>2. CASE ~Owns(descriptor[fd], c)
        BY <2>12, <3>1, <4>2
      <4> QED
        BY <4>1, <4>2
    <3> QED
      BY <3>3, <3>4, <3>5
  <2> QED
    BY <2>9, <2>10, <2>11, <2>13, <2>14, <2>15 DEF GrantInv
<1> QED
  BY <1>2, <1>3

\* A tool that is connected and served goes on after its first answer.
LEMMA GoOnGrants ==
  ASSUME TypeInv, GrantInv, NEW c \in Clients, NEW answer, ~IsHome(c), GoOn(c, answer),
         Len(client[c].todo) # 1, UNCHANGED <<preferencesMutex, store>>,
         \A i \in 1 .. Len(backlog) : ~Owns(backlog[i], c),
         Head(client[c].todo) = "lock" =>
             answer = "lock" /\ client[c].answers # <<>> /\ Head(client[c].answers) = "lock",
         Head(client[c].todo) = "query" => answer # "lock"
  PROVE  GrantInv'
<1> DEFINE tool == [todo |-> Tail(client[c].todo), waits |-> FALSE, copy |-> NextCopy(c, answer),
                    answers |-> SubSeq(client[c].answers, 2, Len(client[c].answers))]
<1>1. client' = [client EXCEPT ![c] = tool] /\ UNCHANGED socketVars
  BY DEF GoOn
<1>2. /\ client'[c] = tool /\ tool.todo = Tail(client[c].todo) /\ tool.waits = FALSE
      /\ tool.copy = NextCopy(c, answer)
      /\ \A d \in Clients : d # c => client'[d] = client[d]
  BY <1>1 DEF TypeInv, TypeOK
<1> HIDE DEF tool
<1>3. /\ client[c] \in Tool /\ client[c].todo \in Stages /\ client[c].todo # <<>>
      /\ client[c].todo \in Seq(Requests) /\ Tail(client[c].todo) \in Stages
      /\ Tail(client[c].todo) # <<>>
  <2>1. client[c] \in Tool /\ client[c].todo \in Stages /\ client[c].todo # <<>>
    BY DEF TypeInv, TypeOK, GrantInv, ToolsGoOn, IsHome
  <2>2. client[c].todo \in Seq(Requests) /\ Tail(client[c].todo) \in Stages
    BY <2>1, StagesOf
  <2>3. Len(client[c].todo) \in Nat /\ Len(client[c].todo) # 0
    BY <2>1, <2>2
  <2>4. Len(Tail(client[c].todo)) = Len(client[c].todo) - 1
    BY <2>1, <2>2
  <2>5. Tail(client[c].todo) # <<>>
    <3>1. Len(Tail(client[c].todo)) # 0
      BY <2>3, <2>4
    <3>2. Len(<<>>) = 0
      OBVIOUS
    <3> QED
      BY <3>1, <3>2
  <2> QED
    BY <2>1, <2>2, <2>5
<1>4. OnlyServed' /\ ToolsGoOn' /\ OneConnection' /\ BacklogAsks'
  <2>1. OnlyServed' /\ ToolsGoOn'
    <3>1. OnlyServed'
      BY <1>1, <1>2, <1>3 DEF GrantInv, OnlyServed, socketVars, IsHome
    <3>2. ToolsGoOn'
      <4>1. \A d \in Clients : d # c => client'[d].todo \in Stages /\ (IsHome(d)' => client'[d] = AtHome)
        BY <1>2 DEF GrantInv, ToolsGoOn, IsHome
      <4>2. client'[c].todo \in Stages /\ client'[c].todo # <<>>
        BY <1>2, <1>3
      <4> QED
        BY <4>1, <4>2 DEF ToolsGoOn, IsHome, AtHome
    <3> QED
      BY <3>1, <3>2
  <2>2. OneConnection'
    <3>1. backlog' = backlog /\ descriptor' = descriptor
      BY <1>1 DEF socketVars
    <3>2. \A d \in Clients : IsHome(d)' => IsHome(d)
      BY <1>2, <1>3 DEF IsHome
    <3>3. \A d \in Clients : Connected(d)' <=> Connected(d)
      BY <3>1 DEF Connected
    <3> QED
      BY <3>1, <3>2, <3>3 DEF GrantInv, OneConnection
  <2>3. BacklogAsks'
    BY <1>1, <1>2 DEF GrantInv, BacklogAsks, socketVars
  <2> QED
    BY <2>1, <2>2, <2>3
<1>5. Head(tool.todo) # "lock"
  <2>1. CASE Head(client[c].todo) \in {"lock", "query"}
    BY <1>2, <1>3, <2>1, StagesOf
  <2>2. CASE Head(client[c].todo) \notin {"lock", "query"}
    <3>1. tool.todo = <<"update">>
      BY <1>2, <1>3, <2>2, StagesOf
    <3> QED
      BY <3>1
  <2> QED
    BY <2>1, <2>2
<1>6. Granted(tool) => Head(client[c].todo) = "lock" \/ Head(client[c].todo) = "query"
  <2>1. ASSUME Head(client[c].todo) \notin {"lock", "query"}
        PROVE  ~Granted(tool)
    <3>1. tool.todo = <<"update">>
      BY <1>2, <1>3, <2>1, StagesOf
    <3> QED
      BY <3>1 DEF Granted
  <2> QED
    BY <2>1
<1>7. ASSUME fd # 0, Owns(descriptor[fd], c), Granted(tool)
      PROVE  /\ EarlyOnly(descriptor[fd].requests)
             /\ preferencesMutex = c /\ Complete(tool.copy)
  <2>1. CASE Head(client[c].todo) = "lock"
    <3>1. EarlyOnly(descriptor[fd].requests) /\ preferencesMutex = c
      BY <1>7, <2>1 DEF GrantInv, LockComesFirst, GrantsHold
    <3>2. store \subseteq tool.copy
      BY <1>2, <2>1 DEF NextCopy
    <3> QED
      BY <3>1, <3>2 DEF Complete
  <2>2. CASE Head(client[c].todo) = "query"
    <3>1. Granted(client[c])
      BY <2>2 DEF Granted
    <3>2. EarlyOnly(descriptor[fd].requests) /\ preferencesMutex = c /\ Complete(client[c].copy)
      BY <1>7, <3>1 DEF GrantInv, LockComesFirst, GrantsHold
    <3>3. tool.copy = client[c].copy \/ tool.copy = Removed(client[c].copy)
      BY <1>2, <2>2 DEF NextCopy
    <3>4. Contributed \cap {"target", "alias"} = {}
      BY DaemonConstants DEF Contributed
    <3> QED
      BY <3>2, <3>3, <3>4 DEF Complete, Removed
  <2> QED
    BY <1>6, <1>7, <2>1, <2>2
<1>8. LockComesFirst'
  <2>1. SUFFICES ASSUME NEW d \in Clients, fd # 0, Owns(descriptor[fd], d),
                        Head(client'[d].todo) = "lock" \/ Granted(client'[d])
                 PROVE  EarlyOnly(descriptor[fd].requests)
    BY <1>1 DEF LockComesFirst, socketVars
  <2>2. CASE d = c
    BY <1>2, <1>5, <1>7, <2>1, <2>2
  <2>3. CASE d # c
    BY <1>2, <2>1, <2>3 DEF GrantInv, LockComesFirst
  <2> QED
    BY <2>2, <2>3
<1>9. GrantsHold'
  <2>1. SUFFICES ASSUME NEW d \in Clients, fd # 0, Owns(descriptor[fd], d)
                 PROVE  /\ Granted(client'[d]) => preferencesMutex = d /\ Complete(client'[d].copy)
                        /\ Head(client'[d].todo) = "lock" /\ client'[d].answers # <<>>
                           /\ Head(client'[d].answers) = "lock" => preferencesMutex = d
    BY <1>1 DEF GrantsHold, socketVars, Complete
  <2>2. CASE d = c
    BY <1>2, <1>5, <1>7, <2>1, <2>2
  <2>3. CASE d # c
    BY <1>2, <2>1, <2>3 DEF GrantInv, GrantsHold
  <2> QED
    BY <2>2, <2>3
<1>10. UnlocksAreGranted'
  BY <1>1 DEF GrantInv, UnlocksAreGranted, Served, Complete, socketVars
<1> QED
  BY <1>4, <1>8, <1>9, <1>10 DEF GrantInv

LEMMA ToolGrants ==
  ASSUME TypeInv, GrantInv, NEW c \in Clients, ClientStep(c)
  PROVE  GrantInv'
<1>1. CASE Send(c)
  BY <1>1, SendGrants
<1>2. ASSUME client[c].waits, UNCHANGED <<preferencesMutex, store>>, NEW answer, GoOn(c, answer),
             client[c].answers = <<>> => answer = Head(client[c].todo) /\ answer # "lock",
             Head(client[c].todo) = "lock" => client[c].answers # <<>> /\ answer = "lock"
                                              /\ Head(client[c].answers) = "lock",
             Head(client[c].todo) = "query" => answer # "lock"
      PROVE  GrantInv'
  <2>1. CASE Len(client[c].todo) = 1
    BY <1>2, <2>1, LeaveGrants DEF GoOn
  <2>2. CASE Len(client[c].todo) # 1
    <3>1. ~IsHome(c)
      BY <1>2 DEF TypeInv, Structure
    <3>2. \A i \in 1 .. Len(backlog) : ~Owns(backlog[i], c)
      <4>1. SUFFICES ASSUME NEW i \in 1 .. Len(backlog), Owns(backlog[i], c) PROVE FALSE
        OBVIOUS
      <4>2. client[c].todo \in Commands /\ client[c].answers = <<>>
        BY <4>1 DEF GrantInv, BacklogAsks
      <4>3. Head(client[c].todo) # "lock"
        BY <1>2, <4>2
      <4>4. Len(client[c].todo) = 1
        BY <4>2, <4>3 DEF Commands, Modify, Refuse, Remove, ModifyDiscovery, Login, Logout
      <4> QED
        BY <2>2, <4>4
    <3> QED
      BY <1>2, <2>2, <3>1, <3>2, GoOnGrants
  <2> QED
    BY <2>1, <2>2
<1>3. CASE ReceiveAnswer(c)
  <2> DEFINE request == Head(client[c].todo)
             answer == Head(client[c].answers)
             read == IF request = "query" /\ answer # "active" THEN "query" ELSE answer
  <2>1. client[c].waits /\ client[c].answers # <<>> /\ UNCHANGED <<preferencesMutex, store>>
    BY <1>3 DEF ReceiveAnswer, storeVars
  <2>2. CASE request = "lock" /\ answer # "lock"
    BY <1>3, <2>1, <2>2, LeaveGrants DEF ReceiveAnswer
  <2>3. CASE ~(request = "lock" /\ answer # "lock")
    <3>1. GoOn(c, read)
      BY <1>3, <2>3 DEF ReceiveAnswer
    <3>2. /\ request = "lock" => read = "lock" /\ answer = "lock"
          /\ request = "query" => read # "lock"
      BY <2>3
    <3> HIDE DEF read
    <3> QED
      BY <1>2, <2>1, <3>1, <3>2
  <2> QED
    BY <2>2, <2>3
<1>4. CASE StopWaiting(c)
  <2>1. client[c].waits /\ client[c].answers = <<>> /\ UNCHANGED <<preferencesMutex, store>>
    BY <1>4 DEF StopWaiting, storeVars
  <2>2. CASE Head(client[c].todo) = "lock"
    BY <1>4, <2>1, <2>2, LeaveGrants DEF StopWaiting
  <2>3. CASE Head(client[c].todo) # "lock"
    <3>1. GoOn(c, Head(client[c].todo))
      BY <1>4, <2>3 DEF StopWaiting
    <3> QED
      BY <1>2, <2>1, <2>3, <3>1
  <2> QED
    BY <2>2, <2>3
<1> QED
  BY <1>1, <1>3, <1>4 DEF ClientStep

\* The daemon takes a request from the connection it serves, and answers it or not:
\* it locks for the one that asks, keeps the lock as it is, or gives it back.
LEMMA HandledGrants ==
  ASSUME TypeInv, GrantInv, fd # 0, HasRequest, backlog' = backlog,
         descriptor' = [descriptor EXCEPT ![fd].requests = Tail(@)],
         NEW answer,
         \/ client' = client /\ fd' = 0 /\ preferencesMutex' = None
         \/ /\ \/ client' = client
               \/ descriptor[fd].open /\ client' = [client EXCEPT ![Served].answers = Append(@, answer)]
            /\ fd' = fd
            /\ \/ /\ preferencesMutex' = preferencesMutex /\ Request.request # "unlock"
                  /\ answer # "lock" /\ store' \cap Contributed = store \cap Contributed
               \/ preferencesMutex = None /\ preferencesMutex' = Served /\ store' = store
               \/ preferencesMutex' = None /\ Request.request \in {"unlock", "release"}
  PROVE  GrantInv'
<1> DEFINE rs == descriptor[fd].requests
<1>1. /\ fd \in Descriptors /\ descriptor[fd] \in Connections /\ Served \in Clients
      /\ rs \in Seq(Message) /\ rs # <<>>
  BY ServedIsConnection DEF Served, Connections, HasRequest
<1>2. /\ Tail(rs) \in Seq(Message) /\ Len(Tail(rs)) = Len(rs) - 1 /\ Len(rs) \in Nat \ {0}
      /\ \A k \in 1 .. Len(Tail(rs)) : k + 1 \in 1 .. Len(rs) /\ Tail(rs)[k] = rs[k + 1]
      /\ Request = rs[1] /\ 1 \in 1 .. Len(rs)
  BY <1>1 DEF Request
<1>3. /\ descriptor'[fd].requests = Tail(rs) /\ descriptor'[fd].client = Served
      /\ descriptor'[fd].open = descriptor[fd].open /\ descriptor'[fd] # None /\ descriptor[fd] # None
      /\ \A n \in Descriptors : n # fd => descriptor'[n] = descriptor[n]
  <2>1. [descriptor[fd] EXCEPT !.requests = Tail(@)] \in Connections
    BY <1>1, <1>2 DEF Connections
  <2>2. descriptor'[fd] = [descriptor[fd] EXCEPT !.requests = Tail(@)]
    BY <1>1 DEF TypeInv, TypeOK
  <2> QED
    BY <1>1, <2>1, <2>2, NoneIsNoConnection DEF Connections, TypeInv, TypeOK, Served
<1>4. \A n \in Descriptors : \A d : Owns(descriptor'[n], d) <=> Owns(descriptor[n], d)
  BY <1>3 DEF Owns, Served
<1>5. /\ \A d \in Clients : /\ client'[d].todo = client[d].todo /\ client'[d].waits = client[d].waits
                            /\ client'[d].copy = client[d].copy
                            /\ ~Owns(descriptor[fd], d) => client'[d] = client[d]
      /\ \A d \in Clients : Granted(client'[d]) <=> Granted(client[d])
  <2>1. CASE client' = client
    BY <2>1
  <2>2. CASE descriptor[fd].open /\ client' = [client EXCEPT ![Served].answers = Append(@, answer)]
    <3>1. Owns(descriptor[fd], Served)
      BY <1>3, <2>2 DEF Owns, Served
    <3>2. \A d \in Clients : d # Served => client'[d] = client[d]
      BY <2>2 DEF TypeInv, TypeOK
    <3>3. /\ client'[Served].todo = client[Served].todo /\ client'[Served].waits = client[Served].waits
          /\ client'[Served].copy = client[Served].copy
      BY <1>1, <2>2 DEF TypeInv, TypeOK, Tool
    <3> QED
      BY <3>1, <3>2, <3>3 DEF Granted
  <2> QED
    BY <2>1, <2>2
<1>6. EarlyOnly(rs) => EarlyOnly(Tail(rs)) /\ Request.request \in Early
  BY <1>2 DEF EarlyOnly
<1>7. OnlyServed'
  BY <1>3 DEF GrantInv, OnlyServed
<1>8. \A d \in Clients : IsHome(d) => client'[d] = client[d]
  <2>1. ASSUME NEW d \in Clients, IsHome(d)
        PROVE  ~Owns(descriptor[fd], d)
    BY <1>1, <2>1 DEF GrantInv, OneConnection, Connected
  <2> QED
    BY <1>5, <2>1
<1>9. ToolsGoOn'
  BY <1>5, <1>8 DEF GrantInv, ToolsGoOn, IsHome
<1>10. OneConnection'
  <2>1. \A d \in Clients : Connected(d)' <=> Connected(d)
    BY <1>4 DEF Connected
  <2>2. \A d \in Clients : IsHome(d)' => ~Connected(d)'
    BY <1>5, <2>1 DEF GrantInv, OneConnection, IsHome
  <2>3. \A d \in Clients : \A i \in 1 .. Len(backlog) : Owns(backlog[i], d) =>
          /\ \A j \in 1 .. Len(backlog) : Owns(backlog[j], d) => i = j
          /\ \A n \in Descriptors : ~Owns(descriptor'[n], d)
    BY <1>4 DEF GrantInv, OneConnection
  <2> QED
    BY <2>2, <2>3 DEF OneConnection
<1>11. BacklogAsks'
  <2>1. ASSUME NEW i \in 1 .. Len(backlog), NEW d \in Clients, Owns(backlog[i], d)
        PROVE  client'[d] = client[d]
    BY <1>1, <1>5, <2>1 DEF GrantInv, OneConnection
  <2> QED
    BY <2>1 DEF GrantInv, BacklogAsks
<1>12. LockComesFirst'
  <2>1. SUFFICES ASSUME NEW d \in Clients, fd' # 0, Owns(descriptor'[fd'], d),
                        Head(client'[d].todo) = "lock" \/ Granted(client'[d])
                 PROVE  EarlyOnly(descriptor'[fd'].requests)
    BY DEF LockComesFirst
  <2>2. fd' = fd
    BY <2>1
  <2>3. Owns(descriptor[fd], d) /\ (Head(client[d].todo) = "lock" \/ Granted(client[d]))
    BY <1>1, <1>4, <1>5, <2>1, <2>2
  <2> QED
    BY <1>3, <1>6, <2>2, <2>3 DEF GrantInv, LockComesFirst
<1>13. GrantsHold'
  <2>1. SUFFICES ASSUME NEW d \in Clients, fd' # 0, Owns(descriptor'[fd'], d)
                 PROVE  /\ Granted(client'[d]) => preferencesMutex' = d /\ store' \cap Contributed \subseteq client'[d].copy
                        /\ Head(client'[d].todo) = "lock" /\ client'[d].answers # <<>>
                           /\ Head(client'[d].answers) = "lock" => preferencesMutex' = d
    BY DEF GrantsHold, Complete
  <2>2. fd' = fd /\ Owns(descriptor[fd], d) /\ Served = d
    BY <1>1, <1>4, <2>1 DEF Owns, Served
  <2>3. Head(client[d].todo) = "lock" \/ Granted(client[d]) => Request.request \in Early
    BY <1>6, <2>2 DEF GrantInv, LockComesFirst
  <2>4. ASSUME Granted(client'[d])
        PROVE  preferencesMutex' = d /\ store' \cap Contributed \subseteq client'[d].copy
    <3>1. Granted(client[d]) /\ preferencesMutex = d /\ store \cap Contributed \subseteq client[d].copy
      BY <1>5, <2>2, <2>4 DEF GrantInv, GrantsHold, Complete
    <3>2. Request.request \notin {"unlock", "release"}
      BY <2>3, <3>1 DEF Early
    <3>3. preferencesMutex' = d /\ store' \cap Contributed = store \cap Contributed
      BY <2>1, <2>2, <3>1, <3>2, DaemonConstants
    <3> QED
      BY <1>5, <3>1, <3>3
  <2>5. ASSUME Head(client'[d].todo) = "lock", client'[d].answers # <<>>, Head(client'[d].answers) = "lock"
        PROVE  preferencesMutex' = d
    <3>1. Head(client[d].todo) = "lock" /\ Request.request \notin {"unlock", "release"}
      BY <1>5, <2>3, <2>5 DEF Early
    <3>2. CASE preferencesMutex = None /\ preferencesMutex' = Served /\ store' = store
      BY <2>2, <3>2
    <3>3. CASE preferencesMutex' = preferencesMutex /\ answer # "lock"
      <4>1. client[d].answers # <<>> /\ Head(client[d].answers) = "lock"
        <5>1. CASE client' = client
          BY <2>5, <5>1
        <5>2. CASE client' = [client EXCEPT ![Served].answers = Append(@, answer)]
          <6>1. client'[d].answers = Append(client[d].answers, answer)
            BY <2>2, <5>2 DEF TypeInv, TypeOK, Tool
          <6>2. client[d].answers \in Seq(Answers)
            BY DEF TypeInv, TypeOK, Tool
          <6>3. CASE client[d].answers = <<>>
            <7>1. \A a : Append(<<>>, a) = <<a>>
              OBVIOUS
            <7>2. client'[d].answers = <<answer>>
              BY <6>1, <6>3, <7>1
            <7> QED
              BY <2>5, <3>3, <7>2
          <6>4. CASE client[d].answers # <<>>
            <7>1. \A a : Head(Append(client[d].answers, a)) = Head(client[d].answers)
              BY <6>2, <6>4
            <7> QED
              BY <2>5, <6>1, <6>4, <7>1
          <6> QED
            BY <6>3, <6>4
        <5> QED
          BY <2>1, <2>2, <5>1, <5>2
      <4> QED
        BY <2>2, <3>1, <3>3, <4>1 DEF GrantInv, GrantsHold
    <3> QED
      BY <2>1, <3>1, <3>2, <3>3
  <2> QED
    BY <2>4, <2>5
<1>14. UnlocksAreGranted'
  <2>1. SUFFICES ASSUME fd' # 0, NEW k \in 1 .. Len(descriptor'[fd'].requests),
                        descriptor'[fd'].requests[k].request = "unlock"
                 PROVE  /\ preferencesMutex' = Served /\ store' \cap Contributed \subseteq descriptor'[fd'].requests[k].prefs
                        /\ \A j \in 1 .. k - 1 : descriptor'[fd'].requests[j].request \in Early
    <3>1. fd' # 0 => Served' = Served
      BY <1>1, <1>3 DEF Served
    <3> QED
      BY <3>1 DEF UnlocksAreGranted, Complete
  <2>2. /\ fd' = fd /\ k \in 1 .. Len(Tail(rs)) /\ Tail(rs)[k] = rs[k + 1] /\ k + 1 \in 1 .. Len(rs)
        /\ descriptor'[fd'].requests = Tail(rs)
    BY <1>1, <1>2, <1>3, <2>1
  <2>3. /\ preferencesMutex = Served /\ store \cap Contributed \subseteq rs[k + 1].prefs
        /\ \A j \in 1 .. (k + 1) - 1 : rs[j].request \in Early
    BY <2>1, <2>2 DEF GrantInv, UnlocksAreGranted, Complete
  <2>4. Request.request \notin {"unlock", "release"}
    <3>1. 1 \in 1 .. (k + 1) - 1
      BY <1>2, <2>2
    <3> QED
      BY <1>2, <2>3, <3>1 DEF Early
  <2>5. preferencesMutex' = Served /\ store' \cap Contributed = store \cap Contributed
    BY <1>1, <2>1, <2>3, <2>4, DaemonConstants
  <2>6. \A j \in 1 .. k - 1 : Tail(rs)[j].request \in Early
    <3>1. SUFFICES ASSUME NEW j \in 1 .. k - 1 PROVE Tail(rs)[j].request \in Early
      OBVIOUS
    <3>2. Len(Tail(rs)) \in Nat
      BY <1>2
    <3>3. j \in 1 .. Len(Tail(rs)) /\ j + 1 \in 1 .. (k + 1) - 1
      <4> HIDE DEF rs
      <4> QED
        BY <2>2, <3>2
    <3> QED
      BY <1>2, <2>3, <3>3
  <2> QED
    BY <2>2, <2>3, <2>5, <2>6
<1> QED
  BY <1>7, <1>9, <1>10, <1>11, <1>12, <1>13, <1>14 DEF GrantInv

LEMMA RequestGrants ==
  ASSUME TypeInv, GrantInv, fd # 0, ServeRequest
  PROVE  GrantInv'
<1>1. ASSUME NEW request, Handle(request)
      PROVE  /\ HasRequest /\ backlog' = backlog /\ Request.request = request
             /\ descriptor' = [descriptor EXCEPT ![fd].requests = Tail(@)]
  BY <1>1 DEF Handle
<1>2. ASSUME NEW answer, NEW lock, Reply(answer, lock)
      PROVE  \/ client' = client /\ fd' = 0 /\ preferencesMutex' = None
             \/ /\ descriptor[fd].open /\ client' = [client EXCEPT ![Served].answers = Append(@, answer)]
                /\ fd' = fd /\ preferencesMutex' = lock
  BY <1>2 DEF Reply, Answer, Served
<1>3. CASE LockAndSync
  <2>1. /\ preferencesMutex = None /\ Handle("lock") /\ store' = store
        /\ Reply("lock", Served) \/ Reply("denied", preferencesMutex)
    BY <1>3 DEF LockAndSync, Served
  <2>2. CASE Reply("lock", Served)
    <3>1. \/ client' = client /\ fd' = 0 /\ preferencesMutex' = None
          \/ /\ descriptor[fd].open /\ client' = [client EXCEPT ![Served].answers = Append(@, "lock")]
             /\ fd' = fd /\ preferencesMutex' = Served
      BY <1>2, <2>2
    <3>2. /\ HasRequest /\ backlog' = backlog
          /\ descriptor' = [descriptor EXCEPT ![fd].requests = Tail(@)]
      BY <1>1, <2>1
    <3> QED
      <4>1. CASE client' = client /\ fd' = 0 /\ preferencesMutex' = None
        BY <3>2, <4>1, HandledGrants
      <4>2. CASE /\ descriptor[fd].open /\ client' = [client EXCEPT ![Served].answers = Append(@, "lock")]
                 /\ fd' = fd /\ preferencesMutex' = Served
        BY <2>1, <3>2, <4>2, HandledGrants
      <4> QED
        BY <3>1, <4>1, <4>2
  <2>3. CASE Reply("denied", preferencesMutex)
    <3>1. \/ client' = client /\ fd' = 0 /\ preferencesMutex' = None
          \/ /\ descriptor[fd].open /\ client' = [client EXCEPT ![Served].answers = Append(@, "denied")]
             /\ fd' = fd /\ preferencesMutex' = preferencesMutex
      BY <1>2, <2>3
    <3>2. /\ HasRequest /\ backlog' = backlog
          /\ descriptor' = [descriptor EXCEPT ![fd].requests = Tail(@)]
          /\ Request.request # "unlock" /\ "denied" # "lock"
      BY <1>1, <2>1
    <3> QED
      <4>1. CASE client' = client /\ fd' = 0 /\ preferencesMutex' = None
        BY <3>2, <4>1, HandledGrants
      <4>2. CASE /\ descriptor[fd].open /\ client' = [client EXCEPT ![Served].answers = Append(@, "denied")]
                 /\ fd' = fd /\ preferencesMutex' = preferencesMutex
        BY <2>1, <3>2, <4>2, HandledGrants
      <4> QED
        BY <3>1, <4>1, <4>2
  <2> QED
    BY <2>1, <2>2, <2>3
<1>4. CASE LockBlocks
  BY <1>4, SameGrants DEF LockBlocks, grantVars, clientVars, socketVars, storeVars
<1>5. CASE UnlockAndSync
  <2>1. Handle("unlock") /\ Reply("unlock", None)
    BY <1>5 DEF UnlockAndSync
  <2> QED
    BY <1>1, <1>2, <2>1, HandledGrants
<1>6. CASE Release
  <2>1. Handle("release") /\ Reply("release", None)
    BY <1>6 DEF Release
  <2> QED
    BY <1>1, <1>2, <2>1, HandledGrants
<1>7. ASSUME NEW request, NEW answer, Handle(request), Reply(answer, preferencesMutex),
             request # "unlock", answer # "lock", store' \cap Contributed = store \cap Contributed
      PROVE  GrantInv'
  BY <1>1, <1>2, <1>7, HandledGrants
<1>8. CASE IsTargetActive
  <2> DEFINE answer == IF active THEN "active" ELSE "query"
  <2>1. Handle("query") /\ Reply(answer, preferencesMutex) /\ store' = store
    BY <1>8 DEF IsTargetActive
  <2>2. answer # "lock"
    OBVIOUS
  <2> HIDE DEF answer
  <2> QED
    BY <1>7, <2>1, <2>2
<1>9. CASE UpdateDiscovery
  BY <1>7, <1>9 DEF UpdateDiscovery
<1>10. CASE LoginRequest
  <2>1. Handle("login") /\ Reply("login", preferencesMutex)
    BY <1>10 DEF LoginRequest
  <2>2. store' = store \/ store' = WithAlias(store)
    BY <1>10 DEF LoginRequest, LoginCommon
  <2>3. store' \cap Contributed = store \cap Contributed
    BY <2>2, DaemonConstants DEF WithAlias, Contributed
  <2> QED
    BY <1>7, <2>1, <2>3
<1>11. CASE LogoutRequest
  <2>1. CASE active
    <3>1. /\ Handle("logout") /\ client' = client /\ fd' = fd
          /\ preferencesMutex' = preferencesMutex /\ store' = store
      BY <1>11, <2>1 DEF LogoutRequest
    <3>2. "logout" # "lock" /\ "logout" # "unlock"
      OBVIOUS
    <3> QED
      BY <1>1, <3>1, <3>2, HandledGrants
  <2>2. CASE ~active
    BY <1>7, <1>11, <2>2 DEF LogoutRequest
  <2> QED
    BY <2>1, <2>2
<1> QED
  BY <1>3, <1>4, <1>5, <1>6, <1>8, <1>9, <1>10, <1>11 DEF ServeRequest

\* The answer to a logout goes to whoever is served: it is never taken for the lock.
LEMMA LogoutCompleteGrants ==
  ASSUME TypeInv, GrantInv, NEW n \in Descriptors, LogoutComplete(n)
  PROVE  GrantInv'
<1>1. UNCHANGED <<backlog, descriptor, store>>
  BY DEF LogoutComplete
<1>2. CASE UNCHANGED <<client, fd, preferencesMutex>>
  BY <1>1, <1>2, SameGrants DEF grantVars
<1>3. CASE client' = client /\ fd' = 0 /\ preferencesMutex' = None
  <2>1. OnlyServed' /\ ToolsGoOn' /\ OneConnection' /\ BacklogAsks'
    BY <1>1, <1>3 DEF GrantInv, OnlyServed, ToolsGoOn, OneConnection, BacklogAsks, IsHome, Connected
  <2> QED
    BY <1>3, <2>1 DEF GrantInv, LockComesFirst, GrantsHold, UnlocksAreGranted
<1>4. CASE /\ descriptor[n] # None /\ descriptor[n].open
           /\ client' = [client EXCEPT ![descriptor[n].client].answers = Append(@, "logout")]
           /\ fd' = fd /\ preferencesMutex' = preferencesMutex
  <2> DEFINE c == descriptor[n].client
  <2>1. c \in Clients /\ Owns(descriptor[n], c)
    BY <1>4 DEF TypeInv, TypeOK, Connections, Owns
  <2>2. /\ client'[c].todo = client[c].todo /\ client'[c].waits = client[c].waits
        /\ client'[c].copy = client[c].copy /\ client'[c].answers = Append(client[c].answers, "logout")
        /\ \A d \in Clients : d # c => client'[d] = client[d]
    BY <1>4, <2>1 DEF TypeInv, TypeOK, Tool
  <2>3. ~IsHome(c) /\ \A i \in 1 .. Len(backlog) : ~Owns(backlog[i], c)
    BY <2>1 DEF GrantInv, OneConnection, Connected
  <2>4. client'[c].answers # <<>> /\ Head(client'[c].answers) = "lock" =>
          client[c].answers # <<>> /\ Head(client[c].answers) = "lock"
    <3>1. client[c].answers \in Seq(Answers)
      BY <2>1 DEF TypeInv, TypeOK, Tool
    <3>2. CASE client[c].answers = <<>>
      <4>1. \A a : Append(<<>>, a) = <<a>>
        OBVIOUS
      <4>2. client'[c].answers = <<"logout">>
        BY <2>2, <3>2, <4>1
      <4> QED
        BY <4>2
    <3>3. CASE client[c].answers # <<>>
      <4>1. \A a : Head(Append(client[c].answers, a)) = Head(client[c].answers)
        BY <3>1, <3>3
      <4> QED
        BY <2>2, <3>3, <4>1
    <3> QED
      BY <3>2, <3>3
  <2> HIDE DEF c
  <2>5. OnlyServed' /\ ToolsGoOn' /\ OneConnection' /\ BacklogAsks'
    <3>1. OnlyServed'
      BY <1>1, <1>4, <2>2, <2>3 DEF GrantInv, OnlyServed, IsHome
    <3>2. ToolsGoOn'
      BY <2>2, <2>3 DEF GrantInv, ToolsGoOn, IsHome
    <3>3. OneConnection'
      <4>1. \A d \in Clients : IsHome(d)' => IsHome(d)
        BY <2>2, <2>3 DEF IsHome
      <4>2. backlog' = backlog /\ \A d \in Clients : Connected(d)' => Connected(d)
        BY <1>1, <1>4 DEF Connected
      <4>3. \A d \in Clients, m \in Descriptors : Owns(descriptor'[m], d) => Owns(descriptor[m], d)
        BY <1>1, <1>4
      <4> QED
        BY <4>1, <4>2, <4>3 DEF GrantInv, OneConnection
    <3>4. BacklogAsks'
      BY <1>1, <1>4, <2>2, <2>3 DEF GrantInv, BacklogAsks, IsHome
    <3> QED
      BY <3>1, <3>2, <3>3, <3>4
  <2>6. \A d \in Clients : /\ client'[d].todo = client[d].todo /\ client'[d].copy = client[d].copy
                           /\ Granted(client'[d]) <=> Granted(client[d])
                           /\ client'[d].answers # <<>> /\ Head(client'[d].answers) = "lock" =>
                                client[d].answers # <<>> /\ Head(client[d].answers) = "lock"
    BY <2>2, <2>4 DEF Granted
  <2>7. LockComesFirst'
    BY <1>1, <1>4, <2>6 DEF GrantInv, LockComesFirst
  <2>8. GrantsHold'
    BY <1>1, <1>4, <2>6 DEF GrantInv, GrantsHold, Complete
  <2>9. UnlocksAreGranted'
    BY <1>1, <1>4 DEF GrantInv, UnlocksAreGranted, Served, Complete
  <2> QED
    BY <2>5, <2>7, <2>8, <2>9 DEF GrantInv
<1> QED
  BY <1>2, <1>3, <1>4 DEF LogoutComplete, Answer

\* Whatever tools do, what the holder of the lock is about to store is up to date, as
\* long as the run loop does not log in meanwhile.
LEMMA GrantsKept ==
  ASSUME "busyLogin" \notin Faults, TypeInv, GrantInv, [Next]_vars
  PROVE  GrantInv'
<1>1. ASSUME NEW c \in Clients, Connect(c) \/ ClientStep(c)
      PROVE  GrantInv'
  BY <1>1, ConnectGrants, ToolGrants
<1>2. CASE ServeClient
  <2>1. CASE ReadSignalled \/ NothingReceived \/ PeekNext
    BY <2>1, SameGrants DEF ReadSignalled, NothingReceived, PeekNext, grantVars, clientVars, socketVars, storeVars
  <2> QED
    BY <1>2, <2>1, AcceptGrants, RequestGrants DEF ServeClient
<1>3. ASSUME NEW n \in Descriptors, LogoutComplete(n)
      PROVE  GrantInv'
  BY <1>3, LogoutCompleteGrants
<1>4. CASE SessionStep
  <2>1. UNCHANGED grantVars
    BY <1>4 DEF SessionStep, ProcessQueuedLogin, SessionTimeout, PrepareForSystemSleep,
       PrepareForSystemSleepComplete, RestoreFromSystemSleep, grantVars, clientVars, socketVars, storeVars
  <2>2. preferencesMutex # None => store' = store
    BY <1>4 DEF SessionStep, ProcessQueuedLogin, SessionTimeout, PrepareForSystemSleep,
       PrepareForSystemSleepComplete, RestoreFromSystemSleep, MayLogin, storeVars
  <2> QED
    BY <2>1, <2>2, SameGrants
<1>5. CASE DiscoveryStep
  <2>1. UNCHANGED grantVars
    BY <1>5 DEF DiscoveryStep, LaunchDiscoveryThread, RunDiscovery, ProcessDiscoveryData,
       grantVars, clientVars, socketVars, storeVars
  <2>2. preferencesMutex # None => store' = store
    BY <1>5 DEF DiscoveryStep, LaunchDiscoveryThread, RunDiscovery, ProcessDiscoveryData, storeVars
  <2> QED
    BY <2>1, <2>2, SameGrants
<1>6. CASE DaemonRestarts
  BY <1>6, RestartGrants
<1>7. CASE UNCHANGED vars
  BY <1>7, SameGrants DEF vars, grantVars, clientVars, socketVars, storeVars
<1> QED
  BY <1>1, <1>2, <1>3, <1>4, <1>5, <1>6, <1>7 DEF Next

LEMMA GrantsAlways ==
  ASSUME "busyLogin" \notin Faults
  PROVE  Spec => [](TypeInv /\ GrantInv)
<1>1. TypeInv /\ GrantInv /\ [Next]_vars => GrantInv'
  BY GrantsKept
<1> QED
  BY <1>1, GrantInit, InitTypes, NextTypes, PTL DEF Spec

\* Whatever tools run at the same time, stop waiting or are closed, and whenever the
\* daemon is restarted: preferences are stored by the tool that locked them, and what
\* other tools and discovery stored before is kept (iSCSIDPreferencesIOUnlockAndSync),
\* when the run loop does not log in while a tool has the lock.
THEOREM NoChangeIsLost ==
  ASSUME "busyLogin" \notin Faults
  PROVE  Spec => ChangesAreKept
<1>1. ASSUME TypeInv, GrantInv, Receives, UnlockAndSync
      PROVE  /\ preferencesMutex = descriptor[fd].client
             /\ store \cap (Clients \cup {"found"}) \subseteq store'
  <2>1. fd # 0
    <3>1. runLoop = "receive" /\ HasRequest /\ descriptor' = [descriptor EXCEPT ![fd].requests = Tail(@)]
      BY <1>1 DEF UnlockAndSync, Handle
    <3> QED
      BY <3>1, <1>1 DEF Receives
  <2>2. descriptor[fd] \in Connections /\ descriptor[fd].requests \in Seq(Message) /\ HasRequest
        /\ Request.request = "unlock" /\ Served \in Clients
    BY <1>1, <2>1, ServedIsConnection DEF UnlockAndSync, Handle, Served, Connections
  <2>3. Request = descriptor[fd].requests[1] /\ 1 \in 1 .. Len(descriptor[fd].requests)
    BY <2>2 DEF Request, HasRequest
  <2>4. preferencesMutex = Served /\ Complete(Request.prefs)
    BY <1>1, <2>1, <2>2, <2>3 DEF GrantInv, UnlocksAreGranted
  <2>5. store' = Request.prefs
    BY <1>1, <2>2, <2>4, DaemonConstants DEF UnlockAndSync
  <2> QED
    BY <2>4, <2>5 DEF Complete, Contributed, Served
<1>2. TypeInv /\ GrantInv /\ Receives /\ [Next]_vars =>
        [UnlockAndSync => /\ preferencesMutex = descriptor[fd].client
                          /\ store \cap (Clients \cup {"found"}) \subseteq store']_vars
  BY <1>1
<1> QED
  BY <1>2, GrantsAlways, ReceivesHolds, PTL DEF Spec, ChangesAreKept
=============================================================================
