-------------------------------- MODULE Daemon --------------------------------
(***************************************************************************)
(* The daemon's run loop (iSCSIDaemon.c) and the tools that talk to it     *)
(* (iSCSIDaemonInterface.c, iSCSICtl.m).                                   *)
(*                                                                         *)
(* One thread serves everything: connections of tools, one request at a    *)
(* time; the discovery timer and what discovery found; logins that waited  *)
(* for the network; volumes that were unmounted; sleep and wake.  A tool   *)
(* that changes the preferences locks them in one request and stores them  *)
(* in a later one, and what the run loop does in between is up to it.      *)
(***************************************************************************)
EXTENDS Naturals, Sequences

CONSTANTS
    Clients,        \* tools
    MaxCommands,    \* bound: commands of each
    Faults,         \* what happens at the same time, see Environment
    None

VARIABLES
    client,         \* per tool: requests to make, whether it waits, its copy, answers
    commands,       \* per tool: commands begun
    backlog,        \* connections that were not accepted
    descriptor,     \* the daemon's open connections, by file descriptor
    fd,             \* reqInfo: the one that is served, or 0
    listening,      \* whether reqInfo's CFSocket is valid
    readSignal,     \* whether socketSourceRead is signalled
    runLoop,        \* what the main thread does
    preferencesMutex, \* None, or who locked it
    store,          \* the stored preferences
    preferences,    \* the daemon's
    discoveryMutex, \* whether it is locked
    threads,        \* discovery threads
    discoveryRecords,
    discoverySignal,
    active,         \* whether the target has a session
    queuedLogin,    \* whether a login waits for the network
    unmounting,     \* logouts that wait for volumes: whom to answer, 0 for sleep
    activeTargets   \* whether the target is to be restored at wakeup

clientVars == <<client, commands>>
socketVars == <<backlog, descriptor, fd, listening, readSignal>>
storeVars == <<preferencesMutex, store, preferences>>
discoveryVars == <<discoveryMutex, threads, discoveryRecords, discoverySignal>>
sessionVars == <<active, queuedLogin, unmounting, activeTargets>>
vars == <<clientVars, socketVars, runLoop, storeVars, discoveryVars, sessionVars>>

Environment == {
    "overlap",          \* a tool starts while another runs
    "slowClient",       \* a tool takes more than 250 ms for its next request
    "impatient",        \* a tool gives up after 10 s
    "busyDiscovery",    \* discovery runs while a tool does
    "longDiscovery",    \* discovery takes longer than its interval
    "busyLogin",        \* the run loop logs in while a tool has the lock
    "staleLogin"}       \* a target accepts a login after it was removed

ASSUME DaemonConstants ==
    /\ MaxCommands \in Nat
    /\ Faults \subseteq Environment
    /\ None \notin Clients
    /\ Clients \cap {"found", "target", "alias"} = {}

Descriptors == 1 .. 2   \* enough: accepting closes the previous connection

(***************************************************************************)
(* The preferences are what was put into them: the change of each tool,    *)
(* what discovery found, the target and the alias it told at login.        *)
(***************************************************************************)
Items == Clients \cup {"found", "target", "alias"}

Removed(prefs) == prefs \ {"target", "alias"}

\* Mutant: an alias that was not furnished is stored as well.
WithNullAlias(prefs) == IF "target" \in prefs THEN prefs \cup {None} ELSE prefs

\* iSCSIPreferencesSetTargetAlias, for a target that exists.
WithAlias(prefs) == IF "target" \in prefs THEN prefs \cup {"alias"} ELSE prefs

(***************************************************************************)
(* Commands are sequences of requests.  "unlock" has the tool's            *)
(* preferences, "release" is an unlock without any, after a failed check.  *)
(* Queries whose answers decide nothing that is kept are left out.         *)
(***************************************************************************)
Modify == <<"lock", "unlock">>
Refuse == <<"lock", "release">>
Remove == <<"lock", "query", "unlock">>
ModifyDiscovery == <<"lock", "unlock", "update">>
Login == <<"login">>
Logout == <<"logout">>
Commands == {Modify, Refuse, Remove, ModifyDiscovery, Login, Logout}

Requests == {"lock", "query", "unlock", "release", "update", "login", "logout"}
Answers == Requests \cup {"denied", "active"}

Connection(c) == [client |-> c, open |-> TRUE, requests |-> <<>>]

AtHome == [todo |-> <<>>, waits |-> FALSE, copy |-> {}, answers |-> <<>>]

Tool == [todo : Seq(Requests), waits : BOOLEAN, copy : SUBSET Items,
         answers : Seq(Answers)]
Message == [request : Requests, prefs : SUBSET Items]
Connections == [client : Clients, open : BOOLEAN, requests : Seq(Message)]

ASSUME NoneIsNoConnection == None \notin Connections

TypeOK ==
    /\ client \in [Clients -> Tool]
    /\ commands \in [Clients -> 0 .. MaxCommands]
    /\ backlog \in Seq(Connections)
    /\ descriptor \in [Descriptors -> Connections \cup {None}]
    /\ fd \in Descriptors \cup {0}
    /\ listening \in BOOLEAN
    /\ readSignal \in BOOLEAN
    /\ runLoop \in {"idle", "receive", "peek", "blocked"}
    /\ preferencesMutex \in Clients \cup {None}
    /\ store \subseteq Items
    /\ preferences \subseteq Items
    /\ discoveryMutex \in BOOLEAN
    /\ threads \in 0 .. 2
    /\ discoveryRecords \in {None, "found", "freed"}
    /\ discoverySignal \in BOOLEAN
    /\ active \in BOOLEAN
    /\ queuedLogin \in BOOLEAN
    /\ unmounting \subseteq Descriptors \cup {0}
    /\ activeTargets \in BOOLEAN

Init ==
    /\ client = [c \in Clients |-> AtHome]
    /\ commands = [c \in Clients |-> 0]
    /\ backlog = <<>>
    /\ descriptor = [n \in Descriptors |-> None]
    /\ fd = 0
    /\ listening = TRUE
    /\ readSignal = FALSE
    /\ runLoop = "idle"
    /\ preferencesMutex = None
    /\ store = {"target"}
    /\ preferences = {"target"}
    /\ discoveryMutex = FALSE
    /\ threads = 0
    /\ discoveryRecords = None
    /\ discoverySignal = FALSE
    /\ active = FALSE
    /\ queuedLogin = FALSE
    /\ unmounting = {}
    /\ activeTargets = FALSE

(***************************************************************************)
(* Tools.                                                                  *)
(***************************************************************************)
IsHome(c) == client[c].todo = <<>>

Owns(x, c) == x # None /\ x.client = c /\ x.open

Connected(c) ==
    \/ \E i \in DOMAIN backlog : Owns(backlog[i], c)
    \/ \E n \in Descriptors : Owns(descriptor[n], c)

Closed(x, c) == IF Owns(x, c) THEN [x EXCEPT !.open = FALSE] ELSE x

Written(x, c, message) ==
    IF Owns(x, c) THEN [x EXCEPT !.requests = Append(@, message)] ELSE x

Leave(c) ==
    /\ client' = [client EXCEPT ![c] = AtHome]
    /\ backlog' = [i \in DOMAIN backlog |-> Closed(backlog[i], c)]
    /\ descriptor' = [n \in Descriptors |-> Closed(descriptor[n], c)]
    /\ UNCHANGED <<fd, listening, readSignal>>

\* The commands that lock read what is stored here, and again with the lock.
Connect(c) ==
    /\ IsHome(c)
    /\ commands[c] < MaxCommands
    /\ (\A d \in Clients : IsHome(d)) \/ "overlap" \in Faults
    /\ (threads = 0 /\ ~discoverySignal) \/ "busyDiscovery" \in Faults
    /\ \E todo \in Commands : client' = [client EXCEPT ![c].todo = todo, ![c].copy = store]
    /\ commands' = [commands EXCEPT ![c] = @ + 1]
    /\ backlog' = Append(backlog, Connection(c))
    /\ UNCHANGED <<descriptor, fd, listening, readSignal, runLoop, storeVars, discoveryVars, sessionVars>>

Send(c) ==
    /\ ~IsHome(c)
    /\ ~client[c].waits
    /\ IF Connected(c)
       THEN /\ client' = [client EXCEPT ![c].waits = TRUE]
            /\ LET request == Head(client[c].todo)
                   prefs == IF request = "unlock" THEN client[c].copy ELSE {}
                   message == [request |-> request, prefs |-> prefs]
               IN  /\ backlog' = [i \in DOMAIN backlog |-> Written(backlog[i], c, message)]
                   /\ descriptor' = [n \in Descriptors |-> Written(descriptor[n], c, message)]
            /\ UNCHANGED <<fd, listening, readSignal>>
       ELSE Leave(c)
    /\ UNCHANGED <<commands, runLoop, storeVars, discoveryVars, sessionVars>>

\* Mutant: the preferences are not read again under the lock.
OldCopy(c, answer) ==
    CASE answer = "lock" /\ client[c].todo # Remove -> client[c].copy \cup {c}
      [] answer = "query" -> Removed(client[c].copy)
      [] OTHER -> client[c].copy

\* The preferences of the tool, with its change, after an answer.  When the
\* target is active they are sent back as they are.
NextCopy(c, answer) ==
    CASE answer = "lock" -> store \cup (IF client[c].todo = Remove THEN {} ELSE {c})
      [] answer = "query" -> Removed(client[c].copy)
      [] OTHER -> client[c].copy

\* On with the next request, or the command ends.
GoOn(c, answer) ==
    IF Len(client[c].todo) = 1 THEN Leave(c)
    ELSE /\ client' = [client EXCEPT ![c] =
                         [todo |-> Tail(@.todo), waits |-> FALSE,
                          copy |-> NextCopy(c, answer), answers |-> SubSeq(@.answers, 2, Len(@.answers))]]
         /\ UNCHANGED socketVars

\* Without the lock nothing is done.  An answer to something else reads as if
\* the target were not active, and as the end of an unlock.
ReceiveAnswer(c) ==
    /\ client[c].waits
    /\ client[c].answers # <<>>
    /\ LET request == Head(client[c].todo)
           answer == Head(client[c].answers)
       IN  IF request = "lock" /\ answer # "lock" THEN Leave(c)
           ELSE GoOn(c, IF request = "query" /\ answer # "active" THEN "query" ELSE answer)
    /\ UNCHANGED <<commands, runLoop, storeVars, discoveryVars, sessionVars>>

\* The connection is closed, or the tool does not wait any longer: the same as
\* an answer to something else.
StopWaiting(c) ==
    /\ client[c].waits
    /\ client[c].answers = <<>>
    /\ Connected(c) => "impatient" \in Faults
    /\ LET request == Head(client[c].todo)
       IN  IF request = "lock" THEN Leave(c) ELSE GoOn(c, request)
    /\ UNCHANGED <<commands, runLoop, storeVars, discoveryVars, sessionVars>>

(***************************************************************************)
(* The run loop and its connection.                                        *)
(***************************************************************************)
\* The kernel has given the new connection a descriptor when the previous one
\* is closed.
AcceptConnection ==
    /\ runLoop = "idle"
    /\ listening
    /\ backlog # <<>>
    /\ LET n == CHOOSE m \in Descriptors : m # fd
       IN  /\ descriptor' = [m \in Descriptors |-> IF m = n THEN Head(backlog) ELSE None]
           /\ fd' = n
    /\ backlog' = Tail(backlog)
    /\ runLoop' = "receive"
    /\ UNCHANGED <<clientVars, listening, readSignal, storeVars, discoveryVars, sessionVars>>

\* A signalled source is served like any other.
ReadSignalled ==
    /\ runLoop = "idle"
    /\ readSignal
    /\ readSignal' = FALSE
    /\ runLoop' = IF fd = 0 THEN "idle" ELSE "receive"
    /\ UNCHANGED <<clientVars, backlog, descriptor, fd, listening, storeVars, discoveryVars, sessionVars>>

HasRequest == descriptor[fd].requests # <<>>

Request == Head(descriptor[fd].requests)

\* The other end is closed and nothing is left to read.
AtEnd == ~descriptor[fd].open /\ ~HasRequest

\* 250 ms: a tool that waits for the daemon sends nothing.
TimesOut ==
    /\ descriptor[fd].open
    /\ ~HasRequest
    /\ LET tool == client[descriptor[fd].client]
       IN  (tool.waits /\ tool.answers = <<>>) \/ "slowClient" \in Faults

NothingReceived ==
    /\ runLoop = "receive"
    /\ AtEnd \/ TimesOut
    /\ runLoop' = "peek"
    /\ UNCHANGED <<clientVars, socketVars, storeVars, discoveryVars, sessionVars>>

\* Mutant: a request that came in is forgotten.
PeekForgets ==
    /\ runLoop = "peek"
    /\ HasRequest \/ AtEnd \/ TimesOut
    /\ runLoop' = "idle"
    /\ UNCHANGED <<clientVars, socketVars, storeVars, discoveryVars, sessionVars>>

PeekNext ==
    /\ runLoop = "peek"
    /\ HasRequest \/ AtEnd \/ TimesOut
    /\ readSignal' = (readSignal \/ HasRequest)
    /\ runLoop' = "idle"
    /\ UNCHANGED <<clientVars, backlog, descriptor, fd, listening, storeVars, discoveryVars, sessionVars>>

\* An answer to a connection whose other end is closed raises SIGPIPE; its
\* handler takes the listening socket away, forgets the connection and unlocks.
Answer(n, answer, lock) ==
    IF descriptor[n].open
    THEN /\ client' = [client EXCEPT ![descriptor[n].client].answers = Append(@, answer)]
         /\ preferencesMutex' = lock
         /\ UNCHANGED <<listening, fd>>
    ELSE /\ listening' = FALSE
         /\ fd' = 0
         /\ preferencesMutex' = None
         /\ UNCHANGED client

Reply(answer, lock) ==
    /\ Answer(fd, answer, lock)
    /\ runLoop' = IF descriptor[fd].open THEN "peek" ELSE "idle"

\* What every handler of a request has in common.
Handle(request) ==
    /\ runLoop = "receive"
    /\ HasRequest
    /\ Request.request = request
    /\ descriptor' = [descriptor EXCEPT ![fd].requests = Tail(@)]
    /\ UNCHANGED <<commands, backlog, readSignal, discoveryVars>>

\* Mutant: the preferences are locked before the authorization is looked at.
LockThoughDenied ==
    /\ preferencesMutex = None
    /\ Handle("lock")
    /\ \/ Reply("lock", descriptor[fd].client)
       \/ Reply("denied", descriptor[fd].client)
    /\ UNCHANGED <<store, preferences, sessionVars>>

LockAndSync ==
    /\ preferencesMutex = None
    /\ Handle("lock")
    /\ \/ Reply("lock", descriptor[fd].client)
       \/ Reply("denied", preferencesMutex)
    /\ UNCHANGED <<store, preferences, sessionVars>>

\* The main thread waits for itself.
LockBlocks ==
    /\ preferencesMutex # None
    /\ runLoop = "receive"
    /\ HasRequest
    /\ Request.request = "lock"
    /\ runLoop' = "blocked"
    /\ UNCHANGED <<clientVars, socketVars, storeVars, discoveryVars, sessionVars>>

\* Mutant: the answer is sent twice.
UnlockAnswersTwice ==
    /\ Handle("unlock")
    /\ store' = IF preferencesMutex = None THEN store ELSE Request.prefs
    /\ preferences' = store'
    /\ preferencesMutex' = None
    /\ client' = [client EXCEPT ![descriptor[fd].client].answers = @ \o <<"unlock", "unlock">>]
    /\ runLoop' = "peek"
    /\ UNCHANGED <<fd, listening, sessionVars>>

\* The mutex is only tried: somebody has to have it, not this tool.
UnlockAndSync ==
    /\ Handle("unlock")
    /\ IF preferencesMutex = None
       THEN UNCHANGED <<store, preferences>>
       ELSE /\ store' = Request.prefs
            /\ preferences' = Request.prefs
    /\ Reply("unlock", None)
    /\ UNCHANGED sessionVars

\* Mutant: a message without preferences does not unlock.
ReleaseKeepsLock ==
    /\ Handle("release")
    /\ Reply("release", preferencesMutex)
    /\ UNCHANGED <<store, preferences, sessionVars>>

Release ==
    /\ Handle("release")
    /\ Reply("release", None)
    /\ UNCHANGED <<store, preferences, sessionVars>>

\* Mutant: the answer does not depend on the session.
NeverActive ==
    /\ Handle("query")
    /\ Reply("query", preferencesMutex)
    /\ UNCHANGED <<store, preferences, sessionVars>>

IsTargetActive ==
    /\ Handle("query")
    /\ Reply(IF active THEN "active" ELSE "query", preferencesMutex)
    /\ UNCHANGED <<store, preferences, sessionVars>>

UpdateDiscovery ==
    /\ Handle("update")
    /\ preferences' = store
    /\ Reply("update", preferencesMutex)
    /\ UNCHANGED <<store, sessionVars>>

\* iSCSIDLoginCommon on the preferences prefs: after a login it stores them,
\* with the alias, and whatever else they have.
LoginCommon(prefs) ==
    \/ /\ "target" \in store \/ "staleLogin" \in Faults
       /\ active' = TRUE
       /\ preferences' = WithAlias(prefs)
       /\ store' = WithAlias(prefs)
    \/ /\ preferences' = prefs
       /\ UNCHANGED <<active, store>>

LoginRequest ==
    /\ Handle("login")
    /\ IF active THEN preferences' = store /\ UNCHANGED <<active, store>> ELSE LoginCommon(store)
    /\ Reply("login", preferencesMutex)
    /\ UNCHANGED <<queuedLogin, unmounting, activeTargets>>

\* The answer comes when the volumes are unmounted, if there is a session.
LogoutRequest ==
    /\ Handle("logout")
    /\ IF active
       THEN /\ unmounting' = unmounting \cup {fd}
            /\ runLoop' = "peek"
            /\ UNCHANGED <<client, fd, listening, preferencesMutex>>
       ELSE /\ Reply("logout", preferencesMutex)
            /\ UNCHANGED unmounting
    /\ UNCHANGED <<store, preferences, active, queuedLogin, activeTargets>>

\* The answer goes to whatever has the descriptor by now.
LogoutComplete(n) ==
    /\ runLoop = "idle"
    /\ n \in unmounting \ {0}
    /\ unmounting' = unmounting \ {n}
    /\ active' \in {FALSE, active}
    /\ IF descriptor[n] = None
       THEN UNCHANGED <<client, fd, listening, preferencesMutex>>
       ELSE Answer(n, "logout", preferencesMutex)
    /\ UNCHANGED <<commands, backlog, descriptor, readSignal, runLoop, store, preferences,
                   discoveryVars, queuedLogin, activeTargets>>

(***************************************************************************)
(* Sessions.                                                               *)
(***************************************************************************)
MayLogin ==
    /\ runLoop = "idle"
    /\ preferencesMutex = None \/ "busyLogin" \in Faults

\* iSCSIDLoginWithPortal, on the preferences the daemon has.
LoginWithPortal ==
    IF active THEN UNCHANGED <<active, store, preferences>> ELSE LoginCommon(preferences)

ProcessQueuedLogin ==
    /\ MayLogin
    /\ queuedLogin
    /\ queuedLogin' = FALSE
    /\ LoginWithPortal
    /\ UNCHANGED <<clientVars, socketVars, runLoop, preferencesMutex, discoveryVars, unmounting, activeTargets>>

\* iSCSIDQueueLogin: a target that can be reached is logged in to at once, which
\* is a queued login that is processed next.
QueueLogin(wanted) == queuedLogin' \in {queuedLogin, queuedLogin \/ wanted}

\* Looking a setting up creates the target.
SessionTimeout ==
    /\ MayLogin
    /\ active
    /\ active' = FALSE
    /\ preferences' = preferences \cup {"target"}
    /\ QueueLogin("target" \in preferences)
    /\ UNCHANGED <<clientVars, socketVars, runLoop, preferencesMutex, store, discoveryVars, unmounting, activeTargets>>

PrepareForSystemSleep ==
    /\ MayLogin
    /\ ~activeTargets
    /\ active
    /\ activeTargets' = TRUE
    /\ unmounting' = unmounting \cup {0}
    /\ UNCHANGED <<clientVars, socketVars, runLoop, storeVars, discoveryVars, active, queuedLogin>>

PrepareForSystemSleepComplete ==
    /\ runLoop = "idle"
    /\ 0 \in unmounting
    /\ unmounting' = unmounting \ {0}
    /\ active' \in {FALSE, active}
    /\ UNCHANGED <<clientVars, socketVars, runLoop, storeVars, discoveryVars, queuedLogin, activeTargets>>

\* The system may wake before the volumes are unmounted.
RestoreFromSystemSleep ==
    /\ MayLogin
    /\ activeTargets
    /\ activeTargets' = FALSE
    /\ LoginWithPortal
    /\ UNCHANGED <<clientVars, socketVars, runLoop, preferencesMutex, discoveryVars, queuedLogin, unmounting>>

(***************************************************************************)
(* Discovery.                                                              *)
(***************************************************************************)
\* Mutant: the mutex is looked at and not locked.
LaunchWithoutLock ==
    /\ runLoop = "idle"
    /\ threads < 2
    /\ threads > 0 => "longDiscovery" \in Faults
    /\ (\A c \in Clients : IsHome(c)) \/ "busyDiscovery" \in Faults
    /\ threads' = IF discoveryMutex THEN threads ELSE threads + 1
    /\ UNCHANGED <<clientVars, socketVars, runLoop, storeVars, discoveryMutex, discoveryRecords,
                   discoverySignal, sessionVars>>

\* The timer.  trylock returns 0 when it has locked, so that a thread is
\* launched when the mutex was locked before.
LaunchDiscoveryThread ==
    /\ runLoop = "idle"
    /\ threads < 2
    /\ threads > 0 => "longDiscovery" \in Faults
    /\ (\A c \in Clients : IsHome(c)) \/ "busyDiscovery" \in Faults
    /\ threads' = IF discoveryMutex THEN threads + 1 ELSE threads
    /\ discoveryMutex' = TRUE
    /\ UNCHANGED <<clientVars, socketVars, runLoop, storeVars, discoveryRecords, discoverySignal, sessionVars>>

\* The end of a discovery thread; without portals there is nothing to record.
\* Records that were processed are released again here, which may be the end
\* of the daemon (DaemonRestarts).
RunDiscovery ==
    /\ threads > 0
    /\ threads' = threads - 1
    /\ discoveryRecords' \in {None, "found"}
    /\ discoveryMutex' = FALSE
    /\ discoverySignal' = TRUE
    /\ UNCHANGED <<clientVars, socketVars, runLoop, storeVars, sessionVars>>

ProcessDiscoveryData ==
    /\ runLoop = "idle"
    /\ discoverySignal
    /\ discoverySignal' = FALSE
    /\ IF discoveryRecords = None
       THEN UNCHANGED <<runLoop, store, preferences, discoveryRecords>>
       ELSE IF preferencesMutex # None
       THEN runLoop' = "blocked" /\ UNCHANGED <<store, preferences, discoveryRecords>>
       ELSE /\ store' = store \cup {"found"}
            /\ preferences' = store \cup {"found"}
            /\ discoveryRecords' = "freed"
            /\ UNCHANGED runLoop
    /\ UNCHANGED <<clientVars, socketVars, preferencesMutex, discoveryMutex, threads, sessionVars>>

(***************************************************************************)
(* The specification.                                                      *)
(***************************************************************************)
AutoLogin == queuedLogin' \in {FALSE, "target" \in store}

\* The daemon is killed, and launchd starts it again: connections that were
\* not accepted wait for the new one, and the kernel keeps the session.
DaemonRestarts ==
    /\ descriptor' = [n \in Descriptors |-> None]
    /\ fd' = 0
    /\ listening' = TRUE
    /\ readSignal' = FALSE
    /\ runLoop' = "idle"
    /\ preferencesMutex' = None
    /\ preferences' = store
    /\ discoveryMutex' = FALSE
    /\ threads' = 0
    /\ discoveryRecords' = None
    /\ discoverySignal' = FALSE
    /\ AutoLogin
    /\ unmounting' = {}
    /\ activeTargets' = FALSE
    /\ UNCHANGED <<clientVars, backlog, store, active>>

ServeRequest ==
    \/ LockAndSync \/ LockBlocks \/ UnlockAndSync \/ Release
    \/ IsTargetActive \/ UpdateDiscovery \/ LoginRequest \/ LogoutRequest

ServeClient ==
    \/ AcceptConnection \/ ReadSignalled
    \/ fd # 0 /\ (NothingReceived \/ PeekNext \/ ServeRequest)

SessionStep ==
    \/ ProcessQueuedLogin \/ SessionTimeout
    \/ PrepareForSystemSleep \/ PrepareForSystemSleepComplete \/ RestoreFromSystemSleep

DiscoveryStep == LaunchDiscoveryThread \/ RunDiscovery \/ ProcessDiscoveryData

ClientStep(c) == Send(c) \/ ReceiveAnswer(c) \/ StopWaiting(c)

Next ==
    \/ \E c \in Clients : Connect(c) \/ ClientStep(c)
    \/ ServeClient
    \/ \E n \in Descriptors : LogoutComplete(n)
    \/ SessionStep
    \/ DiscoveryStep
    \/ DaemonRestarts

Spec == Init /\ [][Next]_vars

\* Tools and the run loop go on, volumes are unmounted in the end.  Other
\* sources of the run loop may be served first, and again and again.
Fairness ==
    /\ \A c \in Clients : WF_vars(ClientStep(c))
    /\ SF_vars(AcceptConnection)
    /\ SF_vars(ReadSignalled)
    /\ WF_vars(fd # 0 /\ (NothingReceived \/ PeekNext \/ ServeRequest))
    /\ \A n \in Descriptors : SF_vars(LogoutComplete(n))
    /\ WF_vars(RunDiscovery)
    /\ SF_vars(ProcessDiscoveryData)

FairSpec == Spec /\ Fairness

(***************************************************************************)
(* Properties.                                                             *)
(***************************************************************************)
\* The main thread never waits for a lock that only it can give back.
RunLoopRuns == runLoop # "blocked"

\* While a tool has the preferences locked, it is connected, and served.
LockHolderIsServed ==
    preferencesMutex # None => fd # 0 /\ Owns(descriptor[fd], preferencesMutex)

\* Who stores preferences from a tool is who locked them, and what others have
\* stored stays.
ChangesAreKept ==
    [][UnlockAndSync => /\ preferencesMutex = descriptor[fd].client
                        /\ store \cap (Clients \cup {"found"}) \subseteq store']_vars

\* The same of what a login stores; and a target that was removed stays removed.
LoginsAreKept ==
    [][/\ "alias" \in store /\ "target" \in store' => "alias" \in store'
       /\ "target" \in store' => "target" \in store]_vars

\* A tool gets the answer to what it asked.
AnswersAreOwn ==
    \A c \in Clients : client[c].answers # <<>> =>
        /\ client[c].waits
        /\ CASE client[c].todo[1] = "lock" -> client[c].answers[1] \in {"lock", "denied"}
             [] client[c].todo[1] = "query" -> client[c].answers[1] \in {"query", "active"}
             [] OTHER -> client[c].answers[1] = client[c].todo[1]

\* The target of a session can be looked up.
SessionHasTarget == active => "target" \in store

\* Discovery is done by one thread at a time, with the mutex.
DiscoveryIsLocked == threads < 2 /\ (threads > 0 => discoveryMutex)

\* Every command comes to an end.
EveryCommandEnds == \A c \in Clients : ~IsHome(c) ~> IsHome(c)
=============================================================================
