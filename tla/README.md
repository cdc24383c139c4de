# Formal models of the iSCSI initiator

TLA+ models of the macOS iSCSI initiator: a kernel extension that presents
iSCSI targets to the SCSI stack, and the daemon and tools that log it in.
Every definition is translated from the source; paths below are relative to
`src/Source`, and `PROJECT.json` ("map") gives the lines each one stands for.

## The system

| part | state | operations | talks to |
|---|---|---|---|
| Task queue, `Kernel/iSCSITaskQueue.cpp` | a doubly linked queue of task tags, the flag `newTask`, an enable bit | `queueTask`, `completeCurrentTask`, `checkForWork`, `enable`/`disable`, `clearTasksFromQueue` (no caller) | called by the HBA on the workloop and by the SCSI stack's threads; calls back `BeginTaskOnWorkloopThread` |
| Receive event source, `Kernel/iSCSIIOEventSource.cpp` | a socket, an enable bit | socket up-call, `checkForWork` | calls `ProcessTaskOnWorkloopThread` for each PDU |
| HBA, task path, `Kernel/iSCSIVirtualHBA.cpp` 170-1262 | per connection: throughput history, amount of data to transfer; in the SCSI stack: outstanding tasks and their timers | `ProcessParallelTask`, `BeginTaskOnWorkloopThread`, one handler per PDU type, `CompleteParallelTask`, `HandleTimeout`, `HandleConnectionTimeout`, task management requests | the SCSI stack, the task queue, the target |
| HBA, session table, same file 1307-1820 | `sessionList`, per session its connections and `numActiveConnections`, `targetList`, SCSI targets | create, release, activate and deactivate sessions and connections | the user client; the SCSI stack (`CreateTargetForID`, `DestroyTargetForID`) |
| HBA, PDU transfer, same file 1837-2146 | `cmdSN`, `expCmdSN`, `maxCmdSN`, `expStatSN` | `SendPDU`, `RecvPDUHeader`, `RecvPDUData` | a TCP socket; `HandleConnectionTimeout` when it fails |
| User client, `Kernel/iSCSIHBAUserClient.cpp` | `accessLock`, a PDU header buffer, a notification port | one method per HBA operation, PDU transfer during login | the daemon (IOKit calls, Mach notifications) |
| Daemon, `User/iscsid/iSCSIDaemon.c` | preferences and its lock, login queue, discovery records, session manager | one handler per client request, queued logins, discovery thread, sleep and wake | tools (local socket), session manager, preferences |
| Session manager, `iSCSISessionManager.c` | a HBA interface, a callback | notification handlers | kernel notifications, daemon |
| Login, `iSCSISession.c`, `iSCSIAuth.c`, `iSCSIQueryTarget.c`, `iSCSIPDUUser.c` | session and connection settings, login stage, CSG/NSG bits | login, negotiation, CHAP, logout, text query | kernel (through `iSCSIHBAInterface.c`), target |
| Discovery, `iSCSIDiscovery.c` | discovery records | SendTargets session | login |
| Framework, `User/iSCSI Framework` | preferences dictionary, data types, key chain | preferences updates, daemon requests, unmounting of volumes | daemon, tools |
| `iscsictl` | its copy of the preferences | one command per run | framework, daemon |

`Kernel/iSCSIInitiatorClient.cpp` and `iscsid/iSCSIKernelInterface.c` are in
the tree but no target builds them.

### What makes it hard, and what has to be true

* **Task queue.** The SCSI stack submits from any thread, the workloop removes
  elements, and the queue has no lock: the command gate is fetched and never
  closed. One flag serves as the wakeup for all tasks. Tasks have to be served
  one at a time, in order, once, and none may be forgotten.
* **Task path.** Answers, task timeouts and connection failures race for the
  same task; every path ends in `completeCurrentTask`, which removes whatever
  is at the head. A task has to be completed with its own status and removed by
  its own handler; deactivation must hand back everything.
* **Session table.** Identifiers are slots that are reused; a connection may
  fail while it is logging in, while it is active, and while it is being
  released. The active count must be the number of active connections, and a
  SCSI target must exist exactly while there is one.
* **PDU transfer.** 32-bit sequence numbers wrap; a failure in the middle of a
  handler deactivates the connection under it.
* **User client and session manager.** Notifications arrive later than the
  events they tell of and name reusable identifiers.
* **Daemon.** A preferences lock is held across requests of a client that may
  disappear, and the main run loop waits for it; discovery runs on a thread of
  its own; logins are queued until the network is up. Nobody's change may be
  lost, and every command has to end.
* **Requests.** A request asks the kernel several times; what it knows of a
  session is a number that is given out again. Its answer must be about the
  session it was asked about, and whatever it acquired must be given back.
* **Login.** A failure at any stage must give back what was acquired; each key
  must be negotiated by its function; a target that has to prove itself must
  not get around it.
* **Preferences.** Two tables, of targets and of discovery portals, refer to
  each other, and secrets and sessions refer to them by name from outside.

`PROJECT.json` ("hazards") lists these one by one, at their lines.

## What is modelled: the task queue of a connection

| module | content |
|---|---|
| `TaskQueue` | one connection from its activation to its deactivation: the queue, the threads that submit, the workloop, the SCSI stack's view of its tasks, the target |
| `TaskDelivery` | what a connection promises: tasks wait in line, the first is served, then handed back; unserved tasks are handed back only after the connection was closed |
| `TaskQueueDelivery` | the refinement mapping from `TaskQueue` to `TaskDelivery` |
| `TaskQueueSerial` | the callers for which the queue is right (`SerialCallers`), and the inductive invariant (`SerialInv`) |
| `TaskQueue_proofs` | facts about queues, type correctness for every environment |
| `TaskQueueSerial_proofs` | the invariant and its consequences for serialised callers, and the refinement of `TaskDelivery` |
| `MCTaskQueue` | names the model values of the runs |

### State

| variable | code |
|---|---|
| `taskQueue`, `tail` | the elements the header reaches through `next`, and the header's `prev`. Kept apart because two unprotected writers can make them disagree |
| `newTask`, `enabled` | the members of the event sources. Both sources of a connection are enabled and disabled together |
| `caller[t]` | where the thread submitting `t` is inside `queueTask`: before the test for an empty queue, before `queue_enter` reads the header's `prev`, before it links the element, before the signal; with the locals `firstTaskInQueue` and `prev` |
| `workloop` | the handler the workloop is in: about to call `completeCurrentTask` ("pop"), about to test for more tasks ("signal"), back in `HandleTimeout` ("fail"), at the head or in the body of `DeactivateConnection`'s loop ("drain", "reject"), back in `ProcessSCSIResponse` or `ProcessDataIn` after a failed receive ("lookUp", "dataIn", "stale"); and the task it works for |
| `resume` | where the handler goes on when `DeactivateConnection` returns, or nowhere |
| `scsi`, `use`, `sent`, `armed` | the SCSI stack's table of outstanding tasks, by tag. `use` counts tasks under a tag and `sent` counts commands of one task; they are there for the properties, and no guard but the bound of `Issue` reads them |
| `atTarget`, `pings`, `tmfs` | what the target has not answered: commands, NOP-outs, task management functions |
| `historyIdx` | `bytesPerSecHistoryIdx`, whose roll-over queues a latency measurement |

### Steps

Each handler that runs on the workloop is one step until it reaches
`completeCurrentTask`, whose removal and whose test for further tasks are steps
of their own, since another thread may be inside `queueTask` in between. On the
workloop thread `queueTask` is one step (`QueueTaskNow`); on another thread it
is four (`QueueTaskCheck`, `QueueTaskEnter`, `QueueTaskLink`,
`QueueTaskSignal`). The SCSI stack submits on the workloop thread either
between events or from the callback of a completed task (`StackOnThread`),
before the handler goes on to remove the head.

`CompleteTask` is `CompleteParallelTask`; `BeginTask` is
`BeginTaskOnWorkloopThread` with its early returns; `ProcessSCSIResponse`
stands for the two handlers that complete a task (`ProcessSCSIResponse`, and
`ProcessDataIn` with a status), which take the same steps as long as data is
received; `StartDrain` is the part of `DeactivateConnection` before its loop,
and `DrainTask` and `RejectTask` are the loop.

When receiving the data of an answer fails, the queue is drained in the middle
of the handler (`ReceiveFails`), which does not look at the result and goes on.
`ProcessSCSIResponse` looks its task up only then (`ResumeResponse`):
as a rule it is gone, and flushing may find the connection lost again.
`ProcessDataIn` has looked it up before (`ResumeDataIn`): it completes the task
although the drain loop has handed it back (`CompleteAgain`: nothing comes of it, or
the SCSI stack has made the object into that of another task, which is
completed), and then removes the head of the queue, whosever it is.

A command carries the number of its task's use and copy, which the target does
not see: it answers any command it holds, in any order, or never.

`Faults` says what the environment of a run does: `slowTarget` (task timers
fire), `emptyDataIn` (a final data-in PDU without data), `lostConnection` (a
send or a receive fails, or the peer is gone when a timer fires),
`taskMgmt` (task management functions), `earlyReuse` (a tag is used again while
an answer to it is on its way).

### Abstractions

* One connection. Submissions always go to slot 0 (`ProcessParallelTask`
  line 520), so the queues of other connections stay empty.
* A PDU is its tag; sense data, transfer counts, R2T and data-out are left out:
  they do not touch the queue.
* A send that fails ends `BeginTaskOnWorkloopThread` and goes on to deactivate
  the connection; that a WRITE goes on sending after a failure is left out.
* A handler that goes on after a failure still finds its connection: the daemon,
  which is told of the loss, releases it on another thread.
* Deactivation runs on the workloop thread, as it does when the HBA itself
  finds the connection lost. Deactivation by the daemon, on the user client's
  thread, is in `HBA`, where tasks are left out.
* An element freed by one thread is not reallocated while another still holds
  its address: `queue_enter` behind a freed element is lost, not written
  elsewhere. What goes wrong in the model goes wrong in the code; the code can
  do worse.
* A signal with no work and a work flag without a signal do not occur: the
  workloop looks at `newTask` whenever it is idle. This favours the code.

## What is modelled: sessions, from the kernel to the daemon

| module | content |
|---|---|
| `HBA` | sessions, connections, SCSI targets and names in the kernel; the user client's lock; notifications; the workloop and the daemon's threads as callers |
| `SessionManager` | EXTENDS `HBA`: what the daemon's run loop and its discovery thread do with sessions, and the properties of the whole |
| `SessionManager_proofs` | type correctness of both, exclusion by `accessLock`, and the three invariants of the run `Sessions` as theorems |

### State

| variable | code |
|---|---|
| `sessionList` | the member of the HBA: per slot `NoSession`, or the session's name, `numActiveConnections` ("active") and the state of its connections. A connection is "idle" or, when its task queue and receive event source are enabled, "enabled". `gen` numbers sessions as they are created: no guard reads it except to tell whether a pointer is still good |
| `targets` | identifiers for which the SCSI stack has a target (`CreateTargetForID`, `DestroyTargetForID`) |
| `targetList` | the dictionary from names to identifiers |
| `notifications` | the messages in the daemon's Mach port |
| `accessLock` | the user client's lock, by its holder |
| `calls[t]` | the calls thread `t` has still to make, the next one first |
| `created` | counts sessions for the bound and for `gen` |

### Steps

A function of the HBA is a call; one that calls others puts them at the head of
its thread's stack. A function is split where another thread can get in between
two of its accesses: `ActivateConnection` into enabling, mounting and counting;
`DeactivateConnection` into disabling, decrementing and the second read of the
counter; `ReleaseConnection` into the look-up, unlinking and the removal of the
event sources; `ReleaseSession` into its connections, the freeing of the slot
and the removal of the name. A call by
identifier looks its session up when it runs (`Connected`, else `LookUpFails`);
what remains of a call (`Rest`) has a pointer, and remembers whose it is.

The daemon's calls are `Method`s: enter the user client, the call, leave. The
workloop's handlers do not enter it: they have the command gate, which nobody
else closes. The gate matters in one place: `removeEventSource` waits for it
(`GateOpenFor`).

Creating a session or a connection is one step: it runs inside the user client,
and nothing that runs outside looks at a connection that is not enabled.

An exchange of PDUs (login, logout, a query) is one step with its outcomes: it
succeeds; it is refused; or a send or receive fails, which runs
`HandleConnectionTimeout` on the daemon's thread inside the user client, before
the caller does what it does about the error.

`HandleNotification` and `CopyPortal` are the handler of a notification: the
target's name is looked up, then the portal, then the connection is released,
and a login may follow. A look-up is one method of the user client. If there
was no name or no portal, an object is released that was never got, and the
daemon dies (`Crash`): the messages that wait are lost, and the sessions stay in
the kernel. The model ends there; `Requests` goes on with the next daemon.
The asynchronous message is modelled by what the daemon reads: the
message is shorter than the one it is sent and received as, so the daemon may
find any type, session and connection in it (`SendAsyncNotification`).

### Abstractions

* One discovery thread at a time. (The test of the discovery mutex is inverted,
  and more than one can run: `Daemon`.)
* A second portal for a session is an attempt that may or may not be made
  (`SessionAddConnection`): the limit negotiated with the target is data.
* A target that exists already cannot be created again: what the SCSI stack
  promises of `CreateTargetForID`.
* A name that was overwritten in `targetList` belongs to the last session that
  took it. When two names stand for the same slot, which of them
  `ReleaseSession` removes is the dictionary's choice.
* A count in a session that has been freed is lost (`AddToActive`);
  `NoUseAfterFree` says that this does not happen.
* The client is registered. Without one `HandleConnectionTimeout` releases the
  session itself: `UserClient` has that, and several sessions, whose methods
  are one step each.

## What is modelled: what the daemon asks of the kernel

| module | content |
|---|---|
| `UserClient` | the methods of the user client by which sessions and connections are created, set up, looked up and released, each with the daemon's function around it; opening the user client, its end, its messages |
| `Requests` | EXTENDS `UserClient`: the requests of tools, notifications, sleep and wake, and discovery, as the calls they make |
| `Requests_proofs`, `Identifiers` | every invariant of the `Requests` run, proved; a lemma about identifiers |

`HBA` and `SessionManager` take methods apart and let the workloop in between;
here a method is one step, and everything that is called is there: several
sessions, portals, parameters, and what becomes of a call's result.

### State

| variable | code |
|---|---|
| `sessionList` | per slot the session or `None`: its parameters and its connections, each with a portal, its parameters and whether it is active |
| `targetList` | the dictionary from names to identifiers |
| `client`, `notificationPort`, `messages` | whether the daemon has opened the user client and registered a port, and the time-outs that it has not received |
| `accessLock` | whether a method has returned with the lock. Between methods it is free otherwise |
| `daemon` | `"up"`, `"down"`, or started again and without a port (`"opened"`) |
| `thread[t]` | the run loop or the discovery thread: its request, the calls it has still to make (`todo`), and its variables `iqn`, `portal`, `sid`, `cid`, `ids`, `report` |
| `unmounting` | targets whose volumes are being unmounted, for a logout or for sleep |
| `activeTargets` | the member of the daemon: the portals that wake logs in to again |

`gen`, `asOf`, `listed`, `created`, `atStart`, `reused` and `notMounted` are ghosts. `gen`
numbers sessions, since the identifiers are slots; a value of a parameter is the
key it is for and the session whose login set it.

### Steps

A thread makes the next call of its list, which may put other calls in its
place: `Found`, `Missing`, `PortalFound` and `PortalMissing` say what a request
does with a target or portal that has, or has not, a session or connection.
Where the code uses an object that a call did not give it (a name or an address
that is not found) the daemon dies (`Crash`), and launchd starts it again
(`Restart`); the sessions stay.

Volumes are unmounted while the run loop serves others (`LogoutUnmounts`,
`SleepSession`, `DiskUnmountComplete`). A logout looks its target up again
afterwards; sleep takes the identifier of before.

### Abstractions

* An exchange is accepted, refused, or loses the connection. `Login` takes it
  apart.
* Unmounting is one step when it begins and one when the last volume has
  answered. A target without volumes is never answered
  (`User/iSCSI Framework/iSCSIDA.c` 106-133): nothing of it is heard again.
* The messages are time-outs. Asynchronous messages are in `SessionManager`.
* Three parameters stand for all: two of a session, one of a connection. Each
  is read and set by the same method with another key.
* The scalar result of activating and deactivating is lost on the way to the
  caller, so that these calls have none.
* Whether a target can be mounted is the SCSI stack's choice (`MountFails`), and
  it may refuse at any time, as when a target of the slot was left mounted
  (`TargetLeak`).
* `GetNumConnections` fails whatever it is asked for, which makes
  `RemoveConnectionCalls` empty; a further connection is created and released
  (`AddConnectionCalls`), with a status code that keeps it from being
  negotiated.
* The identifiers of `iSCSIHBAInterfaceCopyArrayOfSessionIds` are 16 bits wide and
  are read as an array of pointers (`iSCSISession.c` 1153): the n-th element
  read is the (4n-3)rd, and anything from behind the end (`PointerArrays`).

Some things that the code does are in these modules as they are, because a
session's loss or a daemon's death follow from them: before a logout of a target,
its volumes are unmounted, and a session that was logged in to meanwhile is
logged out instead (`iSCSIDaemon.c` 630); a notification about a session that is
gone gives a null reference to `iSCSIPreferencesCopyTarget`
(`iSCSISessionManager.c` 70); a session whose target cannot be mounted is left inactive, the login is reported
as a success, and nobody releases it (`iSCSIVirtualHBA.cpp` 1700-1705, the ghost
`notMounted`); the header digest is reported in the place of the
data digest (`iSCSISession.c` 1406, not one of the three parameters); the
sessions of a daemon that died stay in the kernel, without anybody to release
them (`iSCSIHBAUserClient.cpp` 298 and 320: `InactiveIsInHand` speaks of sessions
of the running daemon for that reason).

## What is modelled: a login

| module | content |
|---|---|
| `Negotiation` | the keys: what is offered, what a target may answer, what the initiator makes of it (`Combine`), what is stored and what is refused |
| `Login` | EXTENDS `Negotiation`: a thread that logs in, asks for targets or for a method, or logs out; the kernel's numbers; a target and the connection to it |
| `Login_proofs` | the safety invariants of `Login` as theorems |
| `MCLogin` | jobs and preferences for the runs |

### State

`thread[t]` is the function the thread is in (`at`: the query of
`iSCSISession.c`, `iSCSIAuth.c` or `iSCSIQueryTarget.c`), where in
`iSCSISessionLoginQuery` it is (`pc`), and their variables: stages, retries,
status and dictionary of the answer. `bhsBuffer` is the user client's one
buffer for headers. `kernel[t]` is the session in the kernel: `cmdSN`,
`expStatSN`, the TSIH, its settings, and whether it is active. `target[t]` and
`wire[t]` are the target and the PDUs on the way, in order, or the fact that the
connection is lost.

### Steps

Sending is two methods (`SendBHS`, `SendData`), receiving one loop that takes
PDUs until the answer is complete or the socket's time-out ends it.
`SingleQueryReturns` is the loop of `iSCSISessionLoginQuery`, which asks again
until the target moves on to the next stage, `MaxRetryCount` times. One action
per function says what it makes of the result: `AuthReturns`, `BlankReturns`
(the empty query without authentication), `ChapStartReturns`,
`ChapAnswerReturns`, `NegotiateReturns`, `TextReturns`, `InterrogateReturns`,
`LogoutReturns`. A further portal is tried when a login fails.

The target is external. It keeps to the protocol as far as it answers: it
chooses any method, wants any of the values in `Preferences` (fewer, more, or out
of the range that is tested), leaves out a key, answers in one PDU or two, moves
on or hesitates, refuses, rejects, or falls silent.

### Abstractions

* A session has one connection; PDUs are whole, without digests or padding.
* A proof of CHAP is right or wrong.
* The target of a session can be mounted when it is activated; `UserClient` has the
  case in which it cannot, of which `iSCSISessionLogin` is not told.
* A target always names a method. In the run `Login` it does not want to wait
  longer than was offered, and no job has both two portals and two connections to
  use. The module has both cases, and its properties do not stand in them:
  `iSCSISession.c` 236 takes the lesser `DefaultTime2Wait`, under a comment that
  says maximum, so that `ActiveIsAgreed` fails for a target that answers 5 to the
  offered 2; and for a second portal `iSCSISessionAddConnection` tests the status
  that its caller has just set to invalid, gives the connection up, and the login
  of an active session is reported with that status (`Reported`), so that
  `OutcomeIsReported` fails.
* A connection is lost during an exchange; `HBA` has the others.
* Status numbers begin low: `iSCSIVirtualHBA.cpp` compares with plain integers
  and does not count the number 2^32 - 1 (`Counts`).

## What is modelled: the daemon and its clients

| module | content |
|---|---|
| `Daemon` | tools, the local socket, the run loop with everything it serves, the preferences lock and the three copies of the preferences, discovery's timer, mutex and thread, queued logins, sleep and wake, restarts |
| `Daemon_proofs` | the safety properties of `Daemon` as theorems, each under the faults it stands |

### State

A tool (`client[c]`) has a list of requests to make, whether it waits for an
answer, its copy of the preferences, and the answers it has not read. The
daemon has connections (`backlog`, `descriptor`), of which `fd` is the one it
serves; `runLoop` says where the main thread is; `preferencesMutex` says who
asked for the lock (the code only knows that it is taken). The preferences are
sets of changes: those of each tool, what discovery found, the target, and the
alias that a login stores. `unmounting` has the logouts that wait for volumes,
by the descriptor to answer, 0 for sleep.

### Steps

A command is a sequence of requests (`Commands`): lock, change, unlock; or lock,
ask whether the target is active, unlock. The run loop accepts a connection,
receives a request, serves it, looks for the next one for 250 ms (`PeekNext`),
and returns to whatever is ready. The previous connection is closed when a new
one is accepted. An answer to a tool that has gone takes the listening socket
away with it (`Answer`). `LaunchDiscoveryThread` is the timer, whose `trylock`
is tested the wrong way round.

`Faults` says what happens at the same time. With none of them every property
holds; each of them breaks one, and the theorems of `Daemon_proofs` say which
ones a property needs to be without. The system sleeps and wakes whenever it
likes, also before the volumes are unmounted: the logout that was waiting for
them then ends the session that wake restored. Nothing in the daemon prevents
it, and no property speaks of it.

| fault | what happens | what breaks |
|---|---|---|
| `overlap` | a tool starts while another runs | `LockHolderIsServed`, `RunLoopRuns`, `EveryCommandEnds` |
| `slowClient` | a tool takes more than 250 ms | `EveryCommandEnds` |
| `impatient` | a tool gives up after 10 s | `RunLoopRuns`, `LockHolderIsServed`, `AnswersAreOwn`, `SessionHasTarget`; the daemon no longer listens |
| `busyDiscovery` | discovery runs while a tool has the lock | `RunLoopRuns` |
| `longDiscovery` | discovery takes longer than its interval | `DiscoveryIsLocked` |
| `busyLogin` | the run loop logs in while a tool has the lock | `LoginsAreKept`, `SessionHasTarget` |
| `staleLogin` | a target accepts a login after it was removed | `SessionHasTarget`, `LoginsAreKept` |

`ChangesAreKept` holds with `overlap` and `impatient`, where it matters
(`DaemonFaults`).

Abstractions: one target with one portal, which has volumes; requests whose
answers decide nothing that is kept are left out; authorization is a refusal
that may come.

## What is modelled: preferences and discovery

| module | content |
|---|---|
| `Preferences` | the functions of `iSCSIPreferences.c` that add, change, rename and remove targets, portals and discovery portals, as operators on a dictionary; and `UpdateWithDiscovered` of `iSCSIDiscovery.c` |
| `Discovery` | EXTENDS `Preferences`: the commands of `iscsictl`, secrets, sessions, and rounds of discovery |
| `Discovery_proofs` | the safety properties of `Discovery` as theorems, each under the faults it stands |

`store` is what is stored; `secrets` the names that have a secret in the key
chain; `sessions` the portal in use of each target. A command is one step: it
reads, changes and stores while nobody else does (`Daemon` has the steps). A
round of discovery is more: `RunDiscovery` asks the portals on a thread of its
own and leaves `records`; later the run loop takes a copy of the preferences
(`work`), works in one record after another (`ProcessRecord`), logging out and
removing what vanished, and stores it (`StoreDiscovered`). The daemon may be
killed at any time (`DaemonRestarts`), and `CanUpdate` says when a null
reference kills it.

`Faults` again:

| fault | what happens | what breaks |
|---|---|---|
| `renameOnto` | a target gets the name of another | `SessionsAreConfigured`, `DiscoveryRemovesOnlyVanished` |
| `renameAndSet` | a command renames and changes a target | `TargetsHavePortals` |
| `failedOption` | an option after the new name is invalid | `SecretsHaveOwners` |
| `secretFirst` | a secret for a target that does not exist | `SecretsHaveOwners` |
| `reusedName` | a target is added that a portal's list still has | `DiscoveryRemovesOnlyVanished` |
| `sharedTarget` | two discovery portals report one target | `DiscoveryRemovesOnlyVanished` |
| `staleRecords` | a portal is removed while it is being asked | discovery kills the daemon |

`DynamicTargetsAreListed` holds with all of them. The theorems of
`Discovery_proofs` name for each property the faults without which it holds: those
of this table and no others.

## The runs

| run | environment | result |
|---|---|---|
| `TaskQueueSerial` | 3 tags used twice each, all on the workloop thread; slow target, lost connection, empty data-in; a latency measurement after every second task that moved data (two of the tags do); 26 002 states | `InFlightIsHead`, `NoLostWakeup`, `TaskStaysQueued`, `PopsOwnTask`, `StatusIsOwn`, `DeactivateRejectsAll`, `EveryTaskReturns` and `DeliversInOrder` hold |
| `TaskQueueRaces` | 2 tags used twice, one of them off the thread, the other with value 0; slow target, early reuse, task management, lost connection; 724 844 states | `StartedTaskReturns` holds |
| `LostWakeup` | 2 tags, one off the thread, no faults | `NoLostWakeup` fails |
| `Sessions` | 2 slots, 2 connections each, 2 sessions ever, one target and discovery; connections lost anywhere, asynchronous logout requests; 1 035 314 states | `ActiveSessionsAreMounted`, `NoUseAfterFree`, `NamesStandForSessions` hold, and nothing deadlocks |
| `SessionsLive` | 2 slots, 1 connection each, 2 sessions ever, without asynchronous messages; 233 472 states | `LostSessionsAreReleased`, `EveryCallReturns` hold |
| `TargetLeak` | 2 slots, no asynchronous messages | `TargetsHaveConnections` fails |
| `Requests` | 2 slots, 2 connections each, 2 portals, one target and discovery; 2 sessions ever created, one connection or session lost besides what the daemon does; 1 474 439 states | `ReportIsOfTarget`, `ActiveIsSetUp`, `InactiveIsInHand`, `SleepSavesTarget`, `LockIsReleased` hold |
| `Login` | one thread; logins without authentication, with it over two portals, and with mutual authentication, discovery, a query for the method; targets that want less, more, or something out of range; 225 783 states | `TypeOK`, `ActiveIsAgreed`, `MutualIsKept`, `NumbersAgree`, `OutcomeIsReported`, `EveryLoginEnds` hold |
| `SharedHeader` | two threads that ask for a method | `HeaderIsOwn` fails |
| `Daemon` | 2 tools, one command each, no faults; the daemon killed at any time; 154 969 states | `TypeOK`, `RunLoopRuns`, `LockHolderIsServed`, `AnswersAreOwn`, `SessionHasTarget`, `DiscoveryIsLocked`, `LoginsAreKept`, `EveryCommandEnds` hold |
| `DaemonFaults` | the same with `overlap` and `impatient`; about 1.66 million states | `ChangesAreKept` holds |
| `Discovery` | 2 targets, 2 portals, 2 discovery portals, no faults; 124 358 states | `TargetsHavePortals`, `SessionsAreConfigured`, `SecretsHaveOwners`, `DynamicTargetsAreListed`, `DiscoveryRemovesOnlyVanished` hold |

Properties, by what they relate:

* `InFlightIsHead`, `NoLostWakeup`, `TaskStaysQueued`: queue against the tasks in
  service, the flag and the SCSI stack.
* `PopsOwnTask`, `StatusIsOwn`: a handler against the task it works for; the first
  while the connection is open.
* `DeactivateRejectsAll`: when the loop of `DeactivateConnection` ends, the SCSI
  stack against everything it has been promised: tasks queued before and
  meanwhile, and the ones that handlers had in their hands.
* `EveryTaskReturns`, `StartedTaskReturns`: liveness.
* `DeliversInOrder`: the refinement of `TaskDelivery`.
* `ActiveSessionsAreMounted`: a session nobody works on that has an enabled
  connection has its target, and counts right.
* `NoUseAfterFree`: pointers on a stack against `sessionList`.
* `NamesStandForSessions`: the dictionary against `sessionList`, where a slot that
  was just emptied, and whose name is about to be removed, is excepted.
* `LostSessionsAreReleased`, `EveryCallReturns`: liveness, as long as the daemon
  lives; the second says that the lock, the gate and the loops over both come to
  an end.
* `ReportIsOfTarget`, `SleepSavesTarget`: what a thread knows against the
  kernel's table, several calls later.
* `ActiveIsSetUp`, `InactiveIsInHand`: each session of the table against what
  the threads and messages do about it; the second excepts one whose target could
  not be mounted.
* `LockIsReleased`: every key that is asked for against the keys that the
  kernel's method knows.
* `ActiveIsAgreed`, `MutualIsKept`, `NumbersAgree`, `OutcomeIsReported`: the
  kernel's session against the target, at the end of several exchanges.
* `RunLoopRuns`, `LockHolderIsServed`, `EveryCommandEnds`: the lock against the
  connection, and the run loop against itself.
* `ChangesAreKept`, `LoginsAreKept`: three copies of the preferences.
* `AnswersAreOwn`: two message queues, after requests, time-outs and restarts.
* `SessionHasTarget`, `DiscoveryIsLocked`: what one source of the run loop leaves
  to another.
* `TargetsHavePortals`, `SessionsAreConfigured`, `SecretsHaveOwners`,
  `DynamicTargetsAreListed`, `DiscoveryRemovesOnlyVanished`: the tables that
  refer to each other by name.

`LostWakeup`, `TargetLeak` and `SharedHeader` show disagreements between the code
and its comments ("findings"). `LostWakeup` drops the first part of
`SerialCallers`. The others cannot be done without, either: with a task
management function, an answer takes the head off the queue for another task
(`PopsOwnTask`); with a tag that is used again while an answer to it is on its
way, the new task gets the old status (`StatusIsOwn`); a task whose tag has
the value 0 ends the drain loop (`DeactivateRejectsAll`). Two events are left out of
`Sessions` for the same reason: by an asynchronous message a target may drop a
connection or a whole session, which the workloop then frees without the user
client's lock (`NoUseAfterFree`), its slot before its name (`NamesStandForSessions`).

**Bounds.** `MaxUses` bounds the uses of a tag, `MaxTaskMgmt` the functions, and
`Window` stands for `kBytesPerSecAvgWindowSize`. Three tags give a head, a task
behind it and a tail; two uses give every pair of an old answer and a new task;
a window of 2 makes the history roll over within a run, with and without other
tasks queued. In `TaskQueueRaces` one thread off the workloop suffices: what
races is a thread and the workloop.

Of sessions, two slots and `MaxCreated` = 2 let the daemon's two threads hold
different sessions, or one slot be given out twice: a report of a loss may be about a
session that is gone, or whose slot has another by then, while a second report
waits. `MaxConnections` is the code's own 2, and 1 in
`SessionsLive`, where liveness is what takes time. `CountModulus` (16) stands
for 2^32: it is more than the decrements a run can make, so a counter that
wrapped cannot come round to a small number again by decrements alone. In
`Requests`, `MaxLost` = 1 lets one connection or session be lost at any time.

In `Login`, `MaxRetryCount` = 2 stands for 5: the first query, one that asks
again, and the one that gives up. `Modulus` (1000) stands for 2^32 and is never
reached. `MaxCmdSN` = 2 lets numbers go on after a login.

In `Daemon`, a tool each with one command: a command that has ended leaves only
the store, the lock and what answers are on their way, and two commands are
enough for one to find what the other left. Two descriptors suffice, since
accepting a connection closes the previous one. In `Discovery`, two of each make
it possible to confuse one with another.

**Symmetry** is used where nothing tells values apart (tools, targets, portals),
in runs without liveness.

**Deadlock** is checked in every run but those of the task queue: such a run is
over when the bounded uses are used up, and a deactivated connection is never
activated again.

**Fairness.** Weak fairness of the workloop's steps (`HandlerStep`,
`CheckForWork`): a kernel thread that runs on. Of the steps inside
`queueTask`: a thread that has entered it leaves it. Of `HandleTimeout`: the
SCSI stack's timer of a task fires. Of `ProcessNOPIn`: a target answers pings;
the code has no timer for them, and without this assumption
`EveryTaskReturns` fails. SCSI commands need never be answered, and nobody has
to submit. In `SessionManager`: weak fairness of the workloop; strong fairness
of each thread of the daemon, since `accessLock` and the gate, for which it may
have to wait again and again, are given to those who wait (an `IOLock` and a
recursive lock do not starve a waiter for ever), and since an exchange has a
timeout; strong fairness of `HandleNotification`, since a run loop serves each
source that is ready in turn. Nobody has to log in, and no connection has to be
lost. In `Login`: weak fairness of each thread's steps, since receiving ends by
an answer or by the socket's time-out; the target does not have to do anything.
In `Daemon`: weak fairness of each tool's steps, of the steps inside a request,
and of the end of a discovery; strong fairness of what the run loop serves,
since other sources may come first any number of times. Nobody has to start a
command, and the daemon need not be killed.

## What is proved

### The task queue

With TLAPS, for any number of tasks and uses, any window and any size of queue:

* `TypeCorrect`: `TypeOK`, in every environment.
* `SerialCorrect`: under `SerialCallers`, `SerialInv`. From it
  `OneTaskAtATime` (`InFlightIsHead` and `SentOnce`), `WakeupsArrive`
  (`NoLostWakeup`), `TasksStayQueued`, `PopsAreOwn` (`PopsOwnTask`, while the connection is open),
  `StatusesAreOwn` (`StatusIsOwn`), `DrainRejectsAll`
  (`DeactivateRejectsAll`).
* `QueueDelivers`: under `SerialCallers`, `TaskQueue` implements `TaskDelivery`
  (`DeliversInOrder`): tasks are served one at a time and in the order they were
  accepted, and one is handed back unserved only after deactivation.

Assumptions: `ConstantsAssumption` and `HeadAssumption` (tags and special
values differ), and `SerialCallers` where said.

**The inductive invariant.** `InFlightIsHead` alone is not inductive: that
`checkForWork` starts a task only when nothing is in service rests on
`WakeupDue` (the flag is set exactly for a head that has not been started),
which rests on `queueTask` and `completeCurrentTask` seeing the queue as it is,
which rests on `QueueLinked`. That an answer's pop removes its own element
needs `PopsOwnHead`, and that one needs to know that nobody else is in service
(`OneInService`) and that an element stands for the SCSI stack's current task
under its tag (`QueueLive`), which may fail for the head alone, while its
handler is about to remove it: the callback may already have queued a new task
under the same tag. `AnswersOwn` keeps late answers from finding a new task;
`HoldsOneTask`, `Deactivated` and `EnabledHandlers` carry the argument through
timeouts and the drain loop, and `ResumesAfterDrain` through what a handler does
behind it: while the loop runs every outstanding task still has an element, so that
none is left when it finds the queue empty.

`TaskQueueSerial_proofs` has facts about the queue first (`Enqueue`, `Dequeue`,
`LiveHeadIsAlone`, `CompleteTaskEffect`), then a lemma per action, then the
theorems, then the refinement.

**The refinement.** The abstract line is what the workloop has in hand, followed
by the tags of the queue's elements that stand for a task still outstanding:
latency measurements are no tasks, and a completed head awaits only its
removal. The places of these elements are a set, and `TagsAt` lists their tags
by rank; that it grows at the end, shrinks at the front and does not care where
the places are (`TagsAtAppend`, `TagsAtFirst`, `TagsAtShift`) is proved from
facts about cardinalities in `TaskQueue_proofs`. `LineAccepts`, `LineHandover`,
`LineHeadDone` and `LineHandDone` say what an action does to the line.
`ProcessParallelTask` is `Accept`, sending the head's command is `Serve`, a
response, a failed timeout and the drain loop's rejection are `HandBack`, a lost
connection is `Close`, and everything else, taking the head off the queue
included, is a stutter. That what a response or timeout hands back is in
service needs `StartedIsSent` besides `SerialInv`: while the connection is open
a task with a timeout has been sent.

### Sessions

In `SessionManager_proofs`, for any number of session slots, connections per
session, targets and sessions ever created, any modulus of the counter and any
set of asynchronous events:

* `TypeCorrect`: `TypeOK` of `HBA` and `SessionManager` together.
* `AccessLockExcludes`: `UserClientExcludes`.
* `NamesAgree`: `NamesStandForSessions`, under `"dropAllConnections" \notin
  AsyncEvents`.
* `PointersStayAlive`: `NoUseAfterFree`, under `AsyncEvents \subseteq {"logout"}`.
  With the asynchronous messages by which a target drops a session or a
  connection the property fails: the handler releases the session under the
  feet of a daemon's thread, without the wait for the gate.
* `ActiveMounted`: `ActiveSessionsAreMounted`, under the same condition and for a
  counter that has room for 1 (`numActiveConnections` is 32 bits wide).

Assumptions: `HBAConstants`, `NoSessionIsNone` and `SessionManagerConstants` (the
model values differ, there is at least one slot and one connection, the daemon
has the two threads).

**The inductive invariant** of the first two is `TypeOK /\ UserClientExcludes`. That the lock is
held by whoever is inside is not inductive by itself: when a call is replaced by
the calls it makes, what comes next on the stack must still be inside, down to
the call that leaves. `Nested` says so of every position of a stack: a call
after which the thread is inside is followed by one that runs inside, and no
other is. The lemmas about stacks (`OutsideConcat`, `NestedInside`,
`TailOutside`, `MethodOutside`) say where a stack may be cut and what may be put
in; `KernelStep`, `OutsideStep`, `BeginStep`, `HandlerStep`, `EnterStep` and
`LeaveStep` are the six ways in which an action changes one; then there is a
lemma per action, which adds what it does to the data. `NamesAgree` is then a
matter of the actions that touch the table; between the freeing of a slot and the
removal of its name the freeing thread is inside, and nobody else takes the slot.

`NoUseAfterFree` is about pointers that are on a stack now; that they stay good
rests on the calls around them. `Safe` has two parts:

* `StacksSafe`. What is read through a pointer comes before the call that lets
  its object go (`Ordered`: no pointer is under one of `LastCalls`, and a
  connection that is unlinked is waited for before it is freed); each pointer
  on a stack is to a session that is there (`PointersLive`); and a session is freed only
  when for each connection it still has there is a call above `free` that removes
  it (`FreesEmptied`).
* `HandlerSafe`. The session that the handler of the workloop works on is
  `Pinned`: it still has a connection, so that nobody is at the point of freeing
  it, or the one who is about to still waits for the gate, which the handler
  holds.

Two threads of the daemon do not meet, by `UserClientExcludes`. Steps are thus of
three kinds: of the thread that is inside (`InsideSafe`), of one outside, which has
no pointers (`OutsideSafe`), and of the workloop (`WorkloopSafe`); a lemma per action shows of
which kind it is. TLC checked `Safe` with the configuration of `Sessions`.

`ActiveSessionsAreMounted` speaks of sessions that nobody works on; what it needs
is an account of the work that is still to be done on the others. `Mounts` says:

* `Courses`: every stack of a daemon's thread ends well. A call on a session is
  followed by one that makes an end of it (`Dooms`: a release), except for the calls
  of the run loop by which a login makes a session usable (`Activating`) or a lost
  connection is taken off (`Spares`); a login is the last that the run loop has to do.
* `FirstOnly`: no connection but the first of a session is ever enabled. A further
  one would need the negotiation that is never reached.
* `Covered`: a call that takes from a session's count, or unmounts its target, while the first
  connection is enabled stands behind the call that disables it, or the session is
  doomed.
* `FreshOK`: the session of a login that is not yet activated has no enabled connection,
  no handler works on it, and its count is 0 unless it is doomed.
* `UpOK`: a session with an enabled connection that is not doomed has its target
  mounted, or the mount is still on the run loop's stack, and its count is 0 until
  the increment is done, then 1.

For a session that is left alone nothing is pending and nothing is doomed, and `UpOK`
is the property. `StepMounts` shows what a step must do to keep all of it, in terms of
the stack (`Turn`) and of the table (`Effect`); `PlainMounts`, `KernelMounts`,
`ClosesMounts`, `ActivatingMounts`, `LoginMounts` and `BeginMounts` are the kinds of
step, and there is a lemma per action. A session whose connection is lost between
enabling and mounting may be left with a target and a wrong count (the run
`TargetLeak`); it has no enabled connection then, and nobody enables one again, which is
what `Courses` and `FreshOK` say of logins. TLC checked `Mounts`
with the configuration of `Sessions`.

### Preferences and discovery

In `Discovery_proofs`, for any sets of targets, portals and discovery portals:

| theorem | states | without the faults |
|---|---|---|
| `TypeCorrect` | `TypeOK` | |
| `DynamicTargetsListed` | `DynamicTargetsAreListed` | |
| `EveryTargetHasPortals` | `TargetsHavePortals` | `renameAndSet` |
| `SessionsConfigured` | `SessionsAreConfigured` | `renameOnto` |
| `SecretsOwned` | `SecretsHaveOwners` | `failedOption`, `secretFirst` |
| `OnlyVanishedAreRemoved` | `DiscoveryRemovesOnlyVanished` (an action property) | `renameOnto`, `reusedName`, `sharedTarget` |

Assumptions: `PreferencesConstants` and `DiscoveryConstants`.

**The inductive invariants.** Discovery works on a copy of the preferences
(`work`) that it stores in the end, so each invariant is about both: `IInv` (both
are in order, `AllListed`), `PortalsInv`, `SessionsInv`, `SecretsInv`. Each
operator of `Preferences` has a lemma that says what it changes and keeps.
`SessionsInv` needs the sets of portals to be finite (`FinitePortals`): the tool
keeps the last portal of a target from being removed by counting. That only
vanished targets are removed rests on `VanishedInv`: what a portal's list has is
not static (`ListedNotStatic`), what one portal reported is neither reported nor
listed by another (`Apart`), and the copy has whatever the store must not lose
(`Keeps`), although portals may be removed while they are asked.

### The daemon

In `Daemon_proofs`, for any number of tools, each with any number of commands,
restarts, sleeps and rounds of discovery:

| theorem | states | without the faults |
|---|---|---|
| `TypeCorrect` | `TypeOK` | |
| `OneDiscovery` | `DiscoveryIsLocked` | `longDiscovery` |
| `HolderIsServed` | `LockHolderIsServed` | `overlap`, `impatient` |
| `OwnAnswers` | `AnswersAreOwn` | `overlap`, `impatient` |
| `RunLoopNeverBlocks` | `RunLoopRuns` | `overlap`, `impatient`, `busyDiscovery` |
| `SessionsHaveTarget` | `SessionHasTarget` | `overlap`, `impatient`, `busyLogin`, `staleLogin` |
| `NoLoginIsLost` | `LoginsAreKept` (an action property) | the same |
| `NoChangeIsLost` | `ChangesAreKept` (an action property) | `busyLogin` |

Assumptions: `DaemonConstants`, `NoneIsNoConnection` (tools, changes, connections and
`None` differ).

**The inductive invariants.** `LockInv` says in which stage of a command the one
tool is, what its connection holds at that stage, and from this who has the lock
(`Holder`): the mutex of the code has no owner, so that it is given back rests on
every stage being left by an answer. `DiscoveryRests` adds that discovery is not
under way while a tool is, `CopyInv` what the holder's copy of the preferences
is (what is stored, with its change, or without a target that has no session),
`TargetInv` that the store does not have the target when it was removed.
`NoChangeIsLost` cannot use any of them, since tools may overlap and give up:
`GrantInv` is about what is on its way instead. A tool that was granted the
lock, or has its answer before it, is the one the mutex names; its copy is
complete; an unlock in a connection comes from the holder, with nothing but
requests to lock before it.

### Requests

In `Requests_proofs`, for any number of slots, connections, names, portals,
sessions ever created and connections lost:

* `TypeCorrect`: `TypeOK`. A function applied outside its domain has no type, so
  this says that no call is made with an identifier, a portal or a list that
  the thread does not have.
* `MethodsReturn`: `LockIsReleased`.
* `AlwaysBase`: lists of calls are in order, names stand for sessions, no two for
  one, and numbers mean what they were found for.
* `ActiveSetUp`: `ActiveIsSetUp`.
* `ReportsOfTarget`: `ReportIsOfTarget`.
* `InactiveInHand`: `InactiveIsInHand`, which excepts sessions in `notMounted`.
* `SleepSaves`: `SleepSavesTarget`.

Assumptions: `UserClientConstants` and `RequestsConstants` (at least one slot and
one connection, two threads, the discovery session's name is a name), and
`NoneIsNothing` and `NoneIsNoRecord`: what stands for a null pointer or an
error is not a name, an identifier, a session or a connection.

**The inductive invariant for the types** is `Inv`. A call stays in a thread's list while other
threads change everything that is not the thread's own, so what the call needs
must be among the thread's variables from the moment it is put in the list:
`Ready` says so for each call, `Good` for every position of a list. The discovery
thread does nothing but discovery (`ThreadsInv`), the list of portals is there
as long as sleep fills it or wake takes from it (`Saved`), and a connection is
only asked for a connection's keys (`KeyOfCall`). `Plain` and `Fits` are what a
list that follows another must be; `CallMade`, `RestMade` and `BeginInv` are the
ways in which a step changes a thread; then there is a lemma per action.

**The invariants for the rest** come in layers, each proved from those below it.

* `Base`. `Orderly` says which calls may follow which in a list, and `Meets` what
  holds of a thread that has a call still to make; both are needed because a
  property speaks of the end of a list that was written long before.
  `Sorted` relates names and slots, `DaemonState` the daemon and the user client.
  `PlacedInv` says that the number of a session (`gen`), wherever a thread or a message
  has it, is found in no slot but the one the thread or message means, and
  `KnownInv` that what is in that slot has this number. Only `KnownInv` needs
  `~reused`: from there the condition enters the three properties that have it.
* `SetUp`, for `ActiveIsSetUp`: the thread that will activate a connection has
  each parameter either set or still in its list before the activation (`Ahead`).
  That another thread does not set it differently afterwards follows from
  `KnownInv`, as two sessions never have the same number.
* `Reported`, for `ReportIsOfTarget`: each parameter is either still to be read or in
  the report as the kernel has it (`ReportInv`), and the discovery thread, while it
  sets parameters, has a session that no client's name stands for and that
  the run loop does not report on (`Apart`).
* `Hand`, for `InactiveIsInHand`: "busy" is not enough, for a thread that is busy
  may have nothing left to do. `InCharge` says that it has a release or an
  activation in its list. A timeout releases a connection, and the session only
  if it has no other, so the invariant counts connections too: a session of this
  daemon has one, or one more that a login has added and will release
  (`FewConnections`). `Reported` is used for the activation: its connection is
  still there. That no step takes a session from `notMounted` (`Remembers`) is used
  wherever a session fades from one invariant to the next.
* `SleepInv`, for `SleepSavesTarget`: where in the list of one session the thread is,
  and which of the names that are as old as the list (`Old`) can still matter.

A step is first said in what it does to other threads (`Turns`, `GoesOn`, `Loses`,
`Lessens`, `Rests`, `Creates`, `SetsParameter` and others, a lemma per action);
each layer then treats those kinds of step.

The lemma that `Requests_proofs` and `SessionManager_proofs` share, that the smallest
identifier of a set is in the set, is in `Identifiers`.

### A login

In `Login_proofs`, for any number of threads, any jobs, any preferences of
targets, and any limit of retries:

| theorem | states | under |
|---|---|---|
| `TypeCorrect` | `TypeOK` | |
| `MutualKept` | `MutualIsKept` | |
| `OutcomeReported` | `OutcomeIsReported` | `OnePath`: no job has both several portals and several connections |
| `NumbersInTurn` | `NumbersAgree` | `[]Unwrapped`: status numbers have not come round to the one that is not counted |
| `SessionsAgreed` | `ActiveIsAgreed` | `NoLongerWait`: no target asks for a longer wait than is offered; `[]HeaderIsOwn` |
| `HeaderOwned` | `HeaderIsOwn` | `OneThread` |

Without `OnePath`, `NoLongerWait` and `OneThread` the properties do fail: the first
two are the cases that "Abstractions" tells of, the third is `SharedHeader`. The
number that is not counted is `RecvPDUHeader`'s (`Counts`). With one thread, `SessionsAgreed` and
`HeaderOwned` together give `ActiveIsAgreed` without a condition on headers; with
several it is the shared buffer alone that stands in its way. Assumptions:
`LoginConstants`, `NoneIsNoRecord`, `JobTypes`, `PreferenceTypes`.

**The argument.** Twenty-five actions come down to fifteen kinds of `Step`, which
say what happens to one thread, its session, its target and its wire; a lemma
per action shows which it is and that types are kept (`OneSteps`). Each invariant
is then about those four alone and is shown per kind of step (`StepAccounts`,
`StepProves`, `StepInTurn`, `StepNegotiated`).

* `OutcomeReported`: `Accounted`, with that no more connections are agreed to
  than are offered (`StoredConnections`).
* `MutualKept`: `Consistent`. A challenge goes out once and before it there is no
  proof anywhere (`Before`, `Tells`, `Silent`); after it, what the thread has
  been told, or is on its way, is what the target gave.
* `NumbersInTurn`: `InTurn`. What the kernel expects, and the responses on their
  way that it will count, make up what the target has next; a response that is
  not counted can only be the first (`InOrder`), and a command is on its way
  alone (`Commands`).
* `SessionsAgreed`: `Negotiated`. The keys are offered once (`OfferedOnce`), what
  is said is what is in force or a part of it (`Truthful`), each query is about
  the stages its header says (`Directed`, `Carried`, `BufferInv`), and a target
  that says that it moves on after the keys has entered the full feature phase
  (`MovesLast`). With that, `Agreeing` compares what `Combine` makes of an answer
  with the answer, key by key.

### Only model-checked

Liveness, and everything about submissions off the thread except types. Liveness and ENABLED are
out of the prover's reach; of submissions off the thread the run `TaskQueueRaces` checks
only liveness, and what `LostWakeup` checks does not hold. `TypeOK` of `TaskQueue`,
`SessionManager`, `Requests` and `Discovery`, `SentOnce` and `UserClientExcludes`
are proved and not among the properties of the runs.

## Plan

1. An abstract session table (sessions and targets as sets) that `HBA`
   implements as long as no connection is lost during activation.
2. `TaskQueue` with a draining thread off the workloop.
3. Sequence numbers near 2^32, scaled down, against serial number arithmetic;
   task management requests of the SCSI stack.

## Not modelled, and why

* PDU layout, key=value formatting (with its limit on the length of keys),
  CRC tables, digests and padding, property-list and key chain access,
  authorization rights, command-line parsing, display, installers: data or I/O
  without control worth checking.
* Partial transfers: `RecvPDUData` gives up when a part of a data segment is
  not there yet (`iSCSIVirtualHBA.cpp` 2120). Transfers here are whole.
* R2T and data-out: they do not touch the queue.
* The negotiation of a further connection, which is never reached
  (`AddConnectionCalls`), and functions without a caller
  (`clearTasksFromQueue`, `ActivateAllConnections`, `iSCSISessionTextQuery`).
* Allocation failures one by one; where a module has an outcome "fails", they
  are part of it.
* `iSCSIInitiatorClient.cpp` and `iSCSIKernelInterface.c`, which are not built.
