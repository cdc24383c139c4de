------------------------------ MODULE Discovery ------------------------------
(***************************************************************************)
(* The stored preferences under the commands of iscsictl (iSCSICtl.m) and  *)
(* under discovery (iSCSIDiscovery.c and the end of it in iSCSIDaemon.c).  *)
(*                                                                         *)
(* A command is one step: the tool locks the preferences, looks at what    *)
(* is stored, asks the daemon which targets are active, changes its copy   *)
(* and sends it back (module Daemon has these steps).  A round of          *)
(* discovery is two: the portals are asked on a thread of its own, and the *)
(* answers are worked into the preferences later, on the run loop.         *)
(*                                                                         *)
(* The daemon may be killed at any time, and what it does with a null      *)
(* reference kills it.  launchd starts it again (KeepAlive); the store,    *)
(* the key chain and the kernel's sessions outlive it.                     *)
(***************************************************************************)
EXTENDS Preferences

CONSTANT Faults     \* what users and targets do, see Environment

VARIABLES
    store,          \* the stored preferences
    secrets,        \* names with a CHAP secret in the key chain
    sessions,       \* per target the portal of its session, or None
    records,        \* what was found and is not processed, or None
    work            \* the run loop's preferences while it processes them, or None

vars == <<store, secrets, sessions, records, work>>

Environment == {
    "renameOnto",       \* a target is given the name of another, or its own
    "renameAndSet",     \* a target is renamed and changed by one command
    "failedOption",     \* an option after the new name is invalid
    "secretFirst",      \* a secret is set for a target that does not exist
    "reusedName",       \* a target is added whose name a portal's list still has
    "sharedTarget",     \* two discovery portals report one target
    "staleRecords"}     \* a discovery portal is removed while it is being asked

ASSUME DiscoveryConstants == Faults \subseteq Environment

TypeOK ==
    /\ IsPreferences(store)
    /\ secrets \subseteq Targets
    /\ sessions \in [Targets -> Portals \cup {None}]
    /\ records # None => IsDictionary(records, DiscoveryPortals, Records)
    /\ work # None => /\ records # None
                      /\ work = [prefs |-> work.prefs, todo |-> work.todo]
                      /\ IsPreferences(work.prefs)
                      /\ work.todo \subseteq DOMAIN records

NoSessions == [t \in Targets |-> None]

Init ==
    /\ store = NoPreferences
    /\ secrets = {}
    /\ sessions = NoSessions
    /\ records = None
    /\ work = None

IsTargetActive(t) == sessions[t] # None

Listed(t) == \E d \in DOMAIN store.discovery : t \in store.discovery[d]

(***************************************************************************)
(* Targets.                                                                *)
(***************************************************************************)
AddTarget(t, a) ==
    /\ Listed(t) => ContainsTarget(store, t) \/ "reusedName" \in Faults
    /\ store' = IF ContainsTarget(store, t) THEN SetPortalForTarget(store, t, a)
                ELSE AddStaticTarget(store, t, a)
    /\ UNCHANGED <<secrets, sessions, records>>

RemoveTargetCommand(t) ==
    /\ ConfigType(store, t) = "static"
    /\ ~IsTargetActive(t)
    /\ store' = RemoveTarget(store, t)
    /\ secrets' = secrets \ {t}
    /\ UNCHANGED <<sessions, records>>

\* Mutant: the last portal goes alone.
RemoveOnlyPortal(t, a) ==
    /\ ConfigType(store, t) = "static"
    /\ a \in PortalsOf(store, t)
    /\ sessions[t] # a
    /\ store' = [store EXCEPT !.targets[t].portals = @ \ {a}]
    /\ UNCHANGED <<secrets, sessions, records>>

RemovePortalCommand(t, a) ==
    /\ ConfigType(store, t) = "static"
    /\ a \in PortalsOf(store, t)
    /\ sessions[t] # a
    /\ store' = RemovePortalForTarget(store, t, a)
    /\ secrets' = IF ContainsTarget(store', t) THEN secrets ELSE secrets \ {t}
    /\ UNCHANGED <<sessions, records>>

\* The daemon stores the secret before the tool has looked for the target.
SetSharedSecret(t) ==
    /\ ContainsTarget(store, t) \/ "secretFirst" \in Faults
    /\ secrets' = secrets \cup {t}
    /\ UNCHANGED <<store, sessions, records>>

RemoveSharedSecret(t) ==
    /\ secrets' = secrets \ {t}
    /\ UNCHANGED <<store, sessions, records>>

\* Mutant: the secret stays under the old name.
SecretStays(t, iqn) == secrets

\* SetTargetIQN moves the secret in the key chain at once.
RenameSecret(t, iqn) ==
    IF t \in secrets THEN (secrets \cup {iqn}) \ {t} ELSE secrets

\* Options are worked off in their order, the name before most others, and
\* the others go by the name that was given on the command line.  When one of
\* them is invalid nothing is stored.
ModifyTargetFromOptions(t, iqn) ==
    LET renamed == SetTargetIQN(store, t, iqn)
    IN  {renamed}
        \cup (IF "renameAndSet" \in Faults THEN {CreateIfMissing(renamed, t)} ELSE {})
        \cup (IF "failedOption" \in Faults THEN {store} ELSE {})

RenameTarget(t, iqn) ==
    /\ ConfigType(store, t) = "static"
    /\ ~IsTargetActive(t)
    /\ ContainsTarget(store, iqn) => "renameOnto" \in Faults
    /\ Listed(iqn) => ContainsTarget(store, iqn) \/ "reusedName" \in Faults
    /\ store' \in ModifyTargetFromOptions(t, iqn)
    /\ secrets' = RenameSecret(t, iqn)
    /\ UNCHANGED <<sessions, records>>

(***************************************************************************)
(* Sessions.  A further connection never comes about (SessionManager).     *)
(***************************************************************************)
\* A login over all portals takes the first of them; when there are none the
\* daemon counts the elements of no array.
Login(t) ==
    /\ ContainsTarget(store, t)
    /\ ~IsTargetActive(t)
    /\ \/ \E a \in PortalsOf(store, t) : sessions' = [sessions EXCEPT ![t] = a]
                                         /\ UNCHANGED records
       \/ PortalsOf(store, t) = {} /\ records' = None /\ UNCHANGED sessions
    /\ UNCHANGED <<store, secrets>>

SessionEnds(t) ==
    /\ IsTargetActive(t)
    /\ sessions' = [sessions EXCEPT ![t] = None]
    /\ UNCHANGED <<store, secrets, records>>

(***************************************************************************)
(* Discovery.                                                              *)
(***************************************************************************)
AddDiscoveryPortalCommand(d) ==
    /\ store' = AddDiscoveryPortal(store, d)
    /\ UNCHANGED <<secrets, sessions, records>>

RemoveDiscoveryPortalCommand(d) ==
    /\ ContainsDiscoveryPortal(store, d)
    /\ \A t \in store.discovery[d] : ~IsTargetActive(t)
    /\ records # None => "staleRecords" \in Faults
    /\ store' = RemoveDiscoveryPortal(store, d)
    /\ secrets' = secrets \ store.discovery[d]
    /\ UNCHANGED <<sessions, records>>

ModifyDiscovery(enable) ==
    /\ store' = [store EXCEPT !.sendTargets = enable]
    /\ UNCHANGED <<secrets, sessions, records>>

\* A portal that cannot be asked has no record.  A target is reported with
\* one address: only the first is read.
RunDiscovery ==
    /\ store.sendTargets
    /\ records = None
    /\ DOMAIN store.discovery # {}
    /\ \E found \in Dictionaries(DOMAIN store.discovery, Records) :
         /\ \/ "sharedTarget" \in Faults
            \/ \A d, e \in DOMAIN found :
                 d = e \/ DOMAIN found[d] \cap (DOMAIN found[e] \cup store.discovery[e]) = {}
         /\ records' = found
    /\ UNCHANGED <<store, secrets, sessions, work>>

\* The records are processed in one go, on what is stored at that time.
StartProcessing ==
    /\ records # None
    /\ work = None
    /\ work' = [prefs |-> store, todo |-> DOMAIN records]
    /\ UNCHANGED <<store, secrets, sessions, records>>

\* Mutant: a target that vanished is not logged out.
ProcessKeepsSessions(d) ==
    /\ work # None
    /\ d \in work.todo
    /\ CanUpdate(work.prefs, d)
    /\ work' = [prefs |-> UpdateWithDiscovered(work.prefs, d, records[d]),
                todo |-> work.todo \ {d}]
    /\ secrets' = secrets \ Vanished(work.prefs, d, records[d])
    /\ UNCHANGED <<store, sessions, records>>

\* One record, in the order of a dictionary.  A target that vanished is logged
\* out and removed, with its secret.
ProcessRecord(d) ==
    /\ work # None
    /\ d \in work.todo
    /\ CanUpdate(work.prefs, d)
    /\ work' = [prefs |-> UpdateWithDiscovered(work.prefs, d, records[d]),
                todo |-> work.todo \ {d}]
    /\ LET gone == Vanished(work.prefs, d, records[d])
       IN  /\ secrets' = secrets \ gone
           /\ sessions' = [t \in Targets |-> IF t \in gone THEN None ELSE sessions[t]]
    /\ UNCHANGED <<store, records>>

\* What was found is lost, and what was already logged out and removed with
\* its secret is still stored.
DaemonRestarts ==
    /\ records # None
    /\ records' = None
    /\ work' = None
    /\ UNCHANGED <<store, secrets, sessions>>

StoreDiscovered ==
    /\ work # None
    /\ work.todo = {}
    /\ store' = work.prefs
    /\ records' = None
    /\ work' = None
    /\ UNCHANGED <<secrets, sessions>>

(***************************************************************************)
(* The specification.                                                      *)
(***************************************************************************)
TargetCommand ==
    \E t \in Targets :
        \/ \E a \in Portals : AddTarget(t, a) \/ RemovePortalCommand(t, a)
        \/ RemoveTargetCommand(t)
        \/ SetSharedSecret(t)
        \/ RemoveSharedSecret(t)
        \/ \E iqn \in Targets : RenameTarget(t, iqn)
        \/ SessionEnds(t)

DiscoveryCommand ==
    \/ \E d \in DiscoveryPortals :
         AddDiscoveryPortalCommand(d) \/ RemoveDiscoveryPortalCommand(d)
    \/ \E enable \in BOOLEAN : ModifyDiscovery(enable)

Command ==
    /\ work = None
    /\ \/ TargetCommand
       \/ DiscoveryCommand
       \/ \E t \in Targets : Login(t)
    /\ UNCHANGED work

DiscoveryStep ==
    \/ RunDiscovery
    \/ StartProcessing
    \/ \E d \in DiscoveryPortals : ProcessRecord(d)
    \/ StoreDiscovered
    \/ DaemonRestarts

Next == Command \/ DiscoveryStep

Spec == Init /\ [][Next]_vars

(***************************************************************************)
(* Properties.                                                             *)
(***************************************************************************)
\* A target that is managed by discovery is in the list of the portal that
\* manages it: it goes when the portal no longer reports it, or is removed.
AllListed(p) ==
    \A t \in DOMAIN p.targets :
        ConfigType(p, t) = "dynamic" =>
            /\ p.targets[t].portal \in DOMAIN p.discovery
            /\ t \in p.discovery[p.targets[t].portal]

DynamicTargetsAreListed == AllListed(store)

\* Every target can be logged in to: it has a portal.
TargetsHavePortals == \A t \in DOMAIN store.targets : PortalsOf(store, t) # {}

\* A target with a session stays in the preferences, with the portal in use.
SessionsAreConfigured ==
    \A t \in Targets : IsTargetActive(t) => sessions[t] \in PortalsOf(store, t)

\* No secret is left behind without its target.
SecretsHaveOwners == secrets \subseteq DOMAIN store.targets

\* A round of discovery leaves the targets that users added alone, and keeps
\* every target that some portal reported.
DiscoveryRemovesOnlyVanished ==
    [][StoreDiscovered =>
        \A t \in DOMAIN store.targets :
            /\ ConfigType(store, t) = "static" => /\ ContainsTarget(store', t)
                                                  /\ store'.targets[t] = store.targets[t]
            /\ (\E d \in DOMAIN records : t \in DOMAIN records[d]) => ContainsTarget(store', t)]_vars
=============================================================================
