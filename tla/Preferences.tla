----------------------------- MODULE Preferences -----------------------------
(***************************************************************************)
(* The preferences object of the framework (iSCSIPreferences.c): targets   *)
(* with their portals, and the portals that are asked for targets.  The    *)
(* two refer to each other: a dynamic target names the discovery portal    *)
(* that manages it, and a discovery portal has a list of its targets.      *)
(*                                                                         *)
(* Each operator is one function of the framework, on the object as a      *)
(* value.  Settings of a target that nothing else depends on (digests,     *)
(* names, limits) are left out; that setting one of them may create the    *)
(* target is not.                                                          *)
(***************************************************************************)
EXTENDS FiniteSets, Functions

CONSTANTS
    Targets,            \* iSCSI qualified names
    Portals,            \* addresses of targets
    DiscoveryPortals,   \* addresses that are asked for targets
    None

ASSUME PreferencesConstants == None \notin Targets \cup Portals \cup DiscoveryPortals

With(f, x, v) == [y \in DOMAIN f \cup {x} |-> IF y = x THEN v ELSE f[y]]

Without(f, x) == Restrict(f, DOMAIN f \ {x})

IsDictionary(f, Keys, Values) == DOMAIN f \subseteq Keys /\ f \in [DOMAIN f -> Values]

Dictionaries(Keys, Values) == UNION {[S -> Values] : S \in SUBSET Keys}

TargetDicts ==
    [type : {"static", "dynamic"}, portals : SUBSET Portals, portal : DiscoveryPortals \cup {None}]

IsPreferences(p) ==
    /\ p = [targets |-> p.targets, discovery |-> p.discovery, sendTargets |-> p.sendTargets]
    /\ IsDictionary(p.targets, Targets, TargetDicts)
    /\ IsDictionary(p.discovery, DiscoveryPortals, SUBSET Targets)
    /\ p.sendTargets \in BOOLEAN

NoPreferences == [targets |-> << >>, discovery |-> << >>, sendTargets |-> FALSE]

(***************************************************************************)
(* Targets.  A target without a type is read as static, so that is what a  *)
(* new one is; one without a list of portals has none.                     *)
(***************************************************************************)
NewTarget == [type |-> "static", portals |-> {}, portal |-> None]

ContainsTarget(p, t) == t \in DOMAIN p.targets

ConfigType(p, t) == IF ContainsTarget(p, t) THEN p.targets[t].type ELSE "invalid"

PortalsOf(p, t) == IF ContainsTarget(p, t) THEN p.targets[t].portals ELSE {}

SetTarget(p, t, dict) == [p EXCEPT !.targets = With(@, t, dict)]

\* What every setter that creates a missing target does to the others' eyes.
CreateIfMissing(p, t) == IF ContainsTarget(p, t) THEN p ELSE SetTarget(p, t, NewTarget)

AddStaticTarget(p, t, a) ==
    IF ContainsTarget(p, t) THEN p
    ELSE SetTarget(p, t, [NewTarget EXCEPT !.portals = {a}])

\* Nothing for a target that has no list of portals.
SetPortalForTarget(p, t, a) ==
    IF PortalsOf(p, t) = {} THEN p
    ELSE [p EXCEPT !.targets[t].portals = @ \cup {a}]

RemoveTarget(p, t) == [p EXCEPT !.targets = Without(@, t)]

\* The last portal goes with its target, whichever address was given.
RemovePortalForTarget(p, t, a) ==
    IF Cardinality(PortalsOf(p, t)) = 1 THEN RemoveTarget(p, t)
    ELSE IF PortalsOf(p, t) = {} THEN p
    ELSE [p EXCEPT !.targets[t].portals = @ \ {a}]

\* The new name is set before the old one is removed, whatever it stood for.
SetTargetIQN(p, t, iqn) ==
    IF ConfigType(p, t) # "static" THEN p
    ELSE RemoveTarget(SetTarget(p, iqn, p.targets[t]), t)

(***************************************************************************)
(* Discovery portals.                                                      *)
(***************************************************************************)
ContainsDiscoveryPortal(p, d) == d \in DOMAIN p.discovery

AddDiscoveryPortal(p, d) ==
    IF ContainsDiscoveryPortal(p, d) THEN p
    ELSE [p EXCEPT !.discovery = With(@, d, {})]

\* Mutant: the targets stay.
RemoveDiscoveryPortalOnly(p, d) ==
    IF ~ContainsDiscoveryPortal(p, d) THEN p ELSE [p EXCEPT !.discovery = Without(@, d)]

\* Every target of the portal's list is removed with it.
RemoveDiscoveryPortal(p, d) ==
    IF ~ContainsDiscoveryPortal(p, d) THEN p
    ELSE [p EXCEPT !.targets = Restrict(@, DOMAIN @ \ p.discovery[d]),
                   !.discovery = Without(@, d)]

\* AddDynamicTargetForSendTargets, for a target that does not exist: it is
\* also entered in the portal's list.
NewDynamicTarget(a, d) == [type |-> "dynamic", portals |-> {a}, portal |-> d]

(***************************************************************************)
(* What a discovery portal reported (iSCSIDiscovery.c): a record is a      *)
(* function from the targets to the address of each.                       *)
(***************************************************************************)
Records == Dictionaries(Targets, Portals)

\* A target that was added in another way stays as it is; a dynamic one gets the
\* address, whoever manages it.
Discovered(p, t, a, d) ==
    IF ConfigType(p, t) = "static" THEN p.targets[t]
    ELSE IF ContainsTarget(p, t) THEN SetPortalForTarget(p, t, a).targets[t]
    ELSE NewDynamicTarget(a, d)

DiscoveredTargets(p, d, rec) ==
    [t \in DOMAIN p.targets \cup DOMAIN rec |->
        IF t \in DOMAIN rec THEN Discovered(p, t, rec[t], d) ELSE p.targets[t]]

AddDiscovered(p, d, rec) ==
    [p EXCEPT !.targets = DiscoveredTargets(p, d, rec),
              !.discovery[d] = @ \cup (DOMAIN rec \ DOMAIN p.targets)]

\* Mutant: every dynamic target that the portal did not report.
VanishedAnywhere(p, d, rec) ==
    {t \in DOMAIN p.targets : ConfigType(p, t) = "dynamic"} \ DOMAIN rec

\* The targets of the portal's list that it did not report.  They stay listed.
Vanished(p, d, rec) == p.discovery[d] \ DOMAIN rec

UpdateWithDiscovered(p, d, rec) ==
    LET q == AddDiscovered(p, d, rec)
    IN  [q EXCEPT !.targets = Restrict(@, DOMAIN @ \ Vanished(q, d, rec))]

\* The list of a portal that has been removed is a null reference.
CanUpdate(p, d) == ContainsDiscoveryPortal(p, d)
=============================================================================
