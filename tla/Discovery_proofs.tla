--------------------------- MODULE Discovery_proofs ---------------------------
(***************************************************************************)
(* Machine-checked facts about Preferences and Discovery, for any number   *)
(* of targets, portals and discovery portals.  Whatever users and targets  *)
(* do, the types hold and the dynamic targets of the preferences are in    *)
(* the lists of the portals that manage them.  The other theorems name the *)
(* faults of the environment that break them: each holds under all others. *)
(***************************************************************************)
EXTENDS Discovery, FiniteSetTheorems, TLAPS

-----------------------------------------------------------------------------
(* Dictionaries.                                                           *)

LEMMA SetValue ==
  ASSUME NEW K, NEW V, NEW f, IsDictionary(f, K, V), NEW k \in K, NEW v \in V
  PROVE  LET g == With(f, k, v)
         IN  /\ IsDictionary(g, K, V)
             /\ DOMAIN g = DOMAIN f \cup {k}
             /\ \A x \in DOMAIN g : g[x] = IF x = k THEN v ELSE f[x]
BY DEF IsDictionary, With

-----------------------------------------------------------------------------
(* The preferences.                                                        *)

\* What holds of the preferences, stored or not.
Good(p) == IsPreferences(p) /\ AllListed(p)

\* A dynamic target is in the list of its portal.
IsListed(p, t, dict) ==
    dict.type = "dynamic" => /\ dict.portal \in DOMAIN p.discovery
                             /\ t \in p.discovery[dict.portal]

LEMMA Dictionary ==
  ASSUME NEW p, IsPreferences(p)
  PROVE  /\ AllListed(p) <=> \A t \in DOMAIN p.targets : IsListed(p, t, p.targets[t])
         /\ \A t \in DOMAIN p.targets : t \in Targets /\ p.targets[t] \in TargetDicts
         /\ \A d \in DOMAIN p.discovery : d \in DiscoveryPortals /\ p.discovery[d] \subseteq Targets
BY DEF AllListed, IsListed, IsPreferences, IsDictionary, ConfigType, ContainsTarget

\* The targets may be replaced by others that are listed.
LEMMA NewTargets ==
  ASSUME NEW p, IsPreferences(p), NEW f, IsDictionary(f, Targets, TargetDicts),
         \A t \in DOMAIN f : IsListed(p, t, f[t])
  PROVE  /\ Good([p EXCEPT !.targets = f])
         /\ [p EXCEPT !.targets = f].targets = f
         /\ [p EXCEPT !.targets = f].discovery = p.discovery
<1> DEFINE q == [p EXCEPT !.targets = f]
<1>1. q = [targets |-> f, discovery |-> p.discovery, sendTargets |-> p.sendTargets]
  BY DEF IsPreferences
<1> HIDE DEF q
<1>2. q.targets = f /\ q.discovery = p.discovery /\ q.sendTargets = p.sendTargets
  BY <1>1
<1>3. IsPreferences(q)
  BY <1>1, <1>2 DEF IsPreferences
<1>4. AllListed(q)
  BY <1>2, <1>3, Dictionary DEF IsListed
<1> QED
  BY <1>2, <1>3, <1>4 DEF Good, q

LEMMA SetTargetGood ==
  ASSUME NEW p, Good(p), NEW t \in Targets, NEW dict \in TargetDicts, IsListed(p, t, dict)
  PROVE  Good(SetTarget(p, t, dict)) /\ SetTarget(p, t, dict).discovery = p.discovery
<1> DEFINE f == With(p.targets, t, dict)
<1>1. /\ IsDictionary(f, Targets, TargetDicts)
      /\ DOMAIN f = DOMAIN p.targets \cup {t}
      /\ \A x \in DOMAIN f : f[x] = IF x = t THEN dict ELSE p.targets[x]
  BY SetValue DEF Good, IsPreferences
<1>2. SetTarget(p, t, dict) = [p EXCEPT !.targets = f]
  BY DEF SetTarget
<1> HIDE DEF f
<1>3. \A x \in DOMAIN f : IsListed(p, x, f[x])
  BY <1>1, Dictionary DEF Good
<1> QED
  BY <1>1, <1>2, <1>3, NewTargets DEF Good

\* A target that exists may be changed, if it stays with its portal.
LEMMA ChangeTargetGood ==
  ASSUME NEW p, Good(p), NEW t \in DOMAIN p.targets, NEW portals \in SUBSET Portals
  PROVE  Good([p EXCEPT !.targets[t].portals = portals])
<1> DEFINE dict == [p.targets[t] EXCEPT !.portals = portals]
           f == [p.targets EXCEPT ![t] = dict]
<1>1. IsDictionary(p.targets, Targets, TargetDicts) /\ p.targets[t] \in TargetDicts /\ IsListed(p, t, p.targets[t])
  BY Dictionary DEF Good, IsPreferences
<1>2. dict \in TargetDicts /\ IsListed(p, t, dict)
  BY <1>1 DEF TargetDicts, IsListed
<1>3. [p EXCEPT !.targets[t].portals = portals] = [p EXCEPT !.targets = f]
  OBVIOUS
<1> HIDE DEF dict
<1>4. IsDictionary(f, Targets, TargetDicts)
  BY <1>1, <1>2 DEF IsDictionary
<1>5. \A x \in DOMAIN f : IsListed(p, x, f[x])
  BY <1>1, <1>2, Dictionary DEF Good, IsDictionary
<1> HIDE DEF f
<1> QED
  BY <1>3, <1>4, <1>5, NewTargets DEF Good

LEMMA NewTargetIsStatic == NewTarget \in TargetDicts /\ \A p, t : IsListed(p, t, NewTarget)
BY DEF NewTarget, TargetDicts, IsListed

LEMMA CreateIfMissingGood ==
  ASSUME NEW p, Good(p), NEW t \in Targets
  PROVE  Good(CreateIfMissing(p, t))
BY SetTargetGood, NewTargetIsStatic DEF CreateIfMissing

LEMMA AddStaticTargetGood ==
  ASSUME NEW p, Good(p), NEW t \in Targets, NEW a \in Portals
  PROVE  Good(AddStaticTarget(p, t, a))
<1> DEFINE dict == [NewTarget EXCEPT !.portals = {a}]
<1>1. dict \in TargetDicts /\ IsListed(p, t, dict)
  BY DEF NewTarget, TargetDicts, IsListed
<1> QED
  BY <1>1, SetTargetGood DEF AddStaticTarget

LEMMA PortalsOfTarget ==
  ASSUME NEW p, IsPreferences(p), NEW t
  PROVE  PortalsOf(p, t) \subseteq Portals /\ (PortalsOf(p, t) # {} => t \in DOMAIN p.targets)
BY Dictionary DEF PortalsOf, ContainsTarget, TargetDicts

LEMMA SetPortalGood ==
  ASSUME NEW p, Good(p), NEW t, NEW a \in Portals
  PROVE  Good(SetPortalForTarget(p, t, a))
<1>1. CASE PortalsOf(p, t) = {}
  BY <1>1 DEF SetPortalForTarget
<1>2. CASE PortalsOf(p, t) # {}
  <2>1. t \in DOMAIN p.targets /\ p.targets[t].portals \subseteq Portals
    BY <1>2, PortalsOfTarget DEF Good, PortalsOf, ContainsTarget
  <2>2. SetPortalForTarget(p, t, a) =
          [p EXCEPT !.targets[t].portals = p.targets[t].portals \cup {a}]
    BY <1>2, <2>1 DEF SetPortalForTarget, Good, IsPreferences, IsDictionary
  <2> QED
    BY <2>1, <2>2, ChangeTargetGood
<1> QED
  BY <1>1, <1>2

LEMMA RemoveTargetGood ==
  ASSUME NEW p, Good(p), NEW t
  PROVE  Good(RemoveTarget(p, t))
<1> DEFINE f == Without(p.targets, t)
<1>1. /\ IsDictionary(f, Targets, TargetDicts)
      /\ DOMAIN f = DOMAIN p.targets \ {t}
      /\ \A x \in DOMAIN f : f[x] = p.targets[x]
  <2>1. f = Restrict(p.targets, DOMAIN p.targets \ {t})
    BY DEF Without
  <2>2. IsDictionary(p.targets, Targets, TargetDicts)
    BY DEF Good, IsPreferences
  <2> HIDE DEF f
  <2> QED
    BY <2>1, <2>2 DEF IsDictionary, Restrict
<1>2. RemoveTarget(p, t) = [p EXCEPT !.targets = f]
  BY DEF RemoveTarget
<1> HIDE DEF f
<1>3. \A x \in DOMAIN f : IsListed(p, x, f[x])
  BY <1>1, Dictionary DEF Good
<1> QED
  BY <1>1, <1>2, <1>3, NewTargets DEF Good

LEMMA RemovePortalGood ==
  ASSUME NEW p, Good(p), NEW t, NEW a
  PROVE  Good(RemovePortalForTarget(p, t, a))
<1>1. CASE Cardinality(PortalsOf(p, t)) = 1
  BY <1>1, RemoveTargetGood DEF RemovePortalForTarget
<1>2. CASE Cardinality(PortalsOf(p, t)) # 1 /\ PortalsOf(p, t) = {}
  BY <1>2 DEF RemovePortalForTarget
<1>3. CASE Cardinality(PortalsOf(p, t)) # 1 /\ PortalsOf(p, t) # {}
  <2>1. t \in DOMAIN p.targets /\ p.targets[t].portals \subseteq Portals
    BY <1>3, PortalsOfTarget DEF Good, PortalsOf, ContainsTarget
  <2>2. RemovePortalForTarget(p, t, a) =
          [p EXCEPT !.targets[t].portals = p.targets[t].portals \ {a}]
    BY <1>3, <2>1 DEF RemovePortalForTarget, Good, IsPreferences, IsDictionary
  <2> QED
    BY <2>1, <2>2, ChangeTargetGood
<1> QED
  BY <1>1, <1>2, <1>3

LEMMA SetTargetIQNGood ==
  ASSUME NEW p, Good(p), NEW t, NEW iqn \in Targets
  PROVE  Good(SetTargetIQN(p, t, iqn))
<1>1. CASE ConfigType(p, t) # "static"
  BY <1>1 DEF SetTargetIQN
<1>2. CASE ConfigType(p, t) = "static"
  <2>1. p.targets[t] \in TargetDicts /\ IsListed(p, iqn, p.targets[t])
    BY <1>2, Dictionary DEF Good, ConfigType, ContainsTarget, IsListed
  <2> QED
    BY <1>2, <2>1, SetTargetGood, RemoveTargetGood DEF SetTargetIQN
<1> QED
  BY <1>1, <1>2

\* The discovery portals may be changed, if every list keeps its targets and
\* the portals that manage a target stay.
LEMMA NewDiscovery ==
  ASSUME NEW p, Good(p), NEW f, IsDictionary(f, Targets, TargetDicts),
         NEW g, IsDictionary(g, DiscoveryPortals, SUBSET Targets),
         NEW q, q = [targets |-> f, discovery |-> g, sendTargets |-> p.sendTargets],
         \A t \in DOMAIN f : IsListed(q, t, f[t])
  PROVE  Good(q)
<1>1. q.targets = f /\ q.discovery = g /\ q.sendTargets = p.sendTargets
  OBVIOUS
<1>2. IsPreferences(q)
  BY <1>1 DEF IsPreferences, Good
<1> QED
  BY <1>1, <1>2, Dictionary DEF Good

LEMMA AddDiscoveryPortalGood ==
  ASSUME NEW p, Good(p), NEW d \in DiscoveryPortals
  PROVE  Good(AddDiscoveryPortal(p, d))
<1>1. CASE ContainsDiscoveryPortal(p, d)
  BY <1>1 DEF AddDiscoveryPortal
<1>2. CASE ~ContainsDiscoveryPortal(p, d)
  <2> DEFINE g == With(p.discovery, d, {})
             q == [targets |-> p.targets, discovery |-> g, sendTargets |-> p.sendTargets]
  <2>1. /\ IsDictionary(g, DiscoveryPortals, SUBSET Targets)
        /\ DOMAIN g = DOMAIN p.discovery \cup {d}
        /\ \A x \in DOMAIN g : g[x] = IF x = d THEN {} ELSE p.discovery[x]
    BY SetValue DEF Good, IsPreferences
  <2>2. AddDiscoveryPortal(p, d) = q
    BY <1>2 DEF AddDiscoveryPortal, Good, IsPreferences
  <2> HIDE DEF g
  <2>3. \A t \in DOMAIN p.targets : IsListed(q, t, p.targets[t])
    BY <1>2, <2>1, Dictionary DEF Good, IsListed, ContainsDiscoveryPortal
  <2>4. q = [targets |-> p.targets, discovery |-> g, sendTargets |-> p.sendTargets]
    OBVIOUS
  <2>5. IsDictionary(p.targets, Targets, TargetDicts)
    BY DEF Good, IsPreferences
  <2> HIDE DEF q
  <2> QED
    BY <2>1, <2>2, <2>3, <2>4, <2>5, NewDiscovery
<1> QED
  BY <1>1, <1>2

LEMMA RemoveDiscoveryPortalGood ==
  ASSUME NEW p, Good(p), NEW d
  PROVE  Good(RemoveDiscoveryPortal(p, d))
<1>1. CASE ~ContainsDiscoveryPortal(p, d)
  BY <1>1 DEF RemoveDiscoveryPortal
<1>2. CASE ContainsDiscoveryPortal(p, d)
  <2> DEFINE f == Restrict(p.targets, DOMAIN p.targets \ p.discovery[d])
             g == Restrict(p.discovery, DOMAIN p.discovery \ {d})
             q == [targets |-> f, discovery |-> g, sendTargets |-> p.sendTargets]
  <2>1. RemoveDiscoveryPortal(p, d) = q
    BY <1>2 DEF RemoveDiscoveryPortal, Without, Good, IsPreferences
  <2>2. /\ IsDictionary(p.targets, Targets, TargetDicts)
        /\ IsDictionary(p.discovery, DiscoveryPortals, SUBSET Targets)
    BY DEF Good, IsPreferences
  <2>6. /\ f = Restrict(p.targets, DOMAIN p.targets \ p.discovery[d])
        /\ g = Restrict(p.discovery, DOMAIN p.discovery \ {d})
    OBVIOUS
  <2>7. q = [targets |-> f, discovery |-> g, sendTargets |-> p.sendTargets]
    OBVIOUS
  <2> HIDE DEF f, g
  <2>3. /\ IsDictionary(f, Targets, TargetDicts)
        /\ DOMAIN f = DOMAIN p.targets \ p.discovery[d]
        /\ \A x \in DOMAIN f : f[x] = p.targets[x]
    BY <2>2, <2>6 DEF IsDictionary, Restrict
  <2>4. /\ IsDictionary(g, DiscoveryPortals, SUBSET Targets)
        /\ DOMAIN g = DOMAIN p.discovery \ {d}
        /\ \A x \in DOMAIN g : g[x] = p.discovery[x]
    BY <2>2, <2>6 DEF IsDictionary, Restrict
  <2>5. \A t \in DOMAIN f : IsListed(q, t, f[t])
    BY <2>3, <2>4, Dictionary DEF Good, IsListed
  <2> QED
    <3> HIDE DEF q
    <3> QED
      BY <2>1, <2>3, <2>4, <2>5, <2>7, NewDiscovery
<1> QED
  BY <1>1, <1>2

\* What a record makes of a target.
LEMMA DiscoveredTarget ==
  ASSUME NEW p, Good(p), NEW t \in Targets, NEW a \in Portals, NEW d \in DOMAIN p.discovery
  PROVE  LET dict == Discovered(p, t, a, d)
         IN  /\ dict \in TargetDicts
             /\ IF t \in DOMAIN p.targets THEN IsListed(p, t, dict) ELSE dict.portal = d
<1>1. CASE t \notin DOMAIN p.targets
  <2>1. Discovered(p, t, a, d) = NewDynamicTarget(a, d)
    BY <1>1 DEF Discovered, ConfigType, ContainsTarget
  <2>2. d \in DiscoveryPortals
    BY Dictionary DEF Good
  <2> QED
    BY <1>1, <2>1, <2>2 DEF NewDynamicTarget, TargetDicts
<1>2. CASE t \in DOMAIN p.targets /\ ConfigType(p, t) = "static"
  BY <1>2, Dictionary DEF Discovered, Good
<1>3. CASE t \in DOMAIN p.targets /\ ConfigType(p, t) # "static"
  <2> DEFINE q == SetPortalForTarget(p, t, a)
  <2>1. Discovered(p, t, a, d) = q.targets[t]
    BY <1>3 DEF Discovered, ContainsTarget
  <2>2. q.discovery = p.discovery /\ t \in DOMAIN q.targets
    BY <1>3 DEF SetPortalForTarget, Good, IsPreferences, IsDictionary
  <2>3. Good(q)
    BY SetPortalGood
  <2> HIDE DEF q
  <2> QED
    BY <1>3, <2>1, <2>2, <2>3, Dictionary DEF Good, IsListed
<1> QED
  BY <1>1, <1>2, <1>3

LEMMA AddDiscoveredGood ==
  ASSUME NEW p, Good(p), NEW d \in DOMAIN p.discovery, NEW rec \in Records
  PROVE  /\ Good(AddDiscovered(p, d, rec))
         /\ DOMAIN AddDiscovered(p, d, rec).discovery = DOMAIN p.discovery
<1>1. DOMAIN rec \subseteq Targets /\ rec \in [DOMAIN rec -> Portals]
  BY DEF Records, Dictionaries
<1> DEFINE f == DiscoveredTargets(p, d, rec)
           new == DOMAIN rec \ DOMAIN p.targets
           g == [p.discovery EXCEPT ![d] = @ \cup new]
           q == [targets |-> f, discovery |-> g, sendTargets |-> p.sendTargets]
<1>2. AddDiscovered(p, d, rec) = q
  <2>1. p = [targets |-> p.targets, discovery |-> p.discovery, sendTargets |-> p.sendTargets]
    BY DEF Good, IsPreferences
  <2>2. AddDiscovered(p, d, rec) =
          [[p EXCEPT !.targets = f] EXCEPT !.discovery = [p.discovery EXCEPT ![d] = @ \cup new]]
    BY <2>1 DEF AddDiscovered
  <2> HIDE DEF f, g, new
  <2>3. [p EXCEPT !.targets = f] = [targets |-> f, discovery |-> p.discovery, sendTargets |-> p.sendTargets]
    BY <2>1
  <2> QED
    BY <2>2, <2>3 DEF g
<1>3. /\ DOMAIN f = DOMAIN p.targets \cup DOMAIN rec
      /\ \A t \in DOMAIN f :
            f[t] = IF t \in DOMAIN rec THEN Discovered(p, t, rec[t], d) ELSE p.targets[t]
  BY DEF DiscoveredTargets
<1>4. \A t \in DOMAIN f :
        /\ f[t] \in TargetDicts
        /\ IF t \in DOMAIN p.targets THEN IsListed(p, t, f[t]) ELSE f[t].portal = d
  <2>1. SUFFICES ASSUME NEW t \in DOMAIN f
                 PROVE  /\ f[t] \in TargetDicts
                        /\ IF t \in DOMAIN p.targets THEN IsListed(p, t, f[t])
                                                   ELSE f[t].portal = d
    OBVIOUS
  <2> HIDE DEF f
  <2>2. CASE t \in DOMAIN rec
    BY <1>1, <1>3, <2>1, <2>2, DiscoveredTarget
  <2>3. CASE t \notin DOMAIN rec
    BY <1>3, <2>1, <2>3, Dictionary DEF Good
  <2> QED
    BY <2>2, <2>3
<1>5. IsDictionary(f, Targets, TargetDicts)
  <2>1. DOMAIN f \subseteq Targets
    BY <1>1, <1>3, Dictionary DEF Good
  <2>2. f = [t \in DOMAIN f |-> f[t]]
    BY DEF DiscoveredTargets
  <2> HIDE DEF f
  <2> QED
    BY <1>4, <2>1, <2>2 DEF IsDictionary
<1>6. /\ IsDictionary(g, DiscoveryPortals, SUBSET Targets)
      /\ DOMAIN g = DOMAIN p.discovery
      /\ \A x \in DOMAIN g : p.discovery[x] \subseteq g[x]
      /\ new \subseteq g[d]
  <2>1. IsDictionary(p.discovery, DiscoveryPortals, SUBSET Targets) /\ new \subseteq Targets
    BY <1>1 DEF Good, IsPreferences
  <2> HIDE DEF new
  <2> QED
    BY <2>1 DEF IsDictionary
<1>7. \A t \in DOMAIN f : IsListed(q, t, f[t])
  <2>1. q.discovery = g
    OBVIOUS
  <2>2. \A t \in DOMAIN f : t \in DOMAIN p.targets \/ t \in new
    BY <1>3
  <2> HIDE DEF f, g, q, new
  <2> QED
    BY <1>4, <1>6, <2>1, <2>2 DEF IsListed
<1>8. q = [targets |-> f, discovery |-> g, sendTargets |-> p.sendTargets]
  OBVIOUS
<1>9. q.discovery = g
  OBVIOUS
<1> HIDE DEF f, g, q
<1> QED
  BY <1>2, <1>5, <1>6, <1>7, <1>8, <1>9, NewDiscovery

LEMMA UpdateGood ==
  ASSUME NEW p, Good(p), NEW d \in DOMAIN p.discovery, NEW rec \in Records
  PROVE  Good(UpdateWithDiscovered(p, d, rec))
<1> DEFINE q == AddDiscovered(p, d, rec)
           f == Restrict(q.targets, DOMAIN q.targets \ Vanished(q, d, rec))
<1>1. Good(q)
  BY AddDiscoveredGood
<1>2. UpdateWithDiscovered(p, d, rec) = [q EXCEPT !.targets = f]
  BY DEF UpdateWithDiscovered
<1> HIDE DEF q
<1>3. /\ IsDictionary(f, Targets, TargetDicts)
      /\ DOMAIN f \subseteq DOMAIN q.targets
      /\ \A x \in DOMAIN f : f[x] = q.targets[x]
  <2>1. IsDictionary(q.targets, Targets, TargetDicts)
    BY <1>1 DEF Good, IsPreferences
  <2> QED
    BY <2>1 DEF IsDictionary, Restrict
<1> HIDE DEF f
<1>4. \A t \in DOMAIN f : IsListed(q, t, f[t])
  BY <1>1, <1>3, Dictionary DEF Good
<1> QED
  BY <1>1, <1>2, <1>3, <1>4, NewTargets DEF Good

-----------------------------------------------------------------------------
(* What each operation leaves: the targets that are there, what is stored  *)
(* of each, and the lists of the discovery portals.                        *)

LEMMA TargetsSet ==
  ASSUME NEW p, IsPreferences(p), NEW f
  PROVE  LET q == [p EXCEPT !.targets = f]
         IN  /\ q.targets = f
             /\ q.discovery = p.discovery
             /\ q.sendTargets = p.sendTargets
BY DEF IsPreferences

LEMMA SetTargetFields ==
  ASSUME NEW p, IsPreferences(p), NEW t, NEW dict
  PROVE  LET q == SetTarget(p, t, dict)
         IN  /\ DOMAIN q.targets = DOMAIN p.targets \cup {t}
             /\ \A x \in DOMAIN q.targets : q.targets[x] = IF x = t THEN dict ELSE p.targets[x]
             /\ q.discovery = p.discovery
<1> DEFINE f == With(p.targets, t, dict)
<1>1. /\ DOMAIN f = DOMAIN p.targets \cup {t}
      /\ \A x \in DOMAIN f : f[x] = IF x = t THEN dict ELSE p.targets[x]
  BY DEF With
<1>2. SetTarget(p, t, dict) = [p EXCEPT !.targets = f]
  BY DEF SetTarget
<1> HIDE DEF f
<1> QED
  BY <1>1, <1>2, TargetsSet

LEMMA ChangePortalsFields ==
  ASSUME NEW p, IsPreferences(p), NEW t \in DOMAIN p.targets, NEW portals
  PROVE  LET q == [p EXCEPT !.targets[t].portals = portals]
         IN  /\ DOMAIN q.targets = DOMAIN p.targets
             /\ \A x \in DOMAIN q.targets :
                  /\ q.targets[x].portals = IF x = t THEN portals ELSE p.targets[x].portals
                  /\ q.targets[x].type = p.targets[x].type
                  /\ x # t => q.targets[x] = p.targets[x]
             /\ q.discovery = p.discovery
<1> DEFINE dict == [p.targets[t] EXCEPT !.portals = portals]
           f == [p.targets EXCEPT ![t] = dict]
<1>1. p.targets[t] \in TargetDicts /\ IsDictionary(p.targets, Targets, TargetDicts)
  BY Dictionary DEF IsPreferences
<1>2. dict.portals = portals /\ dict.type = p.targets[t].type
  BY <1>1 DEF TargetDicts
<1>3. [p EXCEPT !.targets[t].portals = portals] = [p EXCEPT !.targets = f]
  OBVIOUS
<1> HIDE DEF dict
<1>4. /\ DOMAIN f = DOMAIN p.targets
      /\ \A x \in DOMAIN f : f[x] = IF x = t THEN dict ELSE p.targets[x]
  BY <1>1 DEF IsDictionary
<1> HIDE DEF f
<1> QED
  BY <1>2, <1>3, <1>4, TargetsSet

LEMMA RemoveTargetFields ==
  ASSUME NEW p, IsPreferences(p), NEW t
  PROVE  LET q == RemoveTarget(p, t)
         IN  /\ DOMAIN q.targets = DOMAIN p.targets \ {t}
             /\ \A x \in DOMAIN q.targets : q.targets[x] = p.targets[x]
             /\ q.discovery = p.discovery
<1> DEFINE f == Without(p.targets, t)
<1>1. DOMAIN f = DOMAIN p.targets \ {t} /\ \A x \in DOMAIN f : f[x] = p.targets[x]
  BY DEF Without, Restrict
<1>2. RemoveTarget(p, t) = [p EXCEPT !.targets = f]
  BY DEF RemoveTarget
<1> HIDE DEF f
<1> QED
  BY <1>1, <1>2, TargetsSet

LEMMA SetPortalFields ==
  ASSUME NEW p, IsPreferences(p), NEW t, NEW a
  PROVE  LET q == SetPortalForTarget(p, t, a)
         IN  /\ DOMAIN q.targets = DOMAIN p.targets
             /\ \A x \in DOMAIN q.targets :
                  /\ q.targets[x].portals \in {p.targets[x].portals, p.targets[x].portals \cup {a}}
                  /\ q.targets[x].type = p.targets[x].type
             /\ q.discovery = p.discovery
<1>1. CASE PortalsOf(p, t) = {}
  BY <1>1 DEF SetPortalForTarget
<1>2. CASE PortalsOf(p, t) # {}
  <2>1. t \in DOMAIN p.targets
    BY <1>2 DEF PortalsOf, ContainsTarget
  <2>2. SetPortalForTarget(p, t, a) =
          [p EXCEPT !.targets[t].portals = p.targets[t].portals \cup {a}]
    BY <1>2, <2>1 DEF SetPortalForTarget, IsPreferences, IsDictionary
  <2> QED
    BY <2>1, <2>2, ChangePortalsFields
<1> QED
  BY <1>1, <1>2

LEMMA AddDiscoveryPortalFields ==
  ASSUME NEW p, IsPreferences(p), NEW d
  PROVE  LET q == AddDiscoveryPortal(p, d)
         IN  /\ q.targets = p.targets
             /\ \A e \in DOMAIN q.discovery :
                  \/ q.discovery[e] = {}
                  \/ e \in DOMAIN p.discovery /\ q.discovery[e] = p.discovery[e]
<1>1. CASE ContainsDiscoveryPortal(p, d)
  BY <1>1 DEF AddDiscoveryPortal
<1>2. CASE ~ContainsDiscoveryPortal(p, d)
  <2> DEFINE g == With(p.discovery, d, {})
  <2>1. AddDiscoveryPortal(p, d).targets = p.targets /\ AddDiscoveryPortal(p, d).discovery = g
    BY <1>2 DEF AddDiscoveryPortal, IsPreferences
  <2>2. \A e \in DOMAIN g : IF e = d THEN g[e] = {} ELSE e \in DOMAIN p.discovery /\ g[e] = p.discovery[e]
    BY DEF With
  <2> HIDE DEF g
  <2> QED
    BY <2>1, <2>2
<1> QED
  BY <1>1, <1>2

LEMMA RemoveDiscoveryPortalFields ==
  ASSUME NEW p, IsPreferences(p), NEW d \in DOMAIN p.discovery
  PROVE  LET q == RemoveDiscoveryPortal(p, d)
         IN  /\ DOMAIN q.targets = DOMAIN p.targets \ p.discovery[d]
             /\ \A x \in DOMAIN q.targets : q.targets[x] = p.targets[x]
             /\ \A e \in DOMAIN q.discovery :
                  e \in DOMAIN p.discovery /\ q.discovery[e] = p.discovery[e]
<1> DEFINE f == Restrict(p.targets, DOMAIN p.targets \ p.discovery[d])
           g == Restrict(p.discovery, DOMAIN p.discovery \ {d})
<1>1. RemoveDiscoveryPortal(p, d).targets = f /\ RemoveDiscoveryPortal(p, d).discovery = g
  BY DEF RemoveDiscoveryPortal, ContainsDiscoveryPortal, Without, IsPreferences
<1>2. DOMAIN f = DOMAIN p.targets \ p.discovery[d] /\ \A x \in DOMAIN f : f[x] = p.targets[x]
  BY DEF Restrict
<1>3. \A e \in DOMAIN g : e \in DOMAIN p.discovery /\ g[e] = p.discovery[e]
  BY DEF Restrict
<1> HIDE DEF f, g
<1> QED
  BY <1>1, <1>2, <1>3

\* A static target of a record stays as it is, any other that exists may get
\* an address, and one that did not exist is a dynamic one with its address.
LEMMA DiscoveredFields ==
  ASSUME NEW p, IsPreferences(p), NEW t, NEW a, NEW d
  PROVE  LET dict == Discovered(p, t, a, d)
         IN  /\ t \in DOMAIN p.targets =>
                  /\ dict.portals \in {p.targets[t].portals, p.targets[t].portals \cup {a}}
                  /\ dict.type = p.targets[t].type
             /\ ConfigType(p, t) = "static" => dict = p.targets[t]
             /\ t \notin DOMAIN p.targets => dict.portals = {a} /\ dict.type = "dynamic"
<1>1. CASE t \notin DOMAIN p.targets
  BY <1>1 DEF Discovered, ConfigType, ContainsTarget, NewDynamicTarget
<1>2. CASE t \in DOMAIN p.targets /\ ConfigType(p, t) = "static"
  BY <1>2 DEF Discovered
<1>3. CASE t \in DOMAIN p.targets /\ ConfigType(p, t) # "static"
  BY <1>3, SetPortalFields DEF Discovered, ContainsTarget
<1> QED
  BY <1>1, <1>2, <1>3

LEMMA AddDiscoveredFields ==
  ASSUME NEW p, IsPreferences(p), NEW d \in DOMAIN p.discovery, NEW rec
  PROVE  LET q == AddDiscovered(p, d, rec)
         IN  /\ q.targets = DiscoveredTargets(p, d, rec)
             /\ q.discovery = [p.discovery EXCEPT ![d] = @ \cup (DOMAIN rec \ DOMAIN p.targets)]
<1> DEFINE f == DiscoveredTargets(p, d, rec)
           new == DOMAIN rec \ DOMAIN p.targets
<1>1. p = [targets |-> p.targets, discovery |-> p.discovery, sendTargets |-> p.sendTargets]
  BY DEF IsPreferences
<1>2. AddDiscovered(p, d, rec) =
        [[p EXCEPT !.targets = f] EXCEPT !.discovery = [p.discovery EXCEPT ![d] = @ \cup new]]
  BY <1>1 DEF AddDiscovered
<1> HIDE DEF f, new
<1>3. [p EXCEPT !.targets = f] = [targets |-> f, discovery |-> p.discovery, sendTargets |-> p.sendTargets]
  BY <1>1
<1> QED
  BY <1>2, <1>3 DEF f, new

\* A record is worked in: what the portal's list has and the record has not
\* goes, what is reported and was not there comes.
LEMMA UpdateFields ==
  ASSUME NEW p, IsPreferences(p), NEW d \in DOMAIN p.discovery, NEW rec
  PROVE  LET q == UpdateWithDiscovered(p, d, rec)
             gone == Vanished(p, d, rec)
         IN  /\ DOMAIN q.targets = (DOMAIN p.targets \cup DOMAIN rec) \ gone
             /\ \A t \in DOMAIN q.targets :
                  q.targets[t] = IF t \in DOMAIN rec THEN Discovered(p, t, rec[t], d)
                                                     ELSE p.targets[t]
             /\ DOMAIN q.discovery = DOMAIN p.discovery
             /\ q.discovery[d] = p.discovery[d] \cup (DOMAIN rec \ DOMAIN p.targets)
             /\ \A e \in DOMAIN q.discovery : e # d => q.discovery[e] = p.discovery[e]
<1> DEFINE r == AddDiscovered(p, d, rec)
           gone == Vanished(p, d, rec)
           f == Restrict(r.targets, DOMAIN r.targets \ gone)
<1>6. /\ r.targets = DiscoveredTargets(p, d, rec)
      /\ r.discovery = [p.discovery EXCEPT ![d] = @ \cup (DOMAIN rec \ DOMAIN p.targets)]
      /\ DOMAIN r = {"targets", "discovery", "sendTargets"}
  <2>1. p = [targets |-> p.targets, discovery |-> p.discovery, sendTargets |-> p.sendTargets]
    BY DEF IsPreferences
  <2> QED
    BY <2>1, AddDiscoveredFields DEF AddDiscovered
<1> HIDE DEF r
<1>1. /\ DOMAIN r.targets = DOMAIN p.targets \cup DOMAIN rec
      /\ \A t \in DOMAIN r.targets :
           r.targets[t] = IF t \in DOMAIN rec THEN Discovered(p, t, rec[t], d) ELSE p.targets[t]
  BY <1>6 DEF DiscoveredTargets
<1>2. /\ DOMAIN r.discovery = DOMAIN p.discovery
      /\ r.discovery[d] = p.discovery[d] \cup (DOMAIN rec \ DOMAIN p.targets)
      /\ \A e \in DOMAIN r.discovery : e # d => r.discovery[e] = p.discovery[e]
  BY <1>6
<1>3. Vanished(r, d, rec) = gone
  BY <1>2 DEF Vanished
<1>4. /\ DOMAIN f = DOMAIN r.targets \ gone
      /\ \A t \in DOMAIN f : f[t] = r.targets[t]
  BY DEF Restrict
<1>5. /\ UpdateWithDiscovered(p, d, rec).targets = f
      /\ UpdateWithDiscovered(p, d, rec).discovery = r.discovery
  <2>1. UpdateWithDiscovered(p, d, rec) = [r EXCEPT !.targets = f]
    BY <1>3 DEF UpdateWithDiscovered, r
  <2> HIDE DEF f
  <2> QED
    BY <1>6, <2>1
<1> HIDE DEF f, r, gone
<1> QED
  BY <1>1, <1>2, <1>4, <1>5 DEF gone

LEMMA AddStaticFields ==
  ASSUME NEW p, IsPreferences(p), NEW t, t \notin DOMAIN p.targets, NEW a
  PROVE  LET q == AddStaticTarget(p, t, a)
         IN  /\ DOMAIN q.targets = DOMAIN p.targets \cup {t}
             /\ \A x \in DOMAIN p.targets : q.targets[x] = p.targets[x]
             /\ q.targets[t].portals = {a}
             /\ q.targets[t].type = "static"
             /\ q.discovery = p.discovery
<1> DEFINE dict == [NewTarget EXCEPT !.portals = {a}]
<1>1. dict.portals = {a} /\ dict.type = "static"
  BY DEF NewTarget
<1>2. AddStaticTarget(p, t, a) = SetTarget(p, t, dict)
  BY DEF AddStaticTarget, ContainsTarget
<1> HIDE DEF dict
<1> QED
  BY <1>1, <1>2, SetTargetFields

OnePortal(p, t) == Cardinality(PortalsOf(p, t)) = 1

\* The last portal goes with its target.
LEMMA RemovePortalFields ==
  ASSUME NEW p, IsPreferences(p), NEW t, NEW a \in PortalsOf(p, t)
  PROVE  LET q == RemovePortalForTarget(p, t, a)
         IN  /\ \/ DOMAIN q.targets = DOMAIN p.targets
                \/ OnePortal(p, t) /\ DOMAIN q.targets = DOMAIN p.targets \ {t}
             /\ \A x \in DOMAIN q.targets :
                  /\ q.targets[x].type = p.targets[x].type
                  /\ x # t => q.targets[x].portals = p.targets[x].portals
                  /\ x = t => q.targets[x].portals = p.targets[x].portals \ {a}
             /\ t \in DOMAIN q.targets => q.targets[t].portals # {}
             /\ q.discovery = p.discovery
<1>1. CASE OnePortal(p, t)
  BY <1>1, RemoveTargetFields DEF RemovePortalForTarget, OnePortal
<1>2. CASE ~OnePortal(p, t)
  <2>1. t \in DOMAIN p.targets /\ PortalsOf(p, t) = p.targets[t].portals
    BY DEF PortalsOf, ContainsTarget
  <2>2. RemovePortalForTarget(p, t, a) =
          [p EXCEPT !.targets[t].portals = p.targets[t].portals \ {a}]
    BY <1>2, <2>1 DEF RemovePortalForTarget, OnePortal, IsPreferences, IsDictionary
  <2>3. p.targets[t].portals \ {a} # {}
    <3>1. SUFFICES ASSUME p.targets[t].portals \ {a} = {} PROVE FALSE
      OBVIOUS
    <3>2. PortalsOf(p, t) = {a}
      BY <2>1, <3>1
    <3> QED
      BY <1>2, <3>2, FS_Singleton DEF OnePortal
  <2> QED
    BY <1>2, <2>1, <2>2, <2>3, ChangePortalsFields
<1> QED
  BY <1>1, <1>2

LEMMA SetTargetIQNFields ==
  ASSUME NEW p, IsPreferences(p), NEW t, ConfigType(p, t) = "static", NEW iqn \in Targets
  PROVE  LET q == SetTargetIQN(p, t, iqn)
         IN  /\ DOMAIN q.targets = (DOMAIN p.targets \cup {iqn}) \ {t}
             /\ \A x \in DOMAIN q.targets :
                  q.targets[x] = p.targets[IF x = iqn THEN t ELSE x]
             /\ q.discovery = p.discovery
<1> DEFINE r == SetTarget(p, iqn, p.targets[t])
<1>1. SetTargetIQN(p, t, iqn) = RemoveTarget(r, t)
  BY DEF SetTargetIQN
<1>2. t \in DOMAIN p.targets /\ p.targets[t] \in TargetDicts
  BY Dictionary DEF ConfigType, ContainsTarget
<1>3. IsPreferences(r)
  <2> DEFINE f == With(p.targets, iqn, p.targets[t])
  <2>1. IsDictionary(f, Targets, TargetDicts)
    BY <1>2, SetValue DEF IsPreferences
  <2>2. r = [p EXCEPT !.targets = f]
    BY DEF SetTarget
  <2> HIDE DEF f, r
  <2>3. r = [targets |-> f, discovery |-> p.discovery, sendTargets |-> p.sendTargets]
    BY <2>2 DEF IsPreferences
  <2> QED
    BY <2>1, <2>3 DEF IsPreferences
<1>4. /\ DOMAIN r.targets = DOMAIN p.targets \cup {iqn}
      /\ \A x \in DOMAIN r.targets : r.targets[x] = IF x = iqn THEN p.targets[t] ELSE p.targets[x]
      /\ r.discovery = p.discovery
  BY SetTargetFields
<1> HIDE DEF r
<1> QED
  BY <1>1, <1>3, <1>4, RemoveTargetFields

\* A missing target is created as a static one without portals.
LEMMA CreateIfMissingFields ==
  ASSUME NEW p, IsPreferences(p), NEW t
  PROVE  LET q == CreateIfMissing(p, t)
         IN  /\ DOMAIN q.targets = DOMAIN p.targets \cup {t}
             /\ \A x \in DOMAIN p.targets : q.targets[x] = p.targets[x]
             /\ t \notin DOMAIN p.targets => q.targets[t].type = "static" /\ q.targets[t].portals = {}
             /\ q.discovery = p.discovery
<1>1. NewTarget.type = "static" /\ NewTarget.portals = {}
  BY DEF NewTarget
<1> QED
  BY <1>1, SetTargetFields DEF CreateIfMissing, ContainsTarget

-----------------------------------------------------------------------------
(* The steps.                                                              *)

\* While records are processed, the daemon's copy is as good as what is stored.
IInv ==
    /\ TypeOK
    /\ AllListed(store)
    /\ work # None => AllListed(work.prefs)

LEMMA InitIInv == Init => IInv
<1> SUFFICES ASSUME Init PROVE IInv
  OBVIOUS
<1>1. IsPreferences(NoPreferences) /\ AllListed(NoPreferences)
  BY DEF IsPreferences, NoPreferences, IsDictionary, AllListed
<1> QED
  BY <1>1 DEF Init, IInv, TypeOK, NoSessions

\* A command that leaves something good in the store.
LEMMA CommandKeeps ==
  ASSUME IInv, work = None, UNCHANGED work, UNCHANGED records,
         Good(store'), secrets' \subseteq Targets, sessions' \in [Targets -> Portals \cup {None}]
  PROVE  IInv'
BY DEF IInv, TypeOK, Good

LEMMA StoreGood == ASSUME IInv PROVE Good(store)
BY DEF IInv, TypeOK, Good

LEMMA AddTargetStep ==
  ASSUME IInv, work = None, UNCHANGED work, NEW t \in Targets, NEW a \in Portals, AddTarget(t, a)
  PROVE  IInv'
<1>1. Good(store')
  BY StoreGood, SetPortalGood, AddStaticTargetGood DEF AddTarget
<1> QED
  BY <1>1, CommandKeeps DEF AddTarget, IInv, TypeOK

LEMMA RemovePortalStep ==
  ASSUME IInv, work = None, UNCHANGED work, NEW t \in Targets, NEW a \in Portals,
         RemovePortalCommand(t, a)
  PROVE  IInv'
<1>1. Good(store')
  BY StoreGood, RemovePortalGood DEF RemovePortalCommand
<1> QED
  BY <1>1, CommandKeeps DEF RemovePortalCommand, IInv, TypeOK

LEMMA RemoveTargetStep ==
  ASSUME IInv, work = None, UNCHANGED work, NEW t \in Targets, RemoveTargetCommand(t)
  PROVE  IInv'
<1>1. Good(store')
  BY StoreGood, RemoveTargetGood DEF RemoveTargetCommand
<1> QED
  BY <1>1, CommandKeeps DEF RemoveTargetCommand, IInv, TypeOK

LEMMA SecretStep ==
  ASSUME IInv, work = None, UNCHANGED work, NEW t \in Targets,
         SetSharedSecret(t) \/ RemoveSharedSecret(t)
  PROVE  IInv'
<1>1. Good(store')
  BY StoreGood DEF SetSharedSecret, RemoveSharedSecret
<1> QED
  BY <1>1, CommandKeeps DEF SetSharedSecret, RemoveSharedSecret, IInv, TypeOK

LEMMA RenameStep ==
  ASSUME IInv, work = None, UNCHANGED work, NEW t \in Targets, NEW iqn \in Targets,
         RenameTarget(t, iqn)
  PROVE  IInv'
<1>1. Good(store')
  BY StoreGood, SetTargetIQNGood, CreateIfMissingGood DEF RenameTarget, ModifyTargetFromOptions
<1>2. secrets' \subseteq Targets
  BY DEF RenameTarget, RenameSecret, IInv, TypeOK
<1> QED
  BY <1>1, <1>2, CommandKeeps DEF RenameTarget, IInv, TypeOK

LEMMA SessionEndsStep ==
  ASSUME IInv, work = None, UNCHANGED work, NEW t \in Targets, SessionEnds(t)
  PROVE  IInv'
<1>1. Good(store')
  BY StoreGood DEF SessionEnds
<1>2. sessions' \in [Targets -> Portals \cup {None}]
  BY DEF SessionEnds, IInv, TypeOK
<1> QED
  BY <1>1, <1>2, CommandKeeps DEF SessionEnds, IInv, TypeOK

LEMMA DiscoveryCommandStep ==
  ASSUME IInv, work = None, UNCHANGED work, DiscoveryCommand
  PROVE  IInv'
<1>1. ASSUME NEW d \in DiscoveryPortals, AddDiscoveryPortalCommand(d)
      PROVE  IInv'
  <2>1. Good(store')
    BY <1>1, StoreGood, AddDiscoveryPortalGood DEF AddDiscoveryPortalCommand
  <2> QED
    BY <1>1, <2>1, CommandKeeps DEF AddDiscoveryPortalCommand, IInv, TypeOK
<1>2. ASSUME NEW d \in DiscoveryPortals, RemoveDiscoveryPortalCommand(d)
      PROVE  IInv'
  <2>1. Good(store')
    BY <1>2, StoreGood, RemoveDiscoveryPortalGood DEF RemoveDiscoveryPortalCommand
  <2> QED
    BY <1>2, <2>1, CommandKeeps DEF RemoveDiscoveryPortalCommand, IInv, TypeOK
<1>3. ASSUME NEW enable \in BOOLEAN, ModifyDiscovery(enable)
      PROVE  IInv'
  <2>1. store' = [targets |-> store.targets, discovery |-> store.discovery, sendTargets |-> enable]
    BY <1>3, StoreGood DEF ModifyDiscovery, Good, IsPreferences
  <2>2. Good(store')
    <3>1. /\ store'.targets = store.targets /\ store'.discovery = store.discovery
          /\ store'.sendTargets \in BOOLEAN
      BY <2>1
    <3> QED
      BY <2>1, <3>1, StoreGood DEF Good, IsPreferences, AllListed, ConfigType, ContainsTarget
  <2> QED
    BY <1>3, <2>2, CommandKeeps DEF ModifyDiscovery, IInv, TypeOK
<1> QED
  BY <1>1, <1>2, <1>3 DEF DiscoveryCommand

LEMMA LoginStep ==
  ASSUME IInv, work = None, UNCHANGED work, NEW t \in Targets, Login(t)
  PROVE  IInv'
<1>1. sessions' \in [Targets -> Portals \cup {None}]
  BY StoreGood, PortalsOfTarget DEF Login, IInv, TypeOK, Good
<1> QED
  BY <1>1 DEF Login, IInv, TypeOK

LEMMA ProcessRecordStep ==
  ASSUME IInv, NEW d \in DiscoveryPortals, ProcessRecord(d)
  PROVE  IInv'
<1> DEFINE prefs == UpdateWithDiscovered(work.prefs, d, records[d])
           todo == work.todo \ {d}
<1>1. d \in DOMAIN records /\ records[d] \in Records
  BY DEF ProcessRecord, IInv, TypeOK, IsDictionary
<1>2. Good(work.prefs) /\ d \in DOMAIN work.prefs.discovery
  BY DEF ProcessRecord, IInv, TypeOK, Good, CanUpdate, ContainsDiscoveryPortal
<1>3. Good(prefs)
  BY <1>1, <1>2, UpdateGood
<1>4. work' = [prefs |-> prefs, todo |-> todo]
  BY DEF ProcessRecord
<1>5. todo \subseteq DOMAIN records /\ records # None /\ UNCHANGED <<store, records>>
  BY DEF ProcessRecord, IInv, TypeOK
<1>6. secrets' \subseteq Targets /\ sessions' \in [Targets -> Portals \cup {None}]
  <2>1. secrets' \subseteq secrets
    BY DEF ProcessRecord
  <2>2. PICK gone : sessions' = [t \in Targets |-> IF t \in gone THEN None ELSE sessions[t]]
    BY DEF ProcessRecord
  <2> QED
    BY <2>1, <2>2 DEF IInv, TypeOK
<1> HIDE DEF prefs, todo
<1>7. work'.prefs = prefs /\ work'.todo = todo
  BY <1>4
<1> QED
  BY <1>3, <1>4, <1>5, <1>6, <1>7 DEF IInv, TypeOK, Good

LEMMA DiscoverySteps ==
  ASSUME IInv, RunDiscovery \/ StartProcessing \/ StoreDiscovered \/ DaemonRestarts
  PROVE  IInv'
<1>1. CASE RunDiscovery
  <2>1. PICK found \in Dictionaries(DOMAIN store.discovery, Records) : records' = found
    BY <1>1 DEF RunDiscovery
  <2>2. IsDictionary(found, DiscoveryPortals, Records)
    BY StoreGood, Dictionary DEF Dictionaries, IsDictionary, Good
  <2>3. work = None /\ UNCHANGED <<store, secrets, sessions, work>>
    BY <1>1 DEF RunDiscovery, IInv, TypeOK
  <2> QED
    BY <2>1, <2>2, <2>3 DEF IInv, TypeOK
<1>2. CASE StartProcessing
  <2>1. work'.prefs = store /\ work'.todo = DOMAIN records
    BY <1>2 DEF StartProcessing
  <2> QED
    BY <1>2, <2>1 DEF StartProcessing, IInv, TypeOK
<1>3. CASE StoreDiscovered
  BY <1>3 DEF StoreDiscovered, IInv, TypeOK
<1>4. CASE DaemonRestarts
  BY <1>4 DEF DaemonRestarts, IInv, TypeOK
<1> QED
  BY <1>1, <1>2, <1>3, <1>4

LEMMA NextIInv == IInv /\ [Next]_vars => IInv'
<1> SUFFICES ASSUME IInv, [Next]_vars PROVE IInv'
  OBVIOUS
<1>1. CASE Command
  <2>1. work = None /\ UNCHANGED work
    BY <1>1 DEF Command
  <2>2. CASE TargetCommand
    BY <2>1, <2>2, AddTargetStep, RemovePortalStep, RemoveTargetStep, SecretStep, RenameStep,
       SessionEndsStep DEF TargetCommand
  <2>3. CASE DiscoveryCommand
    BY <2>1, <2>3, DiscoveryCommandStep
  <2>4. CASE \E t \in Targets : Login(t)
    BY <2>1, <2>4, LoginStep
  <2> QED
    BY <1>1, <2>2, <2>3, <2>4 DEF Command
<1>2. CASE DiscoveryStep
  BY <1>2, DiscoverySteps, ProcessRecordStep DEF DiscoveryStep
<1>3. CASE UNCHANGED vars
  BY <1>3 DEF vars, IInv, TypeOK
<1> QED
  BY <1>1, <1>2, <1>3 DEF Next

LEMMA Invariant == Spec => []IInv
BY InitIInv, NextIInv, PTL DEF Spec

\* Preferences, sessions, records and what the run loop is working on keep
\* their types (iSCSIPreferences.c, iSCSIDiscovery.c).
THEOREM TypeCorrect == Spec => []TypeOK
<1>1. IInv => TypeOK
  BY DEF IInv
<1> QED
  BY <1>1, Invariant, PTL

\* Whatever users, targets and discovery portals do, a dynamic target is in the
\* list of the portal that manages it, so that it is removed with it
\* (iSCSIPreferencesRemoveSendTargetsDiscoveryPortal) or when it vanishes
\* (iSCSIDiscoveryUpdatePreferencesWithDiscoveredTargets).
THEOREM DynamicTargetsListed == Spec => []DynamicTargetsAreListed
<1>1. IInv => DynamicTargetsAreListed
  BY DEF IInv, DynamicTargetsAreListed
<1> QED
  BY <1>1, Invariant, PTL
-----------------------------------------------------------------------------
(* Every target has a portal, unless a target is renamed and changed by    *)
(* one command: the change then creates the old target again, without any. *)

HavePortals(p) == \A t \in DOMAIN p.targets : p.targets[t].portals # {}

PortalsInv == HavePortals(store) /\ (work # None => HavePortals(work.prefs))

LEMMA UpdateHasPortals ==
  ASSUME NEW p, IsPreferences(p), HavePortals(p), NEW d \in DOMAIN p.discovery, NEW rec
  PROVE  HavePortals(UpdateWithDiscovered(p, d, rec))
<1> DEFINE q == UpdateWithDiscovered(p, d, rec)
<1>1. SUFFICES ASSUME NEW t \in DOMAIN q.targets PROVE q.targets[t].portals # {}
  BY DEF HavePortals
<1>2. /\ t \in DOMAIN p.targets \cup DOMAIN rec
      /\ q.targets[t] = IF t \in DOMAIN rec THEN Discovered(p, t, rec[t], d) ELSE p.targets[t]
  BY <1>1, UpdateFields
<1> HIDE DEF q
<1>3. CASE t \in DOMAIN rec
  BY <1>2, <1>3, DiscoveredFields DEF HavePortals
<1>4. CASE t \notin DOMAIN rec
  BY <1>2, <1>4 DEF HavePortals
<1> QED
  BY <1>3, <1>4

LEMMA TargetCommandHasPortals ==
  ASSUME "renameAndSet" \notin Faults, IInv, HavePortals(store), TargetCommand
  PROVE  HavePortals(store')
<1>1. IsPreferences(store)
  BY DEF IInv, TypeOK
<1>2. ASSUME NEW t \in Targets, NEW a \in Portals, AddTarget(t, a)
      PROVE  HavePortals(store')
  <2>1. CASE ContainsTarget(store, t)
    <3>1. store' = SetPortalForTarget(store, t, a)
      BY <1>2, <2>1 DEF AddTarget
    <3>2. ASSUME NEW x \in DOMAIN store'.targets
          PROVE  /\ x \in DOMAIN store.targets
                 /\ store.targets[x].portals \subseteq store'.targets[x].portals
      BY <1>1, <3>1, SetPortalFields
    <3> QED
      <4>1. SUFFICES ASSUME NEW x \in DOMAIN store'.targets PROVE store'.targets[x].portals # {}
        BY DEF HavePortals
      <4>2. store.targets[x].portals # {}
        BY <3>2 DEF HavePortals
      <4> QED
        BY <3>2, <4>2
  <2>2. CASE ~ContainsTarget(store, t)
    <3>1. store' = AddStaticTarget(store, t, a) /\ t \notin DOMAIN store.targets
      BY <1>2, <2>2 DEF AddTarget, ContainsTarget
    <3>2. /\ DOMAIN store'.targets = DOMAIN store.targets \cup {t}
          /\ \A x \in DOMAIN store.targets : store'.targets[x] = store.targets[x]
          /\ store'.targets[t].portals = {a}
      BY <1>1, <3>1, AddStaticFields
    <3> QED
      BY <3>2 DEF HavePortals
  <2> QED
    BY <2>1, <2>2
<1>3. ASSUME NEW t \in Targets, NEW a \in Portals, RemovePortalCommand(t, a)
      PROVE  HavePortals(store')
  <2>1. a \in PortalsOf(store, t) /\ store' = RemovePortalForTarget(store, t, a)
    BY <1>3 DEF RemovePortalCommand
  <2>2. ASSUME NEW x \in DOMAIN store'.targets
        PROVE  IF x = t THEN store'.targets[x].portals # {}
               ELSE x \in DOMAIN store.targets /\ store'.targets[x].portals = store.targets[x].portals
    <3>1. /\ DOMAIN store'.targets \subseteq DOMAIN store.targets
          /\ x # t => store'.targets[x].portals = store.targets[x].portals
          /\ t \in DOMAIN store'.targets => store'.targets[t].portals # {}
      BY <1>1, <2>1, <2>2, RemovePortalFields
    <3> QED
      BY <2>2, <3>1
  <2> QED
    BY <2>2 DEF HavePortals
<1>4. ASSUME NEW t \in Targets, RemoveTargetCommand(t)
      PROVE  HavePortals(store')
  BY <1>1, <1>4, RemoveTargetFields DEF RemoveTargetCommand, HavePortals
<1>5. ASSUME NEW t \in Targets, NEW iqn \in Targets, RenameTarget(t, iqn)
      PROVE  HavePortals(store')
  <2>1. store' = SetTargetIQN(store, t, iqn) \/ store' = store
    BY <1>5 DEF RenameTarget, ModifyTargetFromOptions
  <2>2. t \in DOMAIN store.targets /\ ConfigType(store, t) = "static"
    BY <1>5 DEF RenameTarget, ConfigType, ContainsTarget
  <2> QED
    BY <1>1, <2>1, <2>2, SetTargetIQNFields DEF HavePortals
<1> QED
  BY <1>2, <1>3, <1>4, <1>5 DEF TargetCommand, SetSharedSecret, RemoveSharedSecret, SessionEnds

LEMMA DiscoveryCommandHasPortals ==
  ASSUME IInv, HavePortals(store), DiscoveryCommand
  PROVE  HavePortals(store')
<1>1. IsPreferences(store)
  BY DEF IInv, TypeOK
<1>2. ASSUME NEW d \in DiscoveryPortals, AddDiscoveryPortalCommand(d)
      PROVE  HavePortals(store')
  BY <1>1, <1>2, AddDiscoveryPortalFields DEF AddDiscoveryPortalCommand, HavePortals
<1>3. ASSUME NEW d \in DiscoveryPortals, RemoveDiscoveryPortalCommand(d)
      PROVE  HavePortals(store')
  BY <1>1, <1>3, RemoveDiscoveryPortalFields
     DEF RemoveDiscoveryPortalCommand, ContainsDiscoveryPortal, HavePortals
<1>4. ASSUME NEW enable \in BOOLEAN, ModifyDiscovery(enable)
      PROVE  HavePortals(store')
  <2>1. store'.targets = store.targets
    BY <1>1, <1>4 DEF ModifyDiscovery, IsPreferences
  <2> QED
    BY <2>1 DEF HavePortals
<1> QED
  BY <1>2, <1>3, <1>4 DEF DiscoveryCommand

\* What a step of the discovery leaves in the run loop's copy.
LEMMA ProcessFields ==
  ASSUME IInv, NEW d \in DiscoveryPortals, ProcessRecord(d)
  PROVE  /\ work # None
         /\ IsPreferences(work.prefs)
         /\ d \in DOMAIN work.prefs.discovery
         /\ d \in DOMAIN records /\ records[d] \in Records
         /\ work'.prefs = UpdateWithDiscovered(work.prefs, d, records[d])
         /\ UNCHANGED <<store, records>>
<1>1. /\ work # None
      /\ d \in work.todo
      /\ d \in DOMAIN work.prefs.discovery
      /\ work' = [prefs |-> UpdateWithDiscovered(work.prefs, d, records[d]), todo |-> work.todo \ {d}]
      /\ UNCHANGED <<store, records>>
  BY DEF ProcessRecord, CanUpdate, ContainsDiscoveryPortal
<1>2. /\ records # None /\ IsDictionary(records, DiscoveryPortals, Records)
      /\ IsPreferences(work.prefs) /\ work.todo \subseteq DOMAIN records
  BY <1>1 DEF IInv, TypeOK
<1>3. d \in DOMAIN records /\ records[d] \in Records
  BY <1>1, <1>2 DEF IsDictionary
<1>4. work'.prefs = UpdateWithDiscovered(work.prefs, d, records[d])
  BY <1>1
<1> QED
  BY <1>1, <1>2, <1>3, <1>4

LEMMA NextPortalsInv ==
  ASSUME "renameAndSet" \notin Faults, IInv, PortalsInv, [Next]_vars
  PROVE  PortalsInv'
<1>1. CASE Command
  <2>1. work' = None
    BY <1>1 DEF Command
  <2>2. HavePortals(store')
    BY <1>1, TargetCommandHasPortals, DiscoveryCommandHasPortals DEF Command, Login, PortalsInv
  <2> QED
    BY <2>1, <2>2 DEF PortalsInv
<1>2. CASE \E d \in DiscoveryPortals : ProcessRecord(d)
  BY <1>2, ProcessFields, UpdateHasPortals DEF PortalsInv
<1>3. CASE RunDiscovery
  BY <1>3 DEF RunDiscovery, PortalsInv
<1>4. CASE StartProcessing
  BY <1>4 DEF StartProcessing, PortalsInv
<1>5. CASE StoreDiscovered \/ DaemonRestarts
  BY <1>5 DEF StoreDiscovered, DaemonRestarts, PortalsInv
<1>6. CASE UNCHANGED vars
  BY <1>6 DEF vars, PortalsInv
<1> QED
  BY <1>1, <1>2, <1>3, <1>4, <1>5, <1>6 DEF Next, DiscoveryStep

\* Unless a target is renamed and changed by one command, every target that is
\* stored has a portal to log in to: removing portals, discovery and restarts
\* leave none without (iSCSIPreferencesRemovePortalForTarget).
THEOREM EveryTargetHasPortals ==
  ASSUME "renameAndSet" \notin Faults
  PROVE  Spec => []TargetsHavePortals
<1>1. Init => PortalsInv
  BY DEF Init, PortalsInv, HavePortals, NoPreferences
<1>2. IInv /\ PortalsInv /\ [Next]_vars => PortalsInv'
  BY NextPortalsInv
<1>3. PortalsInv => TargetsHavePortals
  BY DEF PortalsInv, HavePortals, TargetsHavePortals, PortalsOf, ContainsTarget
<1> QED
  BY <1>1, <1>2, <1>3, Invariant, PTL DEF Spec

-----------------------------------------------------------------------------
(* A target with a session is stored, with the portal in use.  That the    *)
(* last portal of a target is the only one depends on the lists of portals *)
(* being finite.                                                           *)

FinitePortals(p) == \A t \in DOMAIN p.targets : IsFiniteSet(p.targets[t].portals)

Configured(p) ==
    \A t \in Targets : sessions[t] # None => /\ t \in DOMAIN p.targets
                                             /\ sessions[t] \in p.targets[t].portals

SessionsInv ==
    /\ FinitePortals(store) /\ Configured(store)
    /\ work # None => FinitePortals(work.prefs) /\ Configured(work.prefs)

LEMMA UpdateFinite ==
  ASSUME NEW p, IsPreferences(p), FinitePortals(p), NEW d \in DOMAIN p.discovery, NEW rec
  PROVE  FinitePortals(UpdateWithDiscovered(p, d, rec))
<1> DEFINE q == UpdateWithDiscovered(p, d, rec)
<1>1. SUFFICES ASSUME NEW t \in DOMAIN q.targets PROVE IsFiniteSet(q.targets[t].portals)
  BY DEF FinitePortals
<1>2. /\ t \in DOMAIN p.targets \cup DOMAIN rec
      /\ q.targets[t] = IF t \in DOMAIN rec THEN Discovered(p, t, rec[t], d) ELSE p.targets[t]
  BY <1>1, UpdateFields
<1> HIDE DEF q
<1>3. CASE t \in DOMAIN rec
  <2>1. \/ q.targets[t].portals = {rec[t]}
        \/ /\ IsFiniteSet(p.targets[t].portals)
           /\ \/ q.targets[t].portals = p.targets[t].portals
              \/ q.targets[t].portals = p.targets[t].portals \cup {rec[t]}
    BY <1>2, <1>3, DiscoveredFields DEF FinitePortals
  <2>2. IsFiniteSet({rec[t]})
    BY FS_Singleton
  <2>3. IsFiniteSet(p.targets[t].portals) => IsFiniteSet(p.targets[t].portals \cup {rec[t]})
    BY FS_AddElement
  <2> QED
    BY <2>1, <2>2, <2>3
<1>4. CASE t \notin DOMAIN rec
  BY <1>2, <1>4 DEF FinitePortals
<1> QED
  BY <1>3, <1>4

\* What did not vanish is still there, and no portal of it went.
LEMMA UpdateKeeps ==
  ASSUME NEW p, IsPreferences(p), NEW d \in DOMAIN p.discovery, NEW rec,
         NEW t \in DOMAIN p.targets, t \notin Vanished(p, d, rec)
  PROVE  LET q == UpdateWithDiscovered(p, d, rec)
         IN  /\ t \in DOMAIN q.targets
             /\ p.targets[t].portals \subseteq q.targets[t].portals
             /\ q.targets[t].type = p.targets[t].type
             /\ p.targets[t].type = "static" => q.targets[t] = p.targets[t]
<1> DEFINE q == UpdateWithDiscovered(p, d, rec)
<1>1. /\ t \in DOMAIN q.targets
      /\ q.targets[t] = IF t \in DOMAIN rec THEN Discovered(p, t, rec[t], d) ELSE p.targets[t]
  BY UpdateFields
<1> HIDE DEF q
<1>2. /\ \/ q.targets[t].portals = p.targets[t].portals
         \/ q.targets[t].portals = p.targets[t].portals \cup {rec[t]}
      /\ q.targets[t].type = p.targets[t].type
      /\ p.targets[t].type = "static" => q.targets[t] = p.targets[t]
  BY <1>1, DiscoveredFields DEF ConfigType, ContainsTarget
<1> QED
  BY <1>1, <1>2 DEF q

\* What the portals of a target become when one is removed.
LEMMA LastPortal ==
  ASSUME NEW p, IsPreferences(p), FinitePortals(p), NEW t, NEW a \in PortalsOf(p, t)
  PROVE  LET q == RemovePortalForTarget(p, t, a)
         IN  /\ FinitePortals(q)
             /\ \A x \in DOMAIN p.targets :
                  \A b \in p.targets[x].portals :
                     x # t \/ b # a => x \in DOMAIN q.targets /\ b \in q.targets[x].portals
<1> DEFINE q == RemovePortalForTarget(p, t, a)
<1>1. /\ \/ DOMAIN q.targets = DOMAIN p.targets
         \/ OnePortal(p, t) /\ DOMAIN q.targets = DOMAIN p.targets \ {t}
      /\ \A x \in DOMAIN q.targets :
           /\ x # t => q.targets[x].portals = p.targets[x].portals
           /\ x = t => q.targets[x].portals = p.targets[x].portals \ {a}
  BY RemovePortalFields
<1> HIDE DEF q
<1>2. t \in DOMAIN p.targets /\ PortalsOf(p, t) = p.targets[t].portals
  BY DEF PortalsOf, ContainsTarget
<1>3. FinitePortals(q)
  <2>1. SUFFICES ASSUME NEW x \in DOMAIN q.targets PROVE IsFiniteSet(q.targets[x].portals)
    BY DEF FinitePortals
  <2>2. IsFiniteSet(p.targets[x].portals)
    BY <1>1 DEF FinitePortals
  <2>3. IsFiniteSet(p.targets[x].portals \ {a})
    BY <2>2, FS_RemoveElement
  <2> QED
    BY <1>1, <2>2, <2>3
<1>4. ASSUME NEW x \in DOMAIN p.targets, NEW b \in p.targets[x].portals, x # t \/ b # a
      PROVE  x \in DOMAIN q.targets /\ b \in q.targets[x].portals
  <2>1. x \in DOMAIN q.targets
    <3>1. CASE DOMAIN q.targets = DOMAIN p.targets
      BY <3>1
    <3>2. CASE OnePortal(p, t) /\ DOMAIN q.targets = DOMAIN p.targets \ {t}
      <4>1. PICK c : p.targets[t].portals = {c}
        BY <1>2, <3>2, FS_Singleton DEF FinitePortals, OnePortal
      <4> QED
        BY <1>2, <1>4, <3>2, <4>1
    <3> QED
      BY <1>1, <3>1, <3>2
  <2> QED
    BY <1>1, <1>4, <2>1
<1> QED
  BY <1>3, <1>4 DEF q

LEMMA TargetCommandConfigured ==
  ASSUME "renameOnto" \notin Faults, IInv, FinitePortals(store), Configured(store), TargetCommand
  PROVE  FinitePortals(store') /\ Configured(store)'
<1>1. IsPreferences(store) /\ sessions \in [Targets -> Portals \cup {None}]
  BY DEF IInv, TypeOK
<1>2. ASSUME NEW t \in Targets, NEW a \in Portals, AddTarget(t, a)
      PROVE  FinitePortals(store') /\ Configured(store)'
  <2>1. CASE ContainsTarget(store, t)
    <3>1. store' = SetPortalForTarget(store, t, a) /\ UNCHANGED sessions
      BY <1>2, <2>1 DEF AddTarget
    <3>2. /\ DOMAIN store'.targets = DOMAIN store.targets
          /\ \A x \in DOMAIN store'.targets :
               \/ store'.targets[x].portals = store.targets[x].portals
               \/ store'.targets[x].portals = store.targets[x].portals \cup {a}
      BY <1>1, <3>1, SetPortalFields
    <3>3. FinitePortals(store')
      <4>1. SUFFICES ASSUME NEW x \in DOMAIN store'.targets PROVE IsFiniteSet(store'.targets[x].portals)
        BY DEF FinitePortals
      <4>2. IsFiniteSet(store.targets[x].portals)
        BY <3>2 DEF FinitePortals
      <4>3. IsFiniteSet(store.targets[x].portals \cup {a})
        BY <4>2, FS_AddElement
      <4> QED
        BY <3>2, <4>2, <4>3
    <3> QED
      BY <3>1, <3>2, <3>3 DEF Configured
  <2>2. CASE ~ContainsTarget(store, t)
    <3>1. store' = AddStaticTarget(store, t, a) /\ t \notin DOMAIN store.targets /\ UNCHANGED sessions
      BY <1>2, <2>2 DEF AddTarget, ContainsTarget
    <3>2. /\ DOMAIN store'.targets = DOMAIN store.targets \cup {t}
          /\ \A x \in DOMAIN store.targets : store'.targets[x] = store.targets[x]
          /\ store'.targets[t].portals = {a}
      BY <1>1, <3>1, AddStaticFields
    <3>3. IsFiniteSet({a})
      BY FS_Singleton
    <3>4. FinitePortals(store')
      BY <3>2, <3>3 DEF FinitePortals
    <3> QED
      BY <3>1, <3>2, <3>4 DEF Configured
  <2> QED
    BY <2>1, <2>2
<1>3. ASSUME NEW t \in Targets, NEW a \in Portals, RemovePortalCommand(t, a)
      PROVE  FinitePortals(store') /\ Configured(store)'
  <2>1. /\ a \in PortalsOf(store, t) /\ sessions[t] # a
        /\ store' = RemovePortalForTarget(store, t, a) /\ UNCHANGED sessions
    BY <1>3 DEF RemovePortalCommand
  <2> QED
    BY <1>1, <2>1, LastPortal DEF Configured
<1>4. ASSUME NEW t \in Targets, RemoveTargetCommand(t)
      PROVE  FinitePortals(store') /\ Configured(store)'
  <2>1. sessions[t] = None /\ store' = RemoveTarget(store, t) /\ UNCHANGED sessions
    BY <1>4 DEF RemoveTargetCommand, IsTargetActive
  <2> QED
    BY <1>1, <2>1, RemoveTargetFields DEF FinitePortals, Configured
<1>5. ASSUME NEW t \in Targets, NEW iqn \in Targets, RenameTarget(t, iqn)
      PROVE  FinitePortals(store') /\ Configured(store)'
  <2> DEFINE q == SetTargetIQN(store, t, iqn)
  <2>1. /\ t \in DOMAIN store.targets /\ ConfigType(store, t) = "static"
        /\ sessions[t] = None /\ iqn \notin DOMAIN store.targets
        /\ UNCHANGED sessions
    BY <1>5 DEF RenameTarget, IsTargetActive, ConfigType, ContainsTarget
  <2>2. /\ DOMAIN q.targets = (DOMAIN store.targets \cup {iqn}) \ {t}
        /\ \A x \in DOMAIN q.targets : q.targets[x] = store.targets[IF x = iqn THEN t ELSE x]
    BY <1>1, <2>1, SetTargetIQNFields
  <2>3. IsPreferences(q)
    BY StoreGood, SetTargetIQNGood DEF Good
  <2>4. store' \in {q, CreateIfMissing(q, t), store}
    BY <1>5 DEF RenameTarget, ModifyTargetFromOptions
  <2> HIDE DEF q
  <2>5. FinitePortals(q) /\ Configured(q)
    BY <2>1, <2>2 DEF FinitePortals, Configured
  <2>6. CASE store' = CreateIfMissing(q, t)
    <3>1. /\ DOMAIN store'.targets = DOMAIN q.targets \cup {t}
          /\ \A x \in DOMAIN q.targets : store'.targets[x] = q.targets[x]
          /\ t \notin DOMAIN q.targets => store'.targets[t].portals = {}
      BY <2>3, <2>6, CreateIfMissingFields
    <3>2. FinitePortals(store')
      BY <2>5, <3>1, FS_EmptySet DEF FinitePortals
    <3> QED
      BY <2>1, <2>5, <3>1, <3>2 DEF Configured
  <2> QED
    BY <2>1, <2>4, <2>5, <2>6 DEF Configured
<1>6. ASSUME NEW t \in Targets, SetSharedSecret(t) \/ RemoveSharedSecret(t)
      PROVE  FinitePortals(store') /\ Configured(store)'
  BY <1>6 DEF SetSharedSecret, RemoveSharedSecret, Configured
<1>7. ASSUME NEW t \in Targets, SessionEnds(t)
      PROVE  FinitePortals(store') /\ Configured(store)'
  <2>1. store' = store /\ sessions' = [sessions EXCEPT ![t] = None]
    BY <1>7 DEF SessionEnds
  <2> QED
    BY <1>1, <2>1 DEF Configured
<1> QED
  BY <1>2, <1>3, <1>4, <1>5, <1>6, <1>7 DEF TargetCommand

LEMMA DiscoveryCommandConfigured ==
  ASSUME IInv, FinitePortals(store), Configured(store), DiscoveryCommand
  PROVE  FinitePortals(store') /\ Configured(store)'
<1>1. IsPreferences(store)
  BY DEF IInv, TypeOK
<1>2. ASSUME NEW d \in DiscoveryPortals, AddDiscoveryPortalCommand(d)
      PROVE  FinitePortals(store') /\ Configured(store)'
  BY <1>1, <1>2, AddDiscoveryPortalFields DEF AddDiscoveryPortalCommand, FinitePortals, Configured
<1>3. ASSUME NEW d \in DiscoveryPortals, RemoveDiscoveryPortalCommand(d)
      PROVE  FinitePortals(store') /\ Configured(store)'
  <2>1. /\ d \in DOMAIN store.discovery /\ store' = RemoveDiscoveryPortal(store, d)
        /\ \A t \in store.discovery[d] : sessions[t] = None
        /\ UNCHANGED sessions
    BY <1>3 DEF RemoveDiscoveryPortalCommand, ContainsDiscoveryPortal, IsTargetActive
  <2> QED
    BY <1>1, <2>1, RemoveDiscoveryPortalFields DEF FinitePortals, Configured
<1>4. ASSUME NEW enable \in BOOLEAN, ModifyDiscovery(enable)
      PROVE  FinitePortals(store') /\ Configured(store)'
  <2>1. store'.targets = store.targets /\ UNCHANGED sessions
    BY <1>1, <1>4 DEF ModifyDiscovery, IsPreferences
  <2> QED
    BY <2>1 DEF FinitePortals, Configured
<1> QED
  BY <1>2, <1>3, <1>4 DEF DiscoveryCommand

LEMMA LoginConfigured ==
  ASSUME IInv, Configured(store), NEW t \in Targets, Login(t)
  PROVE  UNCHANGED store /\ Configured(store)'
<1>1. UNCHANGED store /\ sessions \in [Targets -> Portals \cup {None}]
  BY DEF Login, IInv, TypeOK
<1>2. CASE UNCHANGED sessions
  BY <1>1, <1>2 DEF Configured
<1>3. ASSUME NEW a \in PortalsOf(store, t), sessions' = [sessions EXCEPT ![t] = a]
      PROVE  Configured(store)'
  <2>1. t \in DOMAIN store.targets /\ a \in store.targets[t].portals
    BY DEF PortalsOf, ContainsTarget
  <2> QED
    BY <1>1, <1>3, <2>1 DEF Configured
<1> QED
  BY <1>1, <1>2, <1>3 DEF Login

LEMMA ProcessConfigured ==
  ASSUME IInv, SessionsInv, NEW d \in DiscoveryPortals, ProcessRecord(d)
  PROVE  SessionsInv'
<1>1. /\ work # None /\ IsPreferences(work.prefs) /\ d \in DOMAIN work.prefs.discovery
      /\ work'.prefs = UpdateWithDiscovered(work.prefs, d, records[d])
      /\ UNCHANGED store
  BY ProcessFields
<1>2. FinitePortals(work'.prefs)
  BY <1>1, UpdateFinite DEF SessionsInv
<1> DEFINE gone == Vanished(work.prefs, d, records[d])
<1>3. sessions' = [t \in Targets |-> IF t \in gone THEN None ELSE sessions[t]]
  BY DEF ProcessRecord
<1> HIDE DEF gone
<1>4. Configured(store)'
  BY <1>1, <1>3 DEF SessionsInv, Configured
<1>5. \A t \in Targets : sessions'[t] # None => /\ t \in DOMAIN work'.prefs.targets
                                                /\ sessions'[t] \in work'.prefs.targets[t].portals
  <2>1. SUFFICES ASSUME NEW t \in Targets, sessions'[t] # None
                 PROVE  /\ t \in DOMAIN work'.prefs.targets
                        /\ sessions'[t] \in work'.prefs.targets[t].portals
    OBVIOUS
  <2>2. t \notin gone /\ sessions'[t] = sessions[t]
    BY <1>3, <2>1
  <2>3. t \in DOMAIN work.prefs.targets /\ sessions[t] \in work.prefs.targets[t].portals
    BY <1>1, <2>1, <2>2 DEF SessionsInv, Configured
  <2> QED
    BY <1>1, <2>2, <2>3, UpdateKeeps DEF gone
<1> QED
  BY <1>1, <1>2, <1>4, <1>5 DEF SessionsInv, Configured

LEMMA NextSessionsInv ==
  ASSUME "renameOnto" \notin Faults, IInv, SessionsInv, [Next]_vars
  PROVE  SessionsInv'
<1>1. CASE Command
  <2>1. work' = None
    BY <1>1 DEF Command
  <2>2. FinitePortals(store') /\ Configured(store)'
    BY <1>1, TargetCommandConfigured, DiscoveryCommandConfigured, LoginConfigured
       DEF Command, SessionsInv
  <2> QED
    BY <2>1, <2>2 DEF SessionsInv
<1>2. CASE \E d \in DiscoveryPortals : ProcessRecord(d)
  BY <1>2, ProcessConfigured
<1>3. CASE RunDiscovery \/ UNCHANGED vars
  BY <1>3 DEF RunDiscovery, SessionsInv, Configured, vars
<1>4. CASE StartProcessing
  BY <1>4 DEF StartProcessing, SessionsInv, Configured
<1>5. CASE StoreDiscovered \/ DaemonRestarts
  BY <1>5 DEF StoreDiscovered, DaemonRestarts, SessionsInv, Configured
<1> QED
  BY <1>1, <1>2, <1>3, <1>4, <1>5 DEF Next, DiscoveryStep

\* Unless a target is given the name of another, a target with a session is
\* stored with the portal that is in use: no command removes it (the tool's
\* tests with iSCSIDaemonIsTargetActive and the portal of the session), and
\* discovery logs out what it removes.
THEOREM SessionsConfigured ==
  ASSUME "renameOnto" \notin Faults
  PROVE  Spec => []SessionsAreConfigured
<1>1. Init => SessionsInv
  BY DEF Init, SessionsInv, FinitePortals, Configured, NoPreferences, NoSessions
<1>2. IInv /\ SessionsInv /\ [Next]_vars => SessionsInv'
  BY NextSessionsInv
<1>3. SessionsInv => SessionsAreConfigured
  BY DEF SessionsInv, Configured, SessionsAreConfigured, IsTargetActive, PortalsOf, ContainsTarget
<1> QED
  BY <1>1, <1>2, <1>3, Invariant, PTL DEF Spec

-----------------------------------------------------------------------------
(* A secret belongs to a target that is stored.                            *)

Owned(p) == secrets \subseteq DOMAIN p.targets

SecretsInv == Owned(store) /\ (work # None => Owned(work.prefs))

LEMMA TargetCommandOwned ==
  ASSUME "failedOption" \notin Faults, "secretFirst" \notin Faults,
         IInv, Owned(store), TargetCommand
  PROVE  Owned(store)'
<1>1. IsPreferences(store)
  BY DEF IInv, TypeOK
<1>2. ASSUME NEW t \in Targets, NEW a \in Portals, AddTarget(t, a)
      PROVE  Owned(store)'
  <2>1. CASE ContainsTarget(store, t)
    <3>1. store' = SetPortalForTarget(store, t, a) /\ UNCHANGED secrets
      BY <1>2, <2>1 DEF AddTarget
    <3> QED
      BY <1>1, <3>1, SetPortalFields DEF Owned
  <2>2. CASE ~ContainsTarget(store, t)
    <3>1. store' = AddStaticTarget(store, t, a) /\ t \notin DOMAIN store.targets /\ UNCHANGED secrets
      BY <1>2, <2>2 DEF AddTarget, ContainsTarget
    <3> QED
      BY <1>1, <3>1, AddStaticFields DEF Owned
  <2> QED
    BY <2>1, <2>2
<1>3. ASSUME NEW t \in Targets, NEW a \in Portals, RemovePortalCommand(t, a)
      PROVE  Owned(store)'
  <2>1. /\ a \in PortalsOf(store, t)
        /\ store' = RemovePortalForTarget(store, t, a)
        /\ secrets' = IF t \in DOMAIN store'.targets THEN secrets ELSE secrets \ {t}
    BY <1>3 DEF RemovePortalCommand, ContainsTarget
  <2>2. \/ DOMAIN store'.targets = DOMAIN store.targets
        \/ OnePortal(store, t) /\ DOMAIN store'.targets = DOMAIN store.targets \ {t}
    BY <1>1, <2>1, RemovePortalFields
  <2> QED
    BY <2>1, <2>2 DEF Owned
<1>4. ASSUME NEW t \in Targets, RemoveTargetCommand(t)
      PROVE  Owned(store)'
  <2>1. secrets' = secrets \ {t} /\ store' = RemoveTarget(store, t)
    BY <1>4 DEF RemoveTargetCommand
  <2> QED
    BY <1>1, <2>1, RemoveTargetFields DEF Owned
<1>5. ASSUME NEW t \in Targets, NEW iqn \in Targets, RenameTarget(t, iqn)
      PROVE  Owned(store)'
  <2> DEFINE q == SetTargetIQN(store, t, iqn)
  <2>1. /\ ConfigType(store, t) = "static"
        /\ secrets' = IF t \in secrets THEN (secrets \cup {iqn}) \ {t} ELSE secrets
    BY <1>5 DEF RenameTarget, RenameSecret
  <2>2. DOMAIN q.targets = (DOMAIN store.targets \cup {iqn}) \ {t}
    BY <1>1, <2>1, SetTargetIQNFields
  <2>3. IsPreferences(q)
    BY StoreGood, SetTargetIQNGood DEF Good
  <2>4. store' \in {q, CreateIfMissing(q, t)}
    BY <1>5 DEF RenameTarget, ModifyTargetFromOptions
  <2> HIDE DEF q
  <2>5. DOMAIN q.targets \subseteq DOMAIN store'.targets
    BY <2>3, <2>4, CreateIfMissingFields
  <2> QED
    BY <2>1, <2>2, <2>5 DEF Owned
<1>6. ASSUME NEW t \in Targets, SetSharedSecret(t) \/ RemoveSharedSecret(t) \/ SessionEnds(t)
      PROVE  Owned(store)'
  BY <1>6 DEF SetSharedSecret, RemoveSharedSecret, SessionEnds, ContainsTarget, Owned
<1> QED
  BY <1>2, <1>3, <1>4, <1>5, <1>6 DEF TargetCommand

LEMMA DiscoveryCommandOwned ==
  ASSUME IInv, Owned(store), DiscoveryCommand
  PROVE  Owned(store)'
<1>1. IsPreferences(store)
  BY DEF IInv, TypeOK
<1>2. ASSUME NEW d \in DiscoveryPortals, AddDiscoveryPortalCommand(d)
      PROVE  Owned(store)'
  BY <1>1, <1>2, AddDiscoveryPortalFields DEF AddDiscoveryPortalCommand, Owned
<1>3. ASSUME NEW d \in DiscoveryPortals, RemoveDiscoveryPortalCommand(d)
      PROVE  Owned(store)'
  <2>1. /\ d \in DOMAIN store.discovery /\ store' = RemoveDiscoveryPortal(store, d)
        /\ secrets' = secrets \ store.discovery[d]
    BY <1>3 DEF RemoveDiscoveryPortalCommand, ContainsDiscoveryPortal
  <2> QED
    BY <1>1, <2>1, RemoveDiscoveryPortalFields DEF Owned
<1>4. ASSUME NEW enable \in BOOLEAN, ModifyDiscovery(enable)
      PROVE  Owned(store)'
  <2>1. store'.targets = store.targets /\ UNCHANGED secrets
    BY <1>1, <1>4 DEF ModifyDiscovery, IsPreferences
  <2> QED
    BY <2>1 DEF Owned
<1> QED
  BY <1>2, <1>3, <1>4 DEF DiscoveryCommand

LEMMA ProcessOwned ==
  ASSUME IInv, SecretsInv, NEW d \in DiscoveryPortals, ProcessRecord(d)
  PROVE  SecretsInv'
<1>1. /\ work # None /\ IsPreferences(work.prefs) /\ d \in DOMAIN work.prefs.discovery
      /\ work'.prefs = UpdateWithDiscovered(work.prefs, d, records[d])
      /\ UNCHANGED store
  BY ProcessFields
<1>2. secrets' = secrets \ Vanished(work.prefs, d, records[d])
  BY DEF ProcessRecord
<1>3. DOMAIN work'.prefs.targets =
        (DOMAIN work.prefs.targets \cup DOMAIN records[d]) \ Vanished(work.prefs, d, records[d])
  BY <1>1, UpdateFields
<1> QED
  BY <1>1, <1>2, <1>3 DEF SecretsInv, Owned

LEMMA NextSecretsInv ==
  ASSUME "failedOption" \notin Faults, "secretFirst" \notin Faults,
         IInv, SecretsInv, [Next]_vars
  PROVE  SecretsInv'
<1>1. CASE Command
  <2>1. work' = None
    BY <1>1 DEF Command
  <2>2. Owned(store)'
    <3>1. CASE \E t \in Targets : Login(t)
      BY <3>1 DEF Login, SecretsInv, Owned
    <3> QED
      BY <1>1, <3>1, TargetCommandOwned, DiscoveryCommandOwned DEF Command, SecretsInv
  <2> QED
    BY <2>1, <2>2 DEF SecretsInv
<1>2. CASE \E d \in DiscoveryPortals : ProcessRecord(d)
  BY <1>2, ProcessOwned
<1>3. CASE RunDiscovery \/ UNCHANGED vars
  BY <1>3 DEF RunDiscovery, SecretsInv, Owned, vars
<1>4. CASE StartProcessing
  BY <1>4 DEF StartProcessing, SecretsInv, Owned
<1>5. CASE StoreDiscovered \/ DaemonRestarts
  BY <1>5 DEF StoreDiscovered, DaemonRestarts, SecretsInv, Owned
<1> QED
  BY <1>1, <1>2, <1>3, <1>4, <1>5 DEF Next, DiscoveryStep

\* Unless an option after a new name is refused, or a secret is set for a target
\* that is not there, no secret stays in the key chain without its target: it
\* moves when the target is renamed and goes when the target is removed, by a
\* command, with a discovery portal or because it vanished.
THEOREM SecretsOwned ==
  ASSUME "failedOption" \notin Faults, "secretFirst" \notin Faults
  PROVE  Spec => []SecretsHaveOwners
<1>1. Init => SecretsInv
  BY DEF Init, SecretsInv, Owned
<1>2. IInv /\ SecretsInv /\ [Next]_vars => SecretsInv'
  BY NextSecretsInv
<1>3. SecretsInv => SecretsHaveOwners
  BY DEF SecretsInv, Owned, SecretsHaveOwners
<1> QED
  BY <1>1, <1>2, <1>3, Invariant, PTL DEF Spec

-----------------------------------------------------------------------------
(* Discovery removes only what vanished.  A static target is in no list, so *)
(* that no portal can remove it, and what one portal reports is neither     *)
(* reported nor listed by another.                                          *)

ListedNotStatic(p) ==
    \A d \in DOMAIN p.discovery : \A t \in p.discovery[d] :
        t \in DOMAIN p.targets => p.targets[t].type # "static"

\* The lists of p that are going to be processed, against what was reported.
Apart(p) ==
    \A d, e \in DOMAIN records : d # e =>
        \A t \in DOMAIN records[d] :
            /\ t \notin DOMAIN records[e]
            /\ e \in DOMAIN p.discovery => t \notin p.discovery[e]

Reported(t) == \E d \in DOMAIN records : t \in DOMAIN records[d]

\* The copy has what the store must not lose.
Keeps(p) ==
    \A t \in DOMAIN store.targets :
        /\ store.targets[t].type = "static" => t \in DOMAIN p.targets /\ p.targets[t] = store.targets[t]
        /\ Reported(t) => t \in DOMAIN p.targets

VanishedInv ==
    /\ ListedNotStatic(store)
    /\ records # None => Apart(store)
    /\ work # None => ListedNotStatic(work.prefs) /\ Apart(work.prefs) /\ Keeps(work.prefs)

LEMMA TargetCommandNotStatic ==
  ASSUME "renameOnto" \notin Faults, "reusedName" \notin Faults,
         IInv, ListedNotStatic(store), TargetCommand
  PROVE  ListedNotStatic(store') /\ store'.discovery = store.discovery /\ UNCHANGED records
<1>1. IsPreferences(store)
  BY DEF IInv, TypeOK
<1>2. ASSUME NEW t \in Targets, NEW a \in Portals, AddTarget(t, a)
      PROVE  ListedNotStatic(store') /\ store'.discovery = store.discovery /\ UNCHANGED records
  <2>1. CASE ContainsTarget(store, t)
    <3>1. store' = SetPortalForTarget(store, t, a) /\ UNCHANGED records
      BY <1>2, <2>1 DEF AddTarget
    <3> QED
      BY <1>1, <3>1, SetPortalFields DEF ListedNotStatic
  <2>2. CASE ~ContainsTarget(store, t)
    <3>1. /\ store' = AddStaticTarget(store, t, a) /\ t \notin DOMAIN store.targets
          /\ \A d \in DOMAIN store.discovery : t \notin store.discovery[d]
          /\ UNCHANGED records
      BY <1>2, <2>2 DEF AddTarget, ContainsTarget, Listed
    <3>2. /\ DOMAIN store'.targets = DOMAIN store.targets \cup {t}
          /\ \A x \in DOMAIN store.targets : store'.targets[x] = store.targets[x]
          /\ store'.discovery = store.discovery
      BY <1>1, <3>1, AddStaticFields
    <3> QED
      BY <3>1, <3>2 DEF ListedNotStatic
  <2> QED
    BY <2>1, <2>2
<1>3. ASSUME NEW t \in Targets, NEW a \in Portals, RemovePortalCommand(t, a)
      PROVE  ListedNotStatic(store') /\ store'.discovery = store.discovery /\ UNCHANGED records
  <2>1. /\ a \in PortalsOf(store, t)
        /\ store' = RemovePortalForTarget(store, t, a) /\ UNCHANGED records
    BY <1>3 DEF RemovePortalCommand
  <2>2. /\ DOMAIN store'.targets \subseteq DOMAIN store.targets
        /\ \A x \in DOMAIN store'.targets : store'.targets[x].type = store.targets[x].type
        /\ store'.discovery = store.discovery
    BY <1>1, <2>1, RemovePortalFields
  <2> QED
    BY <2>1, <2>2 DEF ListedNotStatic
<1>4. ASSUME NEW t \in Targets, RemoveTargetCommand(t)
      PROVE  ListedNotStatic(store') /\ store'.discovery = store.discovery /\ UNCHANGED records
  <2>1. store' = RemoveTarget(store, t) /\ UNCHANGED records
    BY <1>4 DEF RemoveTargetCommand
  <2> QED
    BY <1>1, <2>1, RemoveTargetFields DEF ListedNotStatic
<1>5. ASSUME NEW t \in Targets, NEW iqn \in Targets, RenameTarget(t, iqn)
      PROVE  ListedNotStatic(store') /\ store'.discovery = store.discovery /\ UNCHANGED records
  <2> DEFINE q == SetTargetIQN(store, t, iqn)
  <2>1. /\ t \in DOMAIN store.targets /\ store.targets[t].type = "static"
        /\ ConfigType(store, t) = "static"
        /\ \A d \in DOMAIN store.discovery : iqn \notin store.discovery[d]
        /\ UNCHANGED records
    BY <1>5 DEF RenameTarget, Listed, ConfigType, ContainsTarget
  <2>2. /\ DOMAIN q.targets = (DOMAIN store.targets \cup {iqn}) \ {t}
        /\ \A x \in DOMAIN q.targets : q.targets[x] = store.targets[IF x = iqn THEN t ELSE x]
        /\ q.discovery = store.discovery
    BY <1>1, <2>1, SetTargetIQNFields
  <2>3. IsPreferences(q)
    BY StoreGood, SetTargetIQNGood DEF Good
  <2>4. store' \in {q, CreateIfMissing(q, t), store}
    BY <1>5 DEF RenameTarget, ModifyTargetFromOptions
  <2> HIDE DEF q
  <2>5. \A d \in DOMAIN store.discovery : t \notin store.discovery[d]
    BY <2>1 DEF ListedNotStatic
  <2>6. CASE store' = CreateIfMissing(q, t)
    <3>1. /\ DOMAIN store'.targets = DOMAIN q.targets \cup {t}
          /\ \A x \in DOMAIN q.targets : store'.targets[x] = q.targets[x]
          /\ store'.discovery = q.discovery
      BY <2>3, <2>6, CreateIfMissingFields
    <3> QED
      BY <2>1, <2>2, <2>5, <3>1 DEF ListedNotStatic
  <2>7. CASE store' = q
    BY <2>1, <2>2, <2>7 DEF ListedNotStatic
  <2> QED
    BY <2>1, <2>4, <2>6, <2>7
<1> QED
  BY <1>2, <1>3, <1>4, <1>5 DEF TargetCommand, SetSharedSecret, RemoveSharedSecret, SessionEnds

LEMMA DiscoveryCommandNotStatic ==
  ASSUME IInv, ListedNotStatic(store), DiscoveryCommand
  PROVE  /\ ListedNotStatic(store') /\ UNCHANGED records
         /\ \A e \in DOMAIN store'.discovery :
              \/ store'.discovery[e] = {}
              \/ e \in DOMAIN store.discovery /\ store'.discovery[e] = store.discovery[e]
<1> DEFINE Lists == \A e \in DOMAIN store'.discovery :
                      \/ store'.discovery[e] = {}
                      \/ e \in DOMAIN store.discovery /\ store'.discovery[e] = store.discovery[e]
<1>1. IsPreferences(store)
  BY DEF IInv, TypeOK
<1>2. ASSUME NEW d \in DiscoveryPortals, AddDiscoveryPortalCommand(d)
      PROVE  ListedNotStatic(store') /\ UNCHANGED records /\ Lists
  <2>1. store' = AddDiscoveryPortal(store, d) /\ UNCHANGED records
    BY <1>2 DEF AddDiscoveryPortalCommand
  <2>2. store'.targets = store.targets /\ Lists
    BY <1>1, <2>1, AddDiscoveryPortalFields
  <2> QED
    BY <2>1, <2>2 DEF ListedNotStatic
<1>3. ASSUME NEW d \in DiscoveryPortals, RemoveDiscoveryPortalCommand(d)
      PROVE  ListedNotStatic(store') /\ UNCHANGED records /\ Lists
  <2>1. /\ d \in DOMAIN store.discovery /\ store' = RemoveDiscoveryPortal(store, d)
        /\ UNCHANGED records
    BY <1>3 DEF RemoveDiscoveryPortalCommand, ContainsDiscoveryPortal
  <2> QED
    BY <1>1, <2>1, RemoveDiscoveryPortalFields DEF ListedNotStatic
<1>4. ASSUME NEW enable \in BOOLEAN, ModifyDiscovery(enable)
      PROVE  ListedNotStatic(store') /\ UNCHANGED records /\ Lists
  <2>1. store'.targets = store.targets /\ store'.discovery = store.discovery /\ UNCHANGED records
    BY <1>1, <1>4 DEF ModifyDiscovery, IsPreferences
  <2> QED
    BY <2>1 DEF ListedNotStatic
<1> QED
  BY <1>2, <1>3, <1>4 DEF DiscoveryCommand

LEMMA ProcessVanished ==
  ASSUME IInv, VanishedInv, NEW d \in DiscoveryPortals, ProcessRecord(d)
  PROVE  VanishedInv'
<1> DEFINE p == work.prefs
           rec == records[d]
           q == UpdateWithDiscovered(p, d, rec)
           gone == Vanished(p, d, rec)
<1>1. /\ work # None /\ IsPreferences(p) /\ d \in DOMAIN p.discovery
      /\ d \in DOMAIN records /\ records # None
      /\ work'.prefs = q
      /\ UNCHANGED <<store, records>>
  BY ProcessFields DEF IInv, TypeOK
<1>2. ListedNotStatic(p) /\ Apart(p) /\ Keeps(p) /\ ListedNotStatic(store) /\ Apart(store)
  BY <1>1 DEF VanishedInv
<1>3. /\ DOMAIN q.targets = (DOMAIN p.targets \cup DOMAIN rec) \ gone
      /\ \A t \in DOMAIN q.targets :
           q.targets[t] = IF t \in DOMAIN rec THEN Discovered(p, t, rec[t], d) ELSE p.targets[t]
      /\ DOMAIN q.discovery = DOMAIN p.discovery
      /\ q.discovery[d] = p.discovery[d] \cup (DOMAIN rec \ DOMAIN p.targets)
      /\ \A e \in DOMAIN q.discovery : e # d => q.discovery[e] = p.discovery[e]
  BY <1>1, UpdateFields
<1>4. gone = p.discovery[d] \ DOMAIN rec
  BY DEF Vanished
<1>5. \A t \in DOMAIN p.targets : t \notin gone =>
        /\ t \in DOMAIN q.targets
        /\ q.targets[t].type = p.targets[t].type
        /\ p.targets[t].type = "static" => q.targets[t] = p.targets[t]
  BY <1>1, UpdateKeeps
<1>6. \A t \in DOMAIN q.targets : t \notin DOMAIN p.targets => q.targets[t].type = "dynamic"
  BY <1>1, <1>3, DiscoveredFields
<1> HIDE DEF q, gone
<1>7. ListedNotStatic(q)
  <2>1. SUFFICES ASSUME NEW e \in DOMAIN q.discovery, NEW t \in q.discovery[e], t \in DOMAIN q.targets
                 PROVE  q.targets[t].type # "static"
    BY DEF ListedNotStatic
  <2>2. CASE t \notin DOMAIN p.targets
    BY <1>6, <2>1, <2>2
  <2>3. CASE t \in DOMAIN p.targets
    <3>1. t \in p.discovery[e] /\ t \notin gone
      BY <1>3, <2>1, <2>3
    <3> QED
      BY <1>2, <1>3, <1>5, <2>3, <3>1 DEF ListedNotStatic
  <2> QED
    BY <2>2, <2>3
<1>8. Apart(q)
  <2>1. SUFFICES ASSUME NEW c \in DOMAIN records, NEW e \in DOMAIN records, c # e,
                        NEW t \in DOMAIN records[c]
                 PROVE  /\ t \notin DOMAIN records[e]
                        /\ e \in DOMAIN q.discovery => t \notin q.discovery[e]
    BY DEF Apart
  <2>2. /\ t \notin DOMAIN records[e]
        /\ e \in DOMAIN p.discovery => t \notin p.discovery[e]
    BY <1>2, <2>1 DEF Apart
  <2> QED
    BY <1>3, <2>2
<1>9. Keeps(q)
  <2>1. SUFFICES ASSUME NEW t \in DOMAIN store.targets
                 PROVE  /\ store.targets[t].type = "static" =>
                             t \in DOMAIN q.targets /\ q.targets[t] = store.targets[t]
                        /\ Reported(t) => t \in DOMAIN q.targets
    BY DEF Keeps
  <2>2. ASSUME store.targets[t].type = "static"
        PROVE  t \in DOMAIN q.targets /\ q.targets[t] = store.targets[t]
    <3>1. t \in DOMAIN p.targets /\ p.targets[t] = store.targets[t]
      BY <1>2, <2>1, <2>2 DEF Keeps
    <3>2. t \notin gone
      BY <1>1, <1>2, <1>4, <2>2, <3>1 DEF ListedNotStatic
    <3> QED
      BY <1>5, <2>2, <3>1, <3>2
  <2>3. ASSUME Reported(t)
        PROVE  t \in DOMAIN q.targets
    <3>1. t \in DOMAIN p.targets
      BY <1>2, <2>1, <2>3 DEF Keeps
    <3>2. PICK c \in DOMAIN records : t \in DOMAIN records[c]
      BY <2>3 DEF Reported
    <3>3. t \notin gone
      <4>1. CASE c = d
        BY <1>4, <3>2, <4>1
      <4>2. CASE c # d
        BY <1>1, <1>2, <1>4, <3>2, <4>2 DEF Apart
      <4> QED
        BY <4>1, <4>2
    <3> QED
      BY <1>5, <3>1, <3>3
  <2> QED
    BY <2>2, <2>3
<1> HIDE DEF p
<1>10. ListedNotStatic(work'.prefs) /\ Apart(work'.prefs) /\ Keeps(work'.prefs)
  BY <1>1, <1>7, <1>8, <1>9
<1> QED
  BY <1>1, <1>2, <1>10 DEF VanishedInv, ListedNotStatic, Apart, Keeps, Reported

LEMMA NextVanishedInv ==
  ASSUME "renameOnto" \notin Faults, "reusedName" \notin Faults, "sharedTarget" \notin Faults,
         IInv, VanishedInv, [Next]_vars
  PROVE  VanishedInv'
<1>1. CASE Command
  <2>1. work' = None
    BY <1>1 DEF Command
  <2>2. CASE TargetCommand
    BY <2>1, <2>2, TargetCommandNotStatic DEF VanishedInv, Apart
  <2>3. CASE DiscoveryCommand
    <3>1. /\ ListedNotStatic(store') /\ UNCHANGED records
          /\ \A e \in DOMAIN store'.discovery :
               \/ store'.discovery[e] = {}
               \/ e \in DOMAIN store.discovery /\ store'.discovery[e] = store.discovery[e]
      BY <2>3, DiscoveryCommandNotStatic DEF VanishedInv
    <3> QED
      BY <2>1, <3>1 DEF VanishedInv, Apart
  <2>4. CASE \E t \in Targets : Login(t)
    BY <2>1, <2>4 DEF Login, VanishedInv, ListedNotStatic, Apart
  <2> QED
    BY <1>1, <2>2, <2>3, <2>4 DEF Command
<1>2. CASE \E d \in DiscoveryPortals : ProcessRecord(d)
  BY <1>2, ProcessVanished
<1>3. CASE RunDiscovery
  <2>1. PICK found \in Dictionaries(DOMAIN store.discovery, Records) :
           /\ \A d, e \in DOMAIN found :
                d = e \/ DOMAIN found[d] \cap (DOMAIN found[e] \cup store.discovery[e]) = {}
           /\ records' = found
    BY <1>3 DEF RunDiscovery
  <2>2. work = None /\ UNCHANGED <<store, work>>
    BY <1>3 DEF RunDiscovery, IInv, TypeOK
  <2>3. Apart(store)'
    BY <2>1, <2>2 DEF Apart
  <2> QED
    BY <2>2, <2>3 DEF VanishedInv
<1>4. CASE StartProcessing
  <2>1. records # None /\ work'.prefs = store /\ UNCHANGED <<store, records>>
    BY <1>4 DEF StartProcessing
  <2> QED
    BY <2>1 DEF VanishedInv, ListedNotStatic, Apart, Keeps, Reported
<1>5. CASE StoreDiscovered \/ DaemonRestarts
  BY <1>5 DEF StoreDiscovered, DaemonRestarts, VanishedInv
<1>6. CASE UNCHANGED vars
  BY <1>6 DEF vars, VanishedInv, ListedNotStatic, Apart, Keeps, Reported
<1> QED
  BY <1>1, <1>2, <1>3, <1>4, <1>5, <1>6 DEF Next, DiscoveryStep

\* Unless a target takes the name of another or one that a list still has, or
\* two portals report the same target, a round of discovery stores every static
\* target as it was and every target that was reported
\* (iSCSIDiscoveryUpdatePreferencesWithDiscoveredTargets), even when a portal is
\* removed while it is asked.
THEOREM OnlyVanishedAreRemoved ==
  ASSUME "renameOnto" \notin Faults, "reusedName" \notin Faults, "sharedTarget" \notin Faults
  PROVE  Spec => DiscoveryRemovesOnlyVanished
<1> DEFINE Kept ==
      StoreDiscovered =>
        \A t \in DOMAIN store.targets :
            /\ ConfigType(store, t) = "static" => /\ ContainsTarget(store', t)
                                                  /\ store'.targets[t] = store.targets[t]
            /\ (\E d \in DOMAIN records : t \in DOMAIN records[d]) => ContainsTarget(store', t)
<1>1. Init => VanishedInv
  BY DEF Init, VanishedInv, ListedNotStatic, NoPreferences
<1>2. IInv /\ VanishedInv /\ [Next]_vars => VanishedInv'
  BY NextVanishedInv
<1>3. VanishedInv => Kept
  <2>1. SUFFICES ASSUME VanishedInv, StoreDiscovered PROVE Kept
    OBVIOUS
  <2>2. Keeps(store')
    BY <2>1 DEF StoreDiscovered, VanishedInv
  <2> QED
    BY <2>2 DEF Keeps, Reported, ConfigType, ContainsTarget
<1>4. Spec => []VanishedInv
  BY <1>1, <1>2, Invariant, PTL DEF Spec
<1>5. Spec => [][Kept]_vars
  <2> HIDE DEF Kept
  <2> QED
    BY <1>3, <1>4, PTL DEF Spec
<1> QED
  BY <1>5 DEF DiscoveryRemovesOnlyVanished

=============================================================================
