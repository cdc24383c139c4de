CONSTANTS
    Targets = {t1, t2}
    Portals = {a1, a2}
    DiscoveryPortals = {d1, d2}
    None = None
    Faults = {}
SPECIFICATION Spec
INVARIANTS
    TargetsHavePortals
    SessionsAreConfigured
    SecretsHaveOwners
    DynamicTargetsAreListed
PROPERTY
    DiscoveryRemovesOnlyVanished
SYMMETRY Symmetry
CHECK_DEADLOCK TRUE
