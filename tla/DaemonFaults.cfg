CONSTANTS
    Clients = {c1, c2}
    MaxCommands = 1
    Faults = {"overlap", "impatient"}
    None = None
SYMMETRY Symmetry
SPECIFICATION Spec
PROPERTIES
    ChangesAreKept
CHECK_DEADLOCK TRUE
