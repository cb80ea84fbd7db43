SPECIFICATION Spec
CONSTANTS
    Manifests <- MCManifests
    MaxConnections = 68
    SuperuserReserved = 3
    AdminHeadroom = 5
    Reserved = 3
    MaxTerminating = 2
    None = None
INVARIANTS TypeOK FormulaCovers
