SPECIFICATION FairSpec
CONSTANTS
    a = a  b = b  i1 = i1  i2 = i2  queued = queued  sending = sending  paid = paid
    Rows = {a, b}
    Values = {queued, sending, paid}
    Initial = queued
    Null = Null
    None = None
    Indexes = {i1, i2}
    Attempts = 2
    Faults = {"kill", "lock", "build", "rollback", "repeat"}
    MaxFaults = 3
INVARIANTS TypeOK ColumnsAgree EveryRowHasState IndexesAreValid
PROPERTY Migrates
