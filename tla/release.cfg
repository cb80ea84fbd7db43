SPECIFICATION Spec
CONSTANTS
    Releases = {v1, v2, v3}
    Broken <- MCBroken
    Bad <- MCBad
    v1 = v1
    v2 = v2
    v3 = v3
    None = None
    MaxDeploys = 4
    Faults = {"read", "step", "rollback", "job", "runner"}
    MaxFaults = 3
INVARIANTS TypeOK SchemaFirst ConcludedRunsAgree TargetIsVerified
PROPERTY RecordedAsItRan
\* the workflow is dispatched MaxDeploys times
CHECK_DEADLOCK FALSE
