SPECIFICATION Spec
CONSTANTS
    Inputs <- MCInputs
    None = None
INVARIANTS TypeOK RunsWhatIsWritten LintSeesWhatRuns ConcurrentlyOutsideTransaction
CHECK_DEADLOCK FALSE
