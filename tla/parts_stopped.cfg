SPECIFICATION Spec
CONSTANT
    Runs <- StoppedRuns
INVARIANT StoredIsReadable
CHECK_DEADLOCK FALSE
