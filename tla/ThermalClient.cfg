\* Two threads, two restarts of the service.
SPECIFICATION Spec
CONSTANTS
    Threads = {t1, t2}
    MaxService = 3
    MaxCallbacks = 2
INVARIANTS
    DeadProxyIsReset
    FailsOnlyByDeath
PROPERTIES
    ImplementsHandle
CHECK_DEADLOCK FALSE
