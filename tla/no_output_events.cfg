\* HDF I/O tracing, checking IOEventsOnlyWhileTracing alone (expected to fail).
CONSTANTS
    Masks      = {0, 1}
    OutSws     = {0, 1, 2}
SPECIFICATION Spec
CHECK_DEADLOCK FALSE
INVARIANT IOEventsOnlyWhileTracing
