\* HDF I/O tracing: init, end, procedure events and every I/O wrapper.
\* An out_sw other than 0, 1, 2 makes HDFinitTrace call exit(-1): the
\* program ends there, so a state with no further step is expected.
CONSTANTS
    Masks      = {0, 1}
    OutSws     = {0, 1, 2, 3}
SPECIFICATION Spec
CHECK_DEADLOCK FALSE
INVARIANTS
    TypeOK
    RoutingConsistent
    ApiEventsOnlyWhileTracing
