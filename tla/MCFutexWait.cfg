CONSTANTS
    Threads = {t1, t2}
    Slices = 2
SPECIFICATION Spec
INVARIANTS WokenReturnSuccess
CHECK_DEADLOCK FALSE
