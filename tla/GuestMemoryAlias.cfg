CONSTANTS
    VirtualPages = 3
    DirectPages = 2
    FlexiblePages = 0
    Prots = {rw}
    NoProt = NoProt
    HostFails = FALSE
SPECIFICATION Spec
INVARIANT NoAliasEscapes
CHECK_DEADLOCK FALSE
