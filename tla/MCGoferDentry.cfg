CONSTANTS
    r1 = r1
    r2 = r2
    Readers <- MCReaders
    NFD <- MCNFD
SPECIFICATION Spec
INVARIANT TypeOK
INVARIANT NoBadClose
INVARIANT HostFDsAccounted
INVARIANT ReadHandleForDeletedOk
CHECK_DEADLOCK FALSE
