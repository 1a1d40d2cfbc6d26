CONSTANTS
    r1 = r1
    r2 = r2
    r3 = r3
    a1 = a1
    a2 = a2
    b = b
    c = c
    None = None
    Remotes <- MC_Remotes
    Paths <- MC_Paths
    Fingerprint <- MC_Fingerprint
    LocalRemotes = {r3}
    MaxReplyPaths = 2
    MaxRecords = 3

SPECIFICATION Spec
SYMMETRY MC_Symmetry

INVARIANT TypeOK
INVARIANT ReplyCacheIsRecencyOrder

\* The listener stops receiving after MaxRecords recorded packets, and a
\* failed constructor or Close ends it.
CHECK_DEADLOCK FALSE
