CONSTANTS
    cl = cl
    o1 = o1
    o2 = o2
    o3 = o3
    fA = fA
    fB = fB
    iA = iA
    iB = iB
    src = src
    x = x
    y = y
    dst = dst
    Scion = Scion
    None = None
    Client = cl
    Objs <- MC_Objs
    Fingerprint <- MC_Fingerprint
    Fps <- MC_Fps
    Ifaces <- MC_Ifaces
    PathIfaces <- MC_PathIfaces
    PathSets <- MC_PathSets
    Route <- MC_Route
    Links <- MC_Links
    MaxReplyPaths = 2
    Count = 2
    FabridOutcomes = {"validated", "answered", "malformed", "rejected"}
    ControlOutcomes = {"ok", "error"}

SPECIFICATION Spec

INVARIANT TypeOK
PROPERTY ClientTerminates

\* Once the client has returned, the server blocks in ReadFrom for ever
\* (or has returned itself): the program stops, it is not a deadlock.
CHECK_DEADLOCK FALSE
