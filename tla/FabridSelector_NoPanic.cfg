CONSTANTS
    c1 = c1
    c2 = c2
    o1 = o1
    o2 = o2
    o3 = o3
    fA = fA
    fB = fB
    iA = iA
    iB = iB
    src = src
    x = x
    y = y
    dst = dst
    Route <- MC_Route
    Links <- MC_Links
    Scion = Scion
    None = None
    Conns <- MC_Conns
    Objs <- MC_Objs
    Fingerprint <- MC_Fingerprint
    Fps <- MC_Fps
    Ifaces <- MC_Ifaces
    PathIfaces <- MC_PathIfaces
    PathSets <- MC_NonEmptyPathSets

SPECIFICATION Spec
SYMMETRY MC_Symmetry

INVARIANT NoPanic

\* A panic ends the process: a state with no successor is a crashed
\* program, not a deadlock of the model.
CHECK_DEADLOCK FALSE
