CONSTANTS
    f1 = f1
    f2 = f2
    i1 = i1
    i2 = i2
    pNil = pNil
    pNoF1 = pNoF1
    None = None
    Fps <- MC_Fps
    Ifaces <- MC_Ifaces
    PathIfaces <- MC_PathIfaces
    PathSets <- MC_PathSets
    Policies <- MC_Policies
    Filter <- MC_Filter
    MaxPolicyChanges = 2
    SameIAs = {FALSE, TRUE}

SPECIFICATION Spec

INVARIANT NoPanic

\* A panic ends the process, and the application stops changing the
\* policy after MaxPolicyChanges calls; Close ends the dialer.
CHECK_DEADLOCK FALSE
