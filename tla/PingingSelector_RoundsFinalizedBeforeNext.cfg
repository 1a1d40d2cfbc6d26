CONSTANTS
    f1 = f1
    f2 = f2
    NoSample = NoSample
    Fps <- MC_Fps
    PathSets <- MC_PathSets
    Latencies = {1}
    Timeout = 2
    SeqNoMod = 3
    MaxRounds = 2
    ActiveCounts = {1, 2}
    SameIA = FALSE
    PingerResults = {TRUE, FALSE}

SPECIFICATION Spec
SYMMETRY MC_Symmetry

INVARIANT RoundsFinalizedBeforeNext


\* A panic (a probe sent after Close) ends the process; with it, and with
\* the round bound reached and every probe answered, the system stops.
CHECK_DEADLOCK FALSE
