CONSTANTS
    f1 = f1
    f2 = f2
    NoSample = NoSample
    Fps <- MC_Fps
    PathSets <- MC_PathSets
    Latencies = {1}
    Timeout = 2
    SeqNoMod = 3
    MaxRounds = 2
    ActiveCounts = {2}
    SameIA = FALSE
    PingerResults = {TRUE, FALSE}

SPECIFICATION FairSpec

INVARIANT TypeOK
INVARIANT SelectionReflectsMeasurements
INVARIANT AtMostOneSample
PROPERTY RoundsEventuallyFinalize

\* A panic (a probe sent after Close) ends the process; with it, and with
\* the round bound reached and every probe answered, the system stops.
CHECK_DEADLOCK FALSE
