SPECIFICATION FairSpec
CONSTANTS
    Key = {k1}
    Worker = {w1, w2}
    None = None
INVARIANTS TypeOK OneWorkerPerKey NoUpdateLost ReturnedMeansStopped StoreClosedLast CleanExit ReadyMeansStarted
PROPERTIES ProcessEnds ChangesAreReconciled
CHECK_DEADLOCK FALSE
