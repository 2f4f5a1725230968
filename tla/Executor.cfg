SPECIFICATION FairSpec
CONSTANTS
  Threads = {t1, t2}
  Jobs = {j1, j2}
  NoJob = NoJob
INVARIANTS TypeOK OneOwner JoinedIsQuiet
PROPERTIES DrainReachesListed ImplementsTaskPool ServedUnlessRacing WorkerStops ShutdownFromQuietPool
