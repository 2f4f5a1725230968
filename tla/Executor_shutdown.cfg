SPECIFICATION FairSpec
CONSTANTS
  Threads = {t1}
  Jobs = {j1}
  NoJob = NoJob
PROPERTY ShutdownReturns
