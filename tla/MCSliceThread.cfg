\* Three threads, with and without main_func, on more jobs than threads, as many
\* and fewer; the second call may meet workers that are late from the first.
SPECIFICATION FairSpec
CONSTANTS
  NbThreads = 3
  MaxJobs = 5
  MaxCalls = 2
INVARIANTS
  TypeOK
  AllJobsDone
  OwnThreadnr
  LocalsCurrent
PROPERTIES
  CallReturns
