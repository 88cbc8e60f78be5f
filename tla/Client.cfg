SPECIFICATION FairSpec
CONSTANTS
  thread1 = thread1
  thread2 = thread2
  Threads <- MCThreads
  Calls <- SecondCall
INVARIANTS
  TypeOK
  PendingByHeader
  AnswersOwnCall
PROPERTIES
  TimedOutRemoved
  EveryCallReturns
CHECK_DEADLOCK FALSE
