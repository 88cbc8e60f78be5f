SPECIFICATION Spec
CONSTANTS
  thread1 = thread1
  thread2 = thread2
  Threads <- MCThreads
  Calls <- OneCallEach
INVARIANT
  PendingHoldsUnanswered

CHECK_DEADLOCK FALSE
