------------------------------ MODULE MCClient ------------------------------
(* Instances of Client for TLC.                                            *)
EXTENDS Client

CONSTANTS thread1, thread2

MCThreads == {thread1, thread2}

OneCallEach == [t \in MCThreads |-> 1]

\* One thread calls again while the other is still in its call.
SecondCall == [t \in MCThreads |-> IF t = thread1 THEN 2 ELSE 1]
=============================================================================
