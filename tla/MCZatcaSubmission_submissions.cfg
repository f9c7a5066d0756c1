\* A sale and its credit note, two workers, retries and faults.
SPECIFICATION FairSpec
CONSTANTS
  s1 = s1  s2 = s2  w1 = w1  w2 = w2
  NoDoc = NoDoc
  Sales = {s1}
  Workers = {w1, w2}
  MaxAttempts = 2
  BatchSize = 2
  MaxFaults = 1
  MaxBack = 1
INVARIANTS AcceptedOnce SettledRight
PROPERTY EveryRowSettles
CHECK_DEADLOCK FALSE
