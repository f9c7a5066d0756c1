\* Duplicates, retries that may mean two things, and different actions that
\* race on one document; deadlocks are retried once.
SPECIFICATION FairSpec
CONSTANTS
  a1 = a1  a2 = a2  a3 = a3  k1 = k1  k2 = k2  h1 = h1  h2 = h2
  NoKey = NoKey  NoHash = NoHash  Unused = Unused  Nobody = Nobody
  AnyVersion = AnyVersion
  Attempts = {a1, a2}
  Keys = {k1}
  Hashes = {h1, h2}
  Actions = {"approve", "cancel", "create", "allocate_advance"}
  Legacy <- ApproveWasKeyed
  Versions = {1}
  TxnAttempts = 2
INVARIANT RowIsItsHistory
PROPERTIES NoErrorAfterEffect ImplementsExactlyOnce EveryAttemptEnds
CHECK_DEADLOCK FALSE
