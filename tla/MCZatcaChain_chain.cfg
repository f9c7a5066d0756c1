SPECIFICATION FairSpec
CONSTANTS
  r1 = r1  r2 = r2  r3 = r3  r4 = r4
  invoice1 = invoice1  invoice2 = invoice2  memo = memo
  NoDoc = NoDoc  Seed = Seed  Nobody = Nobody
  Docs = {invoice1, invoice2, memo}
  Counters = {"SI", "CN"}
  CounterOf <- Numbering
  Original <- Reduced
  Requests = {r1, r2, r3, r4}
  Of <- OfFour
  TxnAttempts = 2
INVARIANTS ChainIsLinear NumbersHaveNoGaps OnlyUpgradesCollide
PROPERTY EveryRequestEnds
CHECK_DEADLOCK FALSE
