\* Days and their month posted, reversed and re-posted while the month closes.
SPECIFICATION Spec
CONSTANTS
  j1 = j1  j2 = j2  j3 = j3
  u1 = u1  u2 = u2  b1 = b1  b2 = b2  s1 = s1  s2 = s2  d1 = d1  d2 = d2
  NoJournal = NoJournal  NoUser = NoUser  NoBatch = NoBatch
  Sales = {s1, s2}
  Journals = {j1, j2, j3}
  Batches = {b1, b2}
  Users = {u1, u2}
  Admins = {}
  Overriders = {u1, u2}
  Months = {1}
  Days = {d1, d2}
  MonthOf <- OneMonth
  Price <- Prices
  Amounts = {}
  DocAmounts = {}
  MaxRepairs = 0
  MaxBack = 0
SYMMETRY Symmetry
INVARIANTS InBooksOnce LedgerTiesToQueue StrandedOnlyWhileClosed
           
CHECK_DEADLOCK FALSE
