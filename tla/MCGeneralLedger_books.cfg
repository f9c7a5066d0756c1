\* Manual journals, documents, reversals and one repair, over one month.
SPECIFICATION LedgerSpec
CONSTANTS
  j1 = j1  j2 = j2  j3 = j3
  u1 = u1  u2 = u2
  NoJournal = NoJournal  NoUser = NoUser
  Journals = {j1, j2, j3}
  Users = {u1, u2}
  Admins = {}
  Overriders = {u1, u2}
  Months = {1}
  Amounts = {1}
  DocAmounts = {2}
  MaxRepairs = 1
SYMMETRY Symmetry
INVARIANTS BalanceTies FourEyes ReversedOnce MirrorsOriginal
 
CHECK_DEADLOCK FALSE
