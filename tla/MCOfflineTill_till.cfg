\* Two carts, hold, resume and void, a refused sale and a stop of the server.
SPECIFICATION Spec
CONSTANTS
  cart1 = cart1  cart2 = cart2  main = main  second = second
  Carts = {cart1, cart2}
  NoCart = NoCart
  Total <- SamePrice
  OpIds <- FiveOps
  Tabs = {main}
  MainTab = main
  Nobody = Nobody
  Slots <- TwoSlots
  MaxRefusals = 1
  MaxCrashes = 1
  MaxLosses = 0
  MaxReloads = 0
  UiActions = {"hold", "resume", "void"}
INVARIANTS TypeOK QueueIsOrdered UnsoldUnlessAmiss SaleIsTheCartPaid
SYMMETRY CartsAlike
CHECK_DEADLOCK FALSE
