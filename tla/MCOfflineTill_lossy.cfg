SPECIFICATION Spec
CONSTANTS
  cart1 = cart1
  cart2 = cart2
  main = main
  second = second
  Carts = {cart1}
  NoCart = NoCart
  Total <- SamePrice
  OpIds <- FourOps
  Tabs = {main}
  MainTab = main
  Nobody = Nobody
  Slots <- TwoSlots
  MaxRefusals = 1
  MaxCrashes = 1
  MaxLosses = 1
  MaxReloads = 1
  UiActions = {"hold", "resume", "void"}
CHECK_DEADLOCK FALSE
INVARIANTS SoldOnce
