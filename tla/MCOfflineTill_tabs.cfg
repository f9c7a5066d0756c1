SPECIFICATION FairSpec
CONSTANTS
  cart1 = cart1
  cart2 = cart2
  main = main
  second = second
  Carts = {cart1}
  NoCart = NoCart
  Total <- SamePrice
  OpIds <- FourOps
  Tabs = {main, second}
  MainTab = main
  Nobody = Nobody
  Slots <- TwoSlots
  MaxRefusals = 1
  MaxCrashes = 0
  MaxLosses = 0
  MaxReloads = 0
  UiActions = {}
INVARIANT SoldOnce
PROPERTY CheckoutsAreSettled
CHECK_DEADLOCK FALSE
