\* A student who sends a cart again while the first request is still served.
\* CHECK_DEADLOCK FALSE: the bound on requests ends the behaviour.
SPECIFICATION Spec
CONSTANTS
  lunch = lunch
  dinner = dinner
  tea = tea
  rice = rice
  cake = cake
  Carts <- MCCarts
  Student <- MCStudent
  Slot <- MCSlot
  Quantity <- MCQuantity
  SingleItem <- MCSingleItem
  Slots = {lunch, dinner}
  Items = {tea, rice, cake}
  Shop <- MCShop
  Capacity <- MCCapacity
  StockLevels = {0, 2}
  StaffTargets = {"preparing", "cancelled", "refund_pending"}
  Workers = {w1, w2}
  Handlers = {h1, h2}
  Impatient = TRUE
  MaxRequests = 3
  MaxMoves = 2
  MaxAborts = 0
INVARIANTS
  OneOrderPerLine
CHECK_DEADLOCK FALSE
