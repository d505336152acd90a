\* Two workers, five carts of two students, two slots, three items.
\* CHECK_DEADLOCK FALSE: the bound on requests ends the behaviour.
SPECIFICATION LiveSpec
CONSTANTS
  lunch = lunch
  dinner = dinner
  tea = tea
  rice = rice
  cake = cake
  Carts <- MCCarts
  Student <- MCStudent
  Slot <- MCSlot
  Quantity <- MCQuantity
  SingleItem <- MCSingleItem
  Slots = {lunch, dinner}
  Items = {tea, rice, cake}
  Shop <- MCShop
  Capacity <- MCCapacity
  StockLevels = {0, 2}
  StaffTargets = {"preparing", "cancelled", "refund_pending"}
  Workers = {w1, w2}
  Handlers = {h1, h2}
  Impatient = FALSE
  MaxRequests = 3
  MaxMoves = 2
  MaxAborts = 1
INVARIANTS
  KitchenWithinCapacity
  PatientStudentOrdersOnce
  SingleShopAtATime
PROPERTIES
  CheckoutTakesItsStock
  RequestEnds
CHECK_DEADLOCK FALSE
