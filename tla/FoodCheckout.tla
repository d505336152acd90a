---------------------------- MODULE FoodCheckout ----------------------------
(***************************************************************************)
(* Placing food orders: create_food_order and create_food_orders_checkout  *)
(* of app/routers/food.py, which share slots and stock with each other,    *)
(* with the shop owner's edits of the menu, and with the handlers that     *)
(* move orders on.                                                         *)
(*                                                                         *)
(* A request first checks the cart against the database without a lock,    *)
(* then locks the row of the slot and the rows of the menu items, counts   *)
(* the slot's orders, takes the stock, inserts one order per cart line and *)
(* commits.  A refusal or an exception rolls back and gives up the locks.  *)
(* The handlers that move orders on lock nothing: they read the order,     *)
(* check the transition, and write the new status at their commit, over    *)
(* whatever another handler wrote meanwhile.                               *)
(***************************************************************************)
EXTENDS Naturals, FiniteSets, Functions, FoodStatuses

CONSTANTS
  Carts,        \* what students order; a cart is sent again under its idempotency key
  Student,      \* [Carts -> students]
  Slot,         \* [Carts -> Slots]
  Quantity,     \* [Carts -> [Items -> Nat]], 0: not in the cart
  SingleItem,   \* carts sent to /orders; the others go to /orders/checkout
  Slots, Items,
  Shop,         \* [Items -> shops]
  Capacity,     \* [Slots -> Nat], BreakSlot.max_orders
  StockLevels,  \* stocks a shop owner sets
  StaffTargets, \* statuses orders are moved to
  Workers,      \* request threads that serve carts
  Handlers,     \* request threads that move orders on
  Impatient,    \* whether a student sends again before the answer is there
  MaxRequests,  \* bound: carts sent and edits of the menu
  MaxMoves,     \* bound: status changes asked for
  MaxAborts     \* bound: requests that die before they commit

ItemsOf == [c \in Carts |-> {i \in Items : Quantity[c][i] > 0}]

TotalQuantity == [c \in Carts |-> SumFunction(Quantity[c])]

ASSUME CheckoutAssumption ==
  /\ Carts # {} /\ IsFiniteSet(Items)
  /\ Slot \in [Carts -> Slots]
  /\ Quantity \in [Carts -> [Items -> Nat]]
  /\ SingleItem \subseteq Carts
  /\ Capacity \in [Slots -> Nat]
  /\ StockLevels \subseteq Nat
  /\ StaffTargets \subseteq FoodOrderStatus
  /\ Impatient \in BOOLEAN
  /\ MaxRequests \in Nat
  /\ MaxMoves \in Nat
  /\ MaxAborts \in Nat
  /\ \A c \in Carts : \A i, k \in ItemsOf[c] : Shop[i] = Shop[k]
  /\ \A c \in SingleItem : Cardinality(ItemsOf[c]) = 1
  /\ TotalQuantity \in [Carts -> Nat]
  /\ \A c \in Carts : Cardinality(ItemsOf[c]) <= TotalQuantity[c]

VARIABLES
  rows,      \* food_orders: one row per line of a cart
  stock,     \* food_menu_items.stock_quantity
  soldOut,   \* food_menu_items.sold_out, or not is_active
  job,       \* the request each worker runs
  moving,    \* what each handler read of an order and the status it will write
  moves,     \* status changes asked for so far
  requests,  \* carts sent and menu edits so far
  aborts     \* requests that died so far

vars == <<rows, stock, soldOut, job, moving, moves, requests, aborts>>

\* request tells the rows of one request from those of another.  revived is a
\* history variable: a handler brought the order back without having seen that
\* it was settled.
Row == [request : 1..MaxRequests, cart : Carts, item : Items, status : FoodOrderStatus,
        revived : BOOLEAN]

Move == [row : Row, status : FoodOrderStatus]

NoMove == <<>>

Lockable == Slots \cup Items

\* stage "locking": the cart passed the first checks; "taken": slot and stock
\* are checked under the locks, the commit is to come.
Job == [stage : {"idle", "locking", "taken"}, cart : Carts, request : 0..MaxRequests,
        locks : SUBSET Lockable, seen : [Items -> Nat], left : [Items -> Nat]]

NoStock == [i \in Items |-> 0]

IdleJob == [stage |-> "idle", cart |-> CHOOSE c \in Carts : TRUE, request |-> 0,
            locks |-> {}, seen |-> NoStock, left |-> NoStock]

TypeOK ==
  /\ rows \subseteq Row
  /\ stock \in [Items -> Nat]
  /\ soldOut \in [Items -> BOOLEAN]
  /\ job \in [Workers -> Job]
  /\ moving \in [Handlers -> Move \cup {NoMove}]
  /\ moves \in 0..MaxMoves
  /\ requests \in 0..MaxRequests
  /\ aborts \in 0..MaxAborts

Init ==
  /\ rows = {}
  /\ stock \in [Items -> StockLevels \ {0}]
  /\ soldOut = [i \in Items |-> FALSE]
  /\ job = [w \in Workers |-> IdleJob]
  /\ moving = [h \in Handlers |-> NoMove]
  /\ moves = 0
  /\ requests = 0
  /\ aborts = 0

Free(w) == job[w].stage = "idle"

SlotOf(row) == Slot[row.cart]

(***************************************************************************)
(* Checks before the locks                                                 *)
(***************************************************************************)

\* Variant: an order in the kitchen counts as handed over.
ActiveUntilPreparing == {"placed", "verified"}

ActiveStatuses == {"placed", "verified", "preparing", "ready", "out_for_delivery"}

\* The student has no order under way from another shop.
SameShop(c) ==
  \A row \in rows : Student[row.cart] = Student[c] /\ row.status \in ActiveStatuses =>
    \A i \in ItemsOf[c] : Shop[row.item] = Shop[i]

\* Variant: a cart is known only when more lines than its own are found.
PlacedBeforeOffByOne(c) ==
  Cardinality({row \in rows : row.cart = c}) > Cardinality(ItemsOf[c])

\* Each line of the cart is found under its idempotency key.
PlacedBefore(c) ==
  Cardinality({row \in rows : row.cart = c}) >= Cardinality(ItemsOf[c])

Available(c) == \A i \in ItemsOf[c] : ~soldOut[i]

Suffices(c, level) == \A i \in ItemsOf[c] : level[i] >= Quantity[c][i]

\* The student sends cart c, which w serves.
Receive(w, c) ==
  /\ Free(w)
  /\ requests < MaxRequests
  /\ Impatient \/ \A v \in Workers : Free(v) \/ Student[job[v].cart] # Student[c]
  /\ requests' = requests + 1

\* A cart that was placed before is answered with its orders; /orders looks for
\* them only after the other checks.
AnswerAgain(w, c) ==
  /\ Receive(w, c)
  /\ PlacedBefore(c)
  /\ c \in SingleItem => Available(c) /\ Suffices(c, stock) /\ SameShop(c)
  /\ UNCHANGED <<rows, stock, soldOut, job, moving, moves, aborts>>

Begin(w, c) ==
  /\ Receive(w, c)
  /\ ~PlacedBefore(c)
  /\ Available(c)
  /\ c \in SingleItem => Suffices(c, stock)
  /\ SameShop(c)
  /\ job' = [job EXCEPT ![w] = [IdleJob EXCEPT
       !.stage = "locking", !.cart = c, !.request = requests', !.seen = stock]]
  /\ UNCHANGED <<rows, stock, soldOut, moving, moves, aborts>>

(***************************************************************************)
(* Under the locks                                                         *)
(***************************************************************************)

\* Variant: the slot's row is left out.
NeededItemsOnly(c) == ItemsOf[c]

\* Variant: the menu items' rows are left out.
NeededSlotOnly(c) == {Slot[c]}

\* The rows SELECT ... FOR UPDATE locks, the slot's first.
Needed(c) == {Slot[c]} \cup ItemsOf[c]

\* Rows w may lock next: the items come in the order the scan finds them.
NextRows(w) ==
  LET missing == Needed(job[w].cart) \ job[w].locks IN
  IF job[w].stage # "locking" THEN {}
  ELSE IF missing \cap Slots # {} THEN missing \cap Slots
  ELSE missing

\* r is one of NextRows(w).
LockRow(w, r) ==
  /\ \A v \in Workers : r \notin job[v].locks
  /\ job' = [job EXCEPT ![w].locks = @ \cup {r}]
  /\ UNCHANGED <<rows, stock, soldOut, moving, moves, requests, aborts>>

\* Orders the slot's capacity counts.
Counted(s) ==
  {row \in rows : SlotOf(row) = s /\ row.status \notin {"cancelled", "rejected", "refunded"}}

HasRoom(c) == Cardinality(Counted(Slot[c])) + TotalQuantity[c] <= Capacity[Slot[c]]

\* The stock the request goes by: /orders/checkout reads the row again under
\* the lock, /orders keeps what it read before.
StockKnown(w) == IF job[w].cart \in SingleItem THEN job[w].seen ELSE stock

Accepts(w) ==
  LET c == job[w].cart IN
  /\ HasRoom(c)
  /\ c \notin SingleItem => Available(c)
  /\ Suffices(c, StockKnown(w))

Locked(w) == job[w].stage = "locking" /\ job[w].locks = Needed(job[w].cart)

TakeStock(w) ==
  LET c == job[w].cart IN
  /\ Locked(w)
  /\ Accepts(w)
  /\ job' = [job EXCEPT
       ![w].stage = "taken",
       ![w].left = [i \in Items |-> IF i \in ItemsOf[c] THEN StockKnown(w)[i] - Quantity[c][i]
                                    ELSE 0]]
  /\ UNCHANGED <<rows, stock, soldOut, moving, moves, requests, aborts>>

\* Variant: a refusal does not roll back.
RefuseHoldingLocks(w) ==
  /\ Locked(w)
  /\ ~Accepts(w)
  /\ job' = [job EXCEPT ![w].stage = "idle"]
  /\ UNCHANGED <<rows, stock, soldOut, moving, moves, requests, aborts>>

Refuse(w) ==
  /\ Locked(w)
  /\ ~Accepts(w)
  /\ job' = [job EXCEPT ![w] = IdleJob]
  /\ UNCHANGED <<rows, stock, soldOut, moving, moves, requests, aborts>>

Commit(w) ==
  LET c == job[w].cart
      left == job[w].left
  IN  /\ job[w].stage = "taken"
      /\ rows' = rows \cup {[request |-> job[w].request, cart |-> c, item |-> i,
                             status |-> "placed", revived |-> FALSE] : i \in ItemsOf[c]}
      /\ stock' = [i \in Items |-> IF i \in ItemsOf[c] THEN left[i] ELSE stock[i]]
      /\ soldOut' = [i \in Items |-> soldOut[i] \/ (i \in ItemsOf[c] /\ left[i] = 0)]
      /\ job' = [job EXCEPT ![w] = IdleJob]
      /\ UNCHANGED <<moving, moves, requests, aborts>>

\* The request dies: its transaction rolls back and its locks are released.
Abort(w) ==
  /\ ~Free(w)
  /\ aborts < MaxAborts
  /\ aborts' = aborts + 1
  /\ job' = [job EXCEPT ![w] = IdleJob]
  /\ UNCHANGED <<rows, stock, soldOut, moving, moves, requests>>

WaitsFor(w, v) == NextRows(w) \cap job[v].locks # {}

\* The database breaks a cycle of waiting requests: one of them fails.
DeadlockVictim(w) ==
  /\ \E v \in Workers \ {w} : WaitsFor(w, v) /\ WaitsFor(v, w)
  /\ job' = [job EXCEPT ![w] = IdleJob]
  /\ UNCHANGED <<rows, stock, soldOut, moving, moves, requests, aborts>>

(***************************************************************************)
(* The world around                                                        *)
(***************************************************************************)

\* The shop, a payment or the timeout moves an order on; an admin cancels any
\* order; the student confirms the delivery of one that is verified.
MayMove(current, new) ==
  \/ StatusTransitionAllowed(current, new)
  \/ new = "cancelled"
  \/ current = "verified" /\ new = "delivered"

\* The handler has read the order and checked it.
ReadOrder(h, row, status) ==
  /\ moving[h] = NoMove
  /\ moves < MaxMoves
  /\ moves' = moves + 1
  /\ row.status # status
  /\ MayMove(row.status, status)
  /\ moving' = [moving EXCEPT ![h] = [row |-> row, status |-> status]]
  /\ UNCHANGED <<rows, stock, soldOut, job, requests, aborts>>

SameOrder(r1, r2) == r1.request = r2.request /\ r1.cart = r2.cart /\ r1.item = r2.item

KitchenStatuses == FoodOrderStatus \ {"cancelled", "rejected", "refund_pending", "refunded"}

\* The handler brings the order back from a status it has not seen.
Revives(h, row) ==
  LET status == moving[h].status IN
  /\ row.status # moving[h].row.status
  /\ \/ row.status \notin KitchenStatuses /\ status \in KitchenStatuses
     \/ row.status \notin ActiveStatuses /\ status \in ActiveStatuses

Moved(h, row) ==
  [row EXCEPT !.status = moving[h].status, !.revived = @ \/ Revives(h, row)]

\* The UPDATE of one order by its id, without a look at its present status.
MoveOrder(h, row) ==
  /\ moving[h] # NoMove
  /\ SameOrder(row, moving[h].row)
  /\ rows' = (rows \ {row}) \cup {Moved(h, row)}
  /\ moving' = [moving EXCEPT ![h] = NoMove]
  /\ UNCHANGED <<stock, soldOut, job, moves, requests, aborts>>

\* update_food_menu_item; its UPDATE waits for a checkout that locks the row.
EditMenuItem(i, level, out) ==
  /\ requests < MaxRequests
  /\ \A w \in Workers : i \notin job[w].locks
  /\ requests' = requests + 1
  /\ stock' = [stock EXCEPT ![i] = level]
  /\ soldOut' = [soldOut EXCEPT ![i] = out]
  /\ UNCHANGED <<rows, job, moving, moves, aborts>>

Serve(w) ==
  (\E r \in NextRows(w) : LockRow(w, r)) \/ TakeStock(w) \/ Refuse(w) \/ Commit(w)

Next ==
  \/ \E w \in Workers :
       \/ \E c \in Carts : AnswerAgain(w, c) \/ Begin(w, c)
       \/ Serve(w)
       \/ Abort(w)
       \/ DeadlockVictim(w)
  \/ \E h \in Handlers, row \in rows :
       (\E status \in StaffTargets : ReadOrder(h, row, status)) \/ MoveOrder(h, row)
  \/ \E i \in Items, level \in StockLevels, out \in BOOLEAN : EditMenuItem(i, level, out)

Spec == Init /\ [][Next]_vars

\* A request that can go on does, and the database breaks deadlocks.
Fairness == \A w \in Workers : WF_vars(Serve(w) \/ DeadlockVictim(w))

LiveSpec == Spec /\ Fairness

(***************************************************************************)
(* Properties                                                              *)
(***************************************************************************)

\* Orders the kitchen prepares, or has prepared, for a slot, apart from those a
\* handler brought back: nothing locks an order against that.
InKitchen(s) == {row \in rows : SlotOf(row) = s /\ row.status \in KitchenStatuses /\ ~row.revived}

\* "Lock the slot row so concurrent checkouts for the same slot serialize before
\* capacity checks" (food.py 1658): no interleaving of checkouts, cancellations,
\* refunds and stale status updates gives a slot more orders to prepare than its
\* max_orders; what exceeds it are orders revived by an update that overlapped a
\* cancellation (food.py 4020-4059).
KitchenWithinCapacity == \A s \in Slots : Cardinality(InKitchen(s)) <= Capacity[s]

\* Orders a step inserts.
NewRows == {row \in rows' : \A old \in rows : old.request # row.request}

\* A cart checked out takes exactly its quantities out of the stock, whatever
\* other carts, single orders and menu edits did between its first look and its
\* commit (the refresh under the lock, food.py 2984-2994).
CheckoutTakesItsStock ==
  [][\A row \in NewRows : row.cart \notin SingleItem =>
       stock'[row.item] + Quantity[row.cart][row.item] = stock[row.item]]_vars

\* README 787, "Cart checkout executes idempotent order placement": a cart sent
\* again under its key is placed once.
OneOrderPerLine ==
  \A r1, r2 \in rows : r1.cart = r2.cart /\ r1.item = r2.item => r1 = r2

\* A student who waits for each answer gets each cart once, whatever requests die.
PatientStudentOrdersOnce == ~Impatient => OneOrderPerLine

\* "Orders are accepted only from a single shop at a time" (food.py 2694): the
\* check runs before the locks, which suffices for a student who waits, but for
\* an order that a stale status update revives after the check.
SingleShopAtATime ==
  ~Impatient => \A r1, r2 \in {row \in rows : ~row.revived /\ row.status \in
                                 {"placed", "verified", "preparing", "ready", "out_for_delivery"}} :
    Student[r1.cart] = Student[r2.cart] => Shop[r1.item] = Shop[r2.item]

\* No request waits for ever for a lock: refusals and failures give theirs up.
RequestEnds == \A w \in Workers : ~Free(w) ~> Free(w)
=============================================================================
