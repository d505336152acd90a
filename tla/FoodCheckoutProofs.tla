------------------------- MODULE FoodCheckoutProofs -------------------------
(***************************************************************************)
(* Placing orders, for every menu, every set of carts and workers and      *)
(* every capacity.                                                         *)
(*                                                                         *)
(* Two arguments.  Under the locks: a request that has taken its stock     *)
(* holds the row of its slot and of its items, so that nobody else takes   *)
(* room or stock of theirs before it commits.  Without the locks: a        *)
(* student who waits has one request at a time, so that what it found      *)
(* about the student's orders before the locks is still true.              *)
(***************************************************************************)
EXTENDS FoodCheckout, FiniteSetTheorems, TLAPS

LEMMA Constants ==
  /\ Carts # {} /\ IsFiniteSet(Items)
  /\ Slot \in [Carts -> Slots]
  /\ Quantity \in [Carts -> [Items -> Nat]]
  /\ Capacity \in [Slots -> Nat]
  /\ StockLevels \subseteq Nat
  /\ StaffTargets \subseteq FoodOrderStatus
  /\ MaxRequests \in Nat /\ MaxMoves \in Nat /\ MaxAborts \in Nat
  /\ TotalQuantity \in [Carts -> Nat]
  /\ \A c \in Carts : Cardinality(ItemsOf[c]) <= TotalQuantity[c]
  /\ \A c \in Carts : \A i, k \in ItemsOf[c] : Shop[i] = Shop[k]
  BY CheckoutAssumption

LEMMA ItemsOfCart == \A c \in Carts : ItemsOf[c] \subseteq Items /\ IsFiniteSet(ItemsOf[c])
<1>1. \A c \in Carts : ItemsOf[c] \subseteq Items
  BY DEF ItemsOf
<1>2. QED
  BY <1>1, Constants, FS_Subset

LEMMA IdleTyped == IdleJob \in Job /\ IdleJob.stage = "idle" /\ IdleJob.locks = {}
<1>1. (CHOOSE c \in Carts : TRUE) \in Carts
  BY Constants
<1>2. NoStock \in [Items -> Nat]
  BY DEF NoStock
<1>3. QED
  BY <1>1, <1>2, Constants DEF IdleJob, Job

(***************************************************************************)
(* Types                                                                   *)
(***************************************************************************)

\* What a step does to one worker's job: the other jobs are left alone.
LEMMA JobOf ==
  ASSUME TypeOK, NEW w \in Workers, NEW j \in Job, job' = [job EXCEPT ![w] = j]
  PROVE  /\ job' \in [Workers -> Job]
         /\ job'[w] = j /\ \A v \in Workers \ {w} : job'[v] = job[v]
  BY DEF TypeOK

\* The job that has looked at the cart.
BeginJob(c) == [IdleJob EXCEPT !.stage = "locking", !.cart = c, !.request = requests', !.seen = stock]

LEMMA BeginTyped ==
  ASSUME TypeOK, NEW w \in Workers, NEW c \in Carts, Begin(w, c)
  PROVE  /\ BeginJob(c) \in Job /\ job' = [job EXCEPT ![w] = BeginJob(c)]
         /\ BeginJob(c).stage = "locking" /\ BeginJob(c).cart = c /\ BeginJob(c).locks = {}
         /\ requests' \in 0..MaxRequests /\ UNCHANGED <<rows, stock, soldOut, moving, moves, aborts>>
<1>1. requests' = requests + 1 /\ requests' \in 0..MaxRequests /\ requests' \in 1..MaxRequests
  BY Constants DEF Begin, Receive, TypeOK
<1>2. IdleJob \in Job /\ IdleJob.locks = {}
  BY IdleTyped
<1>3. BeginJob(c) \in Job /\ BeginJob(c).stage = "locking" /\ BeginJob(c).cart = c /\ BeginJob(c).locks = {}
  BY <1>1, <1>2 DEF BeginJob, Job, TypeOK
<1>4. QED
  BY <1>1, <1>3 DEF Begin, BeginJob

\* The job that has locked r as well.
LEMMA LockTyped ==
  ASSUME TypeOK, NEW w \in Workers, NEW r \in NextRows(w), LockRow(w, r)
  PROVE  /\ job[w].stage = "locking" /\ r \in Needed(job[w].cart)
         /\ \A v \in Workers : r \notin job[v].locks
         /\ job' \in [Workers -> Job] /\ \A v \in Workers \ {w} : job'[v] = job[v]
         /\ job'[w].stage = "locking" /\ job'[w].locks = job[w].locks \cup {r}
         /\ job'[w].cart = job[w].cart /\ job'[w].request = job[w].request
         /\ UNCHANGED <<rows, stock, soldOut, moving, moves, requests, aborts>>
<1>1. job[w].stage = "locking" /\ r \in Needed(job[w].cart)
  BY DEF NextRows
<1>2. job[w] \in Job /\ job[w].cart \in Carts
  BY DEF TypeOK, Job
<1>3. r \in Lockable
  BY <1>1, <1>2, Constants, ItemsOfCart DEF Needed, Lockable
<1> DEFINE j == [job[w] EXCEPT !.locks = @ \cup {r}]
<1>4. /\ j \in Job /\ j.stage = "locking" /\ j.locks = job[w].locks \cup {r}
      /\ j.cart = job[w].cart /\ j.request = job[w].request
  BY <1>1, <1>2, <1>3 DEF Job
<1>5. job' = [job EXCEPT ![w] = j]
  BY DEF LockRow
<1> HIDE DEF j
<1>6. QED
  BY <1>1, <1>4, <1>5, JobOf DEF LockRow

\* What is left of the stock a request goes by.
LeftOf(w) ==
  [i \in Items |-> IF i \in ItemsOf[job[w].cart]
                   THEN StockKnown(w)[i] - Quantity[job[w].cart][i] ELSE 0]

LEMMA TakeTyped ==
  ASSUME TypeOK, NEW w \in Workers, TakeStock(w)
  PROVE  /\ Locked(w) /\ Accepts(w)
         /\ StockKnown(w) \in [Items -> Nat] /\ LeftOf(w) \in [Items -> Nat]
         /\ job' \in [Workers -> Job] /\ \A v \in Workers \ {w} : job'[v] = job[v]
         /\ job'[w].stage = "taken" /\ job'[w].left = LeftOf(w) /\ job'[w].locks = job[w].locks
         /\ job'[w].cart = job[w].cart /\ job'[w].request = job[w].request
         /\ UNCHANGED <<rows, stock, soldOut, moving, moves, requests, aborts>>
<1>1. job[w] \in Job /\ job[w].cart \in Carts
  BY DEF TypeOK, Job
<1>2. StockKnown(w) \in [Items -> Nat]
  BY <1>1 DEF StockKnown, TypeOK, Job
<1>3. Locked(w) /\ Accepts(w)
  BY DEF TakeStock
<1>4. LeftOf(w) \in [Items -> Nat]
  <2>1. \A i \in ItemsOf[job[w].cart] : StockKnown(w)[i] >= Quantity[job[w].cart][i]
    BY <1>3 DEF Accepts, Suffices
  <2>2. \A i \in ItemsOf[job[w].cart] : StockKnown(w)[i] - Quantity[job[w].cart][i] \in Nat
    BY <2>1, <1>1, <1>2, Constants, ItemsOfCart
  <2>3. QED
    BY <2>2 DEF LeftOf
<1> DEFINE j == [job[w] EXCEPT !.stage = "taken", !.left = LeftOf(w)]
<1>5. /\ j \in Job /\ j.stage = "taken" /\ j.left = LeftOf(w) /\ j.locks = job[w].locks
      /\ j.cart = job[w].cart /\ j.request = job[w].request
  BY <1>1, <1>4 DEF Job
<1>6. job' = [job EXCEPT ![w] = j]
  BY DEF TakeStock, LeftOf
<1> HIDE DEF j
<1>7. QED
  BY <1>2, <1>3, <1>4, <1>5, <1>6, JobOf DEF TakeStock

\* A request that ends without a commit.
RolledBack(w) ==
  /\ job' = [job EXCEPT ![w] = IdleJob]
  /\ aborts' \in 0..MaxAborts
  /\ UNCHANGED <<rows, stock, soldOut, moving, moves, requests>>

LEMMA EndsRollBack ==
  ASSUME TypeOK, NEW w \in Workers, Refuse(w) \/ Abort(w) \/ DeadlockVictim(w)
  PROVE  RolledBack(w)
  BY Constants DEF Refuse, Abort, DeadlockVictim, RolledBack, TypeOK

\* The orders a request inserts.
Inserted(w) ==
  {[request |-> job[w].request, cart |-> job[w].cart, item |-> i, status |-> "placed", revived |-> FALSE] :
     i \in ItemsOf[job[w].cart]}

\* What a commit writes.
LEMMA CommitTyped ==
  ASSUME TypeOK, NEW w \in Workers, Commit(w)
  PROVE  /\ job[w].stage = "taken" /\ job[w].cart \in Carts /\ job[w].left \in [Items -> Nat]
         /\ rows' = rows \cup Inserted(w)
         /\ stock' = [i \in Items |-> IF i \in ItemsOf[job[w].cart] THEN job[w].left[i] ELSE stock[i]]
         /\ stock' \in [Items -> Nat] /\ soldOut' \in [Items -> BOOLEAN]
         /\ job' \in [Workers -> Job] /\ job'[w] = IdleJob /\ \A v \in Workers \ {w} : job'[v] = job[v]
         /\ UNCHANGED <<moving, moves, requests, aborts>>
<1>1. job[w] \in Job /\ job[w].cart \in Carts /\ job[w].left \in [Items -> Nat]
  BY DEF TypeOK, Job
<1>2. job' = [job EXCEPT ![w] = IdleJob]
  BY DEF Commit
<1>3. rows' = rows \cup Inserted(w)
  BY DEF Commit, Inserted
<1>4. stock' = [i \in Items |-> IF i \in ItemsOf[job[w].cart] THEN job[w].left[i] ELSE stock[i]]
  BY DEF Commit
<1>5. stock' \in [Items -> Nat]
  BY <1>1, <1>4 DEF TypeOK
<1>6. soldOut' \in [Items -> BOOLEAN]
  BY DEF Commit
<1>7. QED
  BY <1>1, <1>2, <1>3, <1>4, <1>5, <1>6, IdleTyped, JobOf DEF Commit

\* A request under way has a number.
Numbered == \A w \in Workers : ~Free(w) => job[w].request \in 1..MaxRequests

\* A handler has read a row and checked the transition from it.
MovesChecked ==
  \A h \in Handlers : moving[h] # NoMove => MayMove(moving[h].row.status, moving[h].status)

Typed == TypeOK /\ Numbered /\ MovesChecked

\* Statuses of orders the kitchen need not prepare any more.
OutOfKitchen == {"cancelled", "rejected", "refunded", "refund_pending"}

\* An order that has left the kitchen does not come back (StatusTransition).
LEMMA LeftForGood ==
  ASSUME NEW current \in OutOfKitchen, NEW new, MayMove(current, new)
  PROVE  new \in OutOfKitchen
<1>1. CASE current = "cancelled"
  BY <1>1 DEF OutOfKitchen, MayMove, StatusTransitionAllowed, StatusTransition
<1>2. CASE current = "rejected"
  BY <1>2 DEF OutOfKitchen, MayMove, StatusTransitionAllowed, StatusTransition
<1>3. CASE current = "refunded"
  BY <1>3 DEF OutOfKitchen, MayMove, StatusTransitionAllowed, StatusTransition
<1>4. CASE current = "refund_pending"
  BY <1>4 DEF OutOfKitchen, MayMove, StatusTransitionAllowed, StatusTransition
<1>5. QED
  BY <1>1, <1>2, <1>3, <1>4 DEF OutOfKitchen

\* An order that is no longer active does not become so again (StatusTransition).
LEMMA InactiveForGood ==
  ASSUME NEW current \in FoodOrderStatus, NEW new \in ActiveStatuses,
         MayMove(current, new)
  PROVE  current \in ActiveStatuses
<1>1. new # "cancelled"
  BY DEF ActiveStatuses
<1>2. CASE current \in {"delivered", "collected", "refunded", "refund_pending"}
  BY <1>1, <1>2 DEF ActiveStatuses, MayMove, StatusTransitionAllowed, StatusTransition
<1>3. CASE current \in {"rejected", "cancelled"}
  BY <1>1, <1>3 DEF ActiveStatuses, MayMove, StatusTransitionAllowed, StatusTransition
<1>4. QED
  BY <1>2, <1>3 DEF FoodOrderStatus, ActiveStatuses

\* What a handler makes of the order it moves: it comes back to the kitchen, or
\* among the active orders, only if it is marked as revived.
LEMMA MovedRow ==
  ASSUME Typed, NEW h \in Handlers, NEW row \in rows, MoveOrder(h, row)
  PROVE  /\ Moved(h, row) \in Row
         /\ Moved(h, row).request = row.request /\ Moved(h, row).cart = row.cart
         /\ Moved(h, row).item = row.item
         /\ ~Moved(h, row).revived =>
              /\ ~row.revived
              /\ Moved(h, row).status \in KitchenStatuses => row.status \in KitchenStatuses
              /\ Moved(h, row).status \in ActiveStatuses => row.status \in ActiveStatuses
<1> DEFINE status == moving[h].status
           old == moving[h].row.status
           revived == row.revived \/ Revives(h, row)
<1>1. row \in Row /\ moving[h] \in Move /\ moving[h] # NoMove
  BY DEF MoveOrder, Typed, TypeOK
<1>2. old \in FoodOrderStatus /\ status \in FoodOrderStatus /\ row.status \in FoodOrderStatus
  BY <1>1 DEF Move, Row
<1>3. MayMove(old, status)
  BY <1>1 DEF Typed, MovesChecked
<1>4. old \notin KitchenStatuses => status \notin KitchenStatuses
  BY <1>2, <1>3, LeftForGood DEF KitchenStatuses, OutOfKitchen
<1>5. status \in ActiveStatuses => old \in ActiveStatuses
  BY <1>2, <1>3, InactiveForGood
<1>6. revived \in BOOLEAN
  BY <1>1 DEF Row
<1>7. ~revived => /\ ~row.revived
                  /\ status \in KitchenStatuses => row.status \in KitchenStatuses
                  /\ status \in ActiveStatuses => row.status \in ActiveStatuses
  BY <1>4, <1>5 DEF Revives
<1> HIDE DEF revived, status
<1>8. Moved(h, row) = [row EXCEPT !.status = status, !.revived = revived]
  BY DEF Moved, status, revived
<1>9. /\ Moved(h, row) \in Row /\ Moved(h, row).status = status
      /\ Moved(h, row).revived = revived
      /\ Moved(h, row).request = row.request /\ Moved(h, row).cart = row.cart
      /\ Moved(h, row).item = row.item
  BY <1>1, <1>2, <1>6, <1>8 DEF Row, status
<1>10. QED
  BY <1>7, <1>9

LEMMA InitTyped == Init => Typed
<1> SUFFICES ASSUME Init PROVE Typed
  OBVIOUS
<1>1. stock \in [Items -> Nat]
  BY Constants DEF Init
<1>2. job \in [Workers -> Job] /\ \A w \in Workers : Free(w)
  BY IdleTyped DEF Init, Free
<1>3. TypeOK
  BY <1>1, <1>2, Constants DEF Init, TypeOK
<1>4. MovesChecked
  BY DEF Init, MovesChecked
<1>5. QED
  BY <1>2, <1>3, <1>4 DEF Typed, Numbered

LEMMA StepTyped == Typed /\ [Next]_vars => Typed'
<1> SUFFICES ASSUME Typed, [Next]_vars PROVE Typed'
  OBVIOUS
<1> USE DEF Typed, Numbered, MovesChecked, Free
<1>1. ASSUME NEW w \in Workers, NEW c \in Carts, AnswerAgain(w, c) PROVE Typed'
  BY <1>1, Constants DEF AnswerAgain, Receive, TypeOK
<1>2. ASSUME NEW w \in Workers, NEW c \in Carts, Begin(w, c) PROVE Typed'
  <2>1. job' \in [Workers -> Job] /\ job'[w] = BeginJob(c) /\ \A v \in Workers \ {w} : job'[v] = job[v]
    BY <1>2, BeginTyped, JobOf
  <2>2. BeginJob(c).request \in 1..MaxRequests
    BY <1>2, Constants DEF Begin, Receive, BeginJob, IdleJob, TypeOK
  <2>3. TypeOK'
    BY <1>2, <2>1, BeginTyped DEF TypeOK
  <2>4. UNCHANGED moving
    BY <1>2, BeginTyped
  <2>5. MovesChecked'
    BY <2>4
  <2>6. Numbered'
    BY <2>1, <2>2
  <2>7. QED
    BY <2>3, <2>5, <2>6
<1>3. ASSUME NEW w \in Workers, NEW r \in NextRows(w), LockRow(w, r) PROVE Typed'
  BY <1>3, LockTyped DEF TypeOK
<1>4. ASSUME NEW w \in Workers, TakeStock(w) PROVE Typed'
  BY <1>4, TakeTyped DEF TypeOK, Locked
<1>5. ASSUME NEW w \in Workers, Refuse(w) \/ Abort(w) \/ DeadlockVictim(w) PROVE Typed'
  <2>1. RolledBack(w)
    BY <1>5, EndsRollBack
  <2>2. job' \in [Workers -> Job] /\ job'[w] = IdleJob /\ \A v \in Workers \ {w} : job'[v] = job[v]
    BY <2>1, IdleTyped, JobOf DEF RolledBack
  <2>3. QED
    BY <2>1, <2>2, IdleTyped DEF RolledBack, TypeOK
<1>6. ASSUME NEW w \in Workers, Commit(w) PROVE Typed'
  <2>1. \A i \in Items : [request |-> job[w].request, cart |-> job[w].cart, item |-> i, status |-> "placed", revived |-> FALSE] \in Row
    BY <1>6, CommitTyped DEF Row, FoodOrderStatus
  <2>2. Inserted(w) \subseteq Row
    BY <2>1, <1>6, CommitTyped, ItemsOfCart DEF Inserted
  <2>3. QED
    BY <1>6, <2>2, CommitTyped, IdleTyped DEF TypeOK
<1>7. ASSUME NEW h \in Handlers, NEW row \in rows, NEW status \in StaffTargets, ReadOrder(h, row, status)
      PROVE  Typed'
  <2>1. [row |-> row, status |-> status] \in Move
    BY Constants DEF Move, TypeOK
  <2>2. moving' \in [Handlers -> Move \cup {NoMove}] /\ moves' \in 0..MaxMoves
    BY <1>7, <2>1, Constants DEF ReadOrder, TypeOK
  <2>3. MovesChecked'
    BY <1>7 DEF ReadOrder, TypeOK
  <2>4. QED
    BY <1>7, <2>2, <2>3 DEF ReadOrder, TypeOK
<1>8. ASSUME NEW h \in Handlers, NEW row \in rows, MoveOrder(h, row) PROVE Typed'
  <2>1. Moved(h, row) \in Row
    BY <1>8, MovedRow
  <2>2. rows' \subseteq Row
    BY <1>8, <2>1 DEF MoveOrder, TypeOK
  <2>3. moving' \in [Handlers -> Move \cup {NoMove}] /\ MovesChecked'
    BY <1>8 DEF MoveOrder, TypeOK
  <2>4. QED
    BY <1>8, <2>2, <2>3 DEF MoveOrder, TypeOK
<1>9. ASSUME NEW i \in Items, NEW level \in StockLevels, NEW out \in BOOLEAN, EditMenuItem(i, level, out) PROVE Typed'
  BY <1>9, Constants DEF EditMenuItem, TypeOK
<1>10. CASE UNCHANGED vars
  BY <1>10 DEF vars, TypeOK
<1>11. QED
  BY <1>1, <1>2, <1>3, <1>4, <1>5, <1>6, <1>7, <1>9, <1>10, <1>8 DEF Next, Serve

\* The variables keep their types (food_orders, food_menu_items, the requests).
THEOREM TypeCorrect == Spec => []TypeOK
<1>1. Typed => TypeOK
  BY DEF Typed
<1>2. QED
  BY InitTyped, StepTyped, <1>1, PTL DEF Spec

(***************************************************************************)
(* Under the locks                                                         *)
(***************************************************************************)

\* No row is locked twice; a request that has taken its stock holds all its rows.
LocksHeld ==
  /\ \A v, w \in Workers : v # w => job[v].locks \cap job[w].locks = {}
  /\ \A w \in Workers : job[w].stage = "taken" => job[w].locks = Needed(job[w].cart)

\* The stock a checkout has read under the lock is still there.
StockKept ==
  \A w \in Workers : job[w].stage = "taken" /\ job[w].cart \notin SingleItem =>
    \A i \in ItemsOf[job[w].cart] : job[w].left[i] + Quantity[job[w].cart][i] = stock[i]

\* The room it has found is still there.
RoomKept ==
  /\ IsFiniteSet(rows)
  /\ \A w \in Workers, s \in Slots : job[w].stage = "taken" /\ Slot[job[w].cart] = s =>
       Cardinality(InKitchen(s)) + TotalQuantity[job[w].cart] <= Capacity[s]

LockInv == Typed /\ LocksHeld /\ StockKept
KitchenInv == RoomKept /\ KitchenWithinCapacity

LEMMA InitLocks == Init => LockInv
<1> SUFFICES ASSUME Init PROVE LockInv
  OBVIOUS
<1>1. \A w \in Workers : job[w].stage = "idle" /\ job[w].locks = {}
  BY IdleTyped DEF Init
<1>2. QED
  BY <1>1, InitTyped DEF LockInv, LocksHeld, StockKept

\* Two requests that have both taken their stock are for different slots and items.
LEMMA TakenApart ==
  ASSUME LockInv, NEW v \in Workers, NEW w \in Workers, v # w,
         job[v].stage = "taken", job[w].stage = "taken"
  PROVE  /\ Slot[job[v].cart] # Slot[job[w].cart]
         /\ ItemsOf[job[v].cart] \cap ItemsOf[job[w].cart] = {}
  BY DEF LockInv, LocksHeld, Needed

LEMMA StepLocks == LockInv /\ [Next]_vars => LockInv'
<1> SUFFICES ASSUME LockInv, [Next]_vars PROVE LockInv'
  OBVIOUS
<1>0. Typed' /\ TypeOK
  BY StepTyped DEF LockInv, Typed
<1>1. ASSUME NEW w \in Workers, NEW c \in Carts, AnswerAgain(w, c) PROVE LockInv'
  BY <1>0, <1>1 DEF AnswerAgain, LockInv, LocksHeld, StockKept
<1>2. ASSUME NEW w \in Workers, NEW c \in Carts, Begin(w, c) PROVE LockInv'
  <2>1. job'[w] = BeginJob(c) /\ \A v \in Workers \ {w} : job'[v] = job[v]
    BY <1>0, <1>2, BeginTyped, JobOf
  <2>2. LocksHeld'
    BY <2>1, <1>0, <1>2, BeginTyped DEF LockInv, LocksHeld
  <2>3. StockKept'
    BY <2>1, <1>0, <1>2, BeginTyped DEF LockInv, StockKept
  <2>4. QED
    BY <1>0, <2>2, <2>3 DEF LockInv
<1>3. ASSUME NEW w \in Workers, NEW r \in NextRows(w), LockRow(w, r) PROVE LockInv'
  <2>2. LocksHeld'
    BY <1>0, <1>3, LockTyped DEF LockInv, LocksHeld
  <2>3. StockKept'
    BY <1>0, <1>3, LockTyped DEF LockInv, StockKept
  <2>4. QED
    BY <1>0, <2>2, <2>3 DEF LockInv
<1>4. ASSUME NEW w \in Workers, TakeStock(w) PROVE LockInv'
  <2>1. job[w] \in Job /\ job[w].cart \in Carts
    BY <1>0 DEF TypeOK, Job
  <2>3. LocksHeld'
    BY <1>0, <1>4, TakeTyped DEF LockInv, LocksHeld, Locked, Needed
  <2>4. ASSUME job[w].cart \notin SingleItem
        PROVE  \A i \in ItemsOf[job[w].cart] : LeftOf(w)[i] + Quantity[job[w].cart][i] = stock[i]
    <3>1. StockKnown(w) = stock
      BY <2>4 DEF StockKnown
    <3>2. \A i \in ItemsOf[job[w].cart] : LeftOf(w)[i] = stock[i] - Quantity[job[w].cart][i]
      BY <3>1, <2>1, ItemsOfCart DEF LeftOf
    <3>3. \A i \in ItemsOf[job[w].cart] : stock[i] \in Nat /\ Quantity[job[w].cart][i] \in Nat
      BY <2>1, <1>0, ItemsOfCart, Constants DEF TypeOK
    <3>4. QED
      BY <3>2, <3>3
  <2>5. StockKept'
    BY <2>4, <1>0, <1>4, TakeTyped DEF LockInv, StockKept
  <2>6. QED
    BY <1>0, <2>3, <2>5 DEF LockInv
<1>5. ASSUME NEW w \in Workers, Refuse(w) \/ Abort(w) \/ DeadlockVictim(w) PROVE LockInv'
  <2>1. job'[w] = IdleJob /\ (\A v \in Workers \ {w} : job'[v] = job[v]) /\ stock' = stock
    BY <1>0, <1>5, EndsRollBack, IdleTyped, JobOf DEF RolledBack
  <2>2. LocksHeld'
    BY <2>1, IdleTyped DEF LockInv, LocksHeld
  <2>3. StockKept'
    BY <2>1, IdleTyped DEF LockInv, StockKept
  <2>4. QED
    BY <1>0, <2>2, <2>3 DEF LockInv
<1>6. ASSUME NEW w \in Workers, Commit(w) PROVE LockInv'
  <2>1. LocksHeld'
    BY <1>0, <1>6, CommitTyped, IdleTyped DEF LockInv, LocksHeld
  <2>2. ASSUME NEW v \in Workers, v # w, job[v].stage = "taken", NEW i \in ItemsOf[job[v].cart]
        PROVE  stock'[i] = stock[i]
    <3>1. i \notin ItemsOf[job[w].cart]
      BY <2>2, <1>0, <1>6, CommitTyped, TakenApart
    <3>2. i \in Items
      BY <2>2, <1>0, ItemsOfCart DEF TypeOK, Job
    <3>3. QED
      BY <3>1, <3>2, <1>0, <1>6, CommitTyped
  <2>3. StockKept'
    BY <2>2, <1>0, <1>6, CommitTyped, IdleTyped DEF LockInv, StockKept
  <2>4. QED
    BY <1>0, <2>1, <2>3 DEF LockInv
<1>7. ASSUME NEW h \in Handlers, NEW row \in rows,
             (\E status \in StaffTargets : ReadOrder(h, row, status)) \/ MoveOrder(h, row)
      PROVE  LockInv'
  BY <1>0, <1>7 DEF ReadOrder, MoveOrder, LockInv, LocksHeld, StockKept
<1>8. ASSUME NEW i \in Items, NEW level \in StockLevels, NEW out \in BOOLEAN, EditMenuItem(i, level, out) PROVE LockInv'
  <2>1. \A k \in Items \ {i} : stock'[k] = stock[k]
    BY <1>0, <1>8 DEF EditMenuItem, TypeOK
  <2>2. \A w \in Workers : job[w].stage = "taken" => i \notin ItemsOf[job[w].cart]
    BY <1>8 DEF EditMenuItem, LockInv, LocksHeld, Needed
  <2>3. \A w \in Workers : ItemsOf[job[w].cart] \subseteq Items
    BY <1>0, ItemsOfCart DEF TypeOK, Job
  <2>4. StockKept'
    BY <2>1, <2>2, <2>3, <1>8 DEF EditMenuItem, LockInv, StockKept
  <2>5. QED
    BY <1>0, <2>4, <1>8 DEF EditMenuItem, LockInv, LocksHeld
<1>9. CASE UNCHANGED vars
  BY <1>0, <1>9 DEF vars, LockInv, LocksHeld, StockKept
<1>10. QED
  BY <1>1, <1>2, <1>3, <1>4, <1>5, <1>6, <1>7, <1>8, <1>9 DEF Next, Serve

\* A checked-out cart takes exactly its quantities out of the stock: what it read under
\* the lock is what its commit subtracts from (create_food_orders_checkout).
THEOREM CheckoutTakesItsStockAlways == Spec => CheckoutTakesItsStock
<1> DEFINE Exact == \A row \in NewRows : row.cart \notin SingleItem =>
                      stock'[row.item] + Quantity[row.cart][row.item] = stock[row.item]
<1>1. LockInv /\ [Next]_vars => [Exact]_vars
  <2> SUFFICES ASSUME LockInv, [Next]_vars, NEW row \in NewRows, row.cart \notin SingleItem
               PROVE  stock'[row.item] + Quantity[row.cart][row.item] = stock[row.item]
    OBVIOUS
  <2>0. row \in rows' /\ \A old \in rows : old.request # row.request
    BY DEF NewRows
  <2>1. ASSUME NEW w \in Workers, Commit(w)
        PROVE  stock'[row.item] + Quantity[row.cart][row.item] = stock[row.item]
    <3>1. row \in Inserted(w)
      BY <2>0, <2>1, CommitTyped DEF LockInv, Typed
    <3>2. row.cart = job[w].cart /\ row.item \in ItemsOf[job[w].cart]
      BY <3>1 DEF Inserted
    <3>3. stock'[row.item] = job[w].left[row.item]
      BY <2>1, <3>2, CommitTyped, ItemsOfCart DEF LockInv, Typed
    <3>4. QED
      BY <2>1, <3>2, <3>3, CommitTyped DEF LockInv, Typed, StockKept
  <2>2. ASSUME NEW h \in Handlers, NEW old \in rows, MoveOrder(h, old) PROVE FALSE
    <3>1. Moved(h, old).request = old.request
      BY <2>2, MovedRow DEF LockInv
    <3>2. QED
      BY <2>0, <2>2, <3>1 DEF MoveOrder
  <2>3. ASSUME rows' = rows PROVE FALSE
    BY <2>0, <2>3
  <2>4. QED
    BY <2>1, <2>2, <2>3 DEF Next, Serve, AnswerAgain, Begin, LockRow, TakeStock, Refuse, Abort,
                            DeadlockVictim, ReadOrder, EditMenuItem, vars
<1>2. QED
  BY <1>1, InitLocks, StepLocks, PTL DEF Spec, CheckoutTakesItsStock

LEMMA KitchenOf ==
  \A s : InKitchen(s) =
    {row \in rows : SlotOf(row) = s /\ row.status \in KitchenStatuses /\ ~row.revived}
  BY DEF InKitchen

LEMMA KitchenFinite == IsFiniteSet(rows) => \A s : IsFiniteSet(InKitchen(s)) /\ Cardinality(InKitchen(s)) \in Nat
  BY KitchenOf, FS_Subset, FS_CardinalityType

\* Moving an order on adds nothing to what a kitchen prepares.
LEMMA MovesAddNothing ==
  ASSUME Typed, IsFiniteSet(rows), NEW h \in Handlers, NEW row \in rows, MoveOrder(h, row), NEW s
  PROVE  IsFiniteSet(rows') /\ Cardinality(InKitchen(s)') <= Cardinality(InKitchen(s))
<1> DEFINE new == Moved(h, row)
<1>1. rows' = (rows \ {row}) \cup {new}
  BY DEF MoveOrder
<1>2. SlotOf(new) = SlotOf(row)
  BY MovedRow DEF SlotOf
<1>3. new.status \in KitchenStatuses /\ ~new.revived => row.status \in KitchenStatuses /\ ~row.revived
  BY MovedRow
<1> HIDE DEF new
<1>4. IsFiniteSet(rows')
  BY <1>1, FS_AddElement, FS_RemoveElement
<1>5. IsFiniteSet(InKitchen(s)) /\ Cardinality(InKitchen(s)) \in Nat
  BY KitchenFinite
<1>6. InKitchen(s)' = {r \in rows' : SlotOf(r) = s /\ r.status \in KitchenStatuses /\ ~r.revived}
  BY DEF InKitchen, SlotOf
<1>7. CASE row \in InKitchen(s)
  <2>1. InKitchen(s)' \subseteq (InKitchen(s) \ {row}) \cup {new}
    BY <1>1, <1>6, KitchenOf
  <2>2. IsFiniteSet(InKitchen(s) \ {row}) /\ Cardinality(InKitchen(s) \ {row}) = Cardinality(InKitchen(s)) - 1
    BY <1>5, <1>7, FS_RemoveElement
  <2>3. /\ IsFiniteSet((InKitchen(s) \ {row}) \cup {new})
        /\ Cardinality((InKitchen(s) \ {row}) \cup {new}) <= Cardinality(InKitchen(s))
    <3> DEFINE others == InKitchen(s) \ {row}
    <3>1. IsFiniteSet(others \cup {new})
          /\ Cardinality(others \cup {new}) = IF new \in others THEN Cardinality(others) ELSE Cardinality(others) + 1
      <4> HIDE DEF others
      <4>1. IsFiniteSet(others)
        BY <2>2 DEF others
      <4>2. QED
        BY <4>1, FS_AddElement
    <3>2. QED
      BY <1>5, <2>2, <3>1
  <2>4. /\ Cardinality(InKitchen(s)') <= Cardinality((InKitchen(s) \ {row}) \cup {new})
        /\ Cardinality(InKitchen(s)') \in Nat /\ Cardinality((InKitchen(s) \ {row}) \cup {new}) \in Nat
    BY <2>1, <2>3, FS_Subset, FS_CardinalityType
  <2>5. QED
    BY <1>4, <1>5, <2>3, <2>4
<1>8. CASE row \notin InKitchen(s)
  <2>1. InKitchen(s)' \subseteq InKitchen(s)
    BY <1>1, <1>2, <1>3, <1>6, <1>8, KitchenOf
  <2>2. QED
    BY <1>4, <1>5, <2>1, FS_Subset
<1>9. QED
  BY <1>7, <1>8

\* A request inserts no more orders than its cart has portions.
LEMMA InsertedBounded ==
  ASSUME NEW w \in Workers, job[w].cart \in Carts
  PROVE  IsFiniteSet(Inserted(w)) /\ Cardinality(Inserted(w)) <= TotalQuantity[job[w].cart]
<1> DEFINE c == job[w].cart
           line == [i \in ItemsOf[c] |-> [request |-> job[w].request, cart |-> c, item |-> i, status |-> "placed", revived |-> FALSE]]
<1>1. line \in Surjection(ItemsOf[c], Inserted(w))
  BY DEF Surjection, Inserted
<1>2. IsFiniteSet(ItemsOf[c]) /\ Cardinality(ItemsOf[c]) <= TotalQuantity[c] /\ TotalQuantity[c] \in Nat
  BY Constants, ItemsOfCart
<1>3. IsFiniteSet(Inserted(w)) /\ Cardinality(Inserted(w)) <= Cardinality(ItemsOf[c])
  BY <1>1, <1>2, FS_Surjection
<1>4. QED
  BY <1>2, <1>3, FS_CardinalityType

LEMMA InitKitchen == Init => KitchenInv
<1> SUFFICES ASSUME Init PROVE KitchenInv
  OBVIOUS
<1>1. rows = {} /\ \A w \in Workers : job[w].stage = "idle"
  BY IdleTyped DEF Init
<1>2. \A s : InKitchen(s) = {}
  BY <1>1, KitchenOf
<1>3. \A s \in Slots : Cardinality(InKitchen(s)) <= Capacity[s]
  <2>1. Cardinality({}) = 0
    BY FS_EmptySet
  <2>2. \A s \in Slots : Capacity[s] >= 0
    BY Constants
  <2>3. QED
    BY <1>2, <2>1, <2>2, SMT
<1>4. QED
  BY <1>1, <1>3, FS_EmptySet DEF KitchenInv, RoomKept, KitchenWithinCapacity

\* A step that gives no slot more orders to prepare and lets no request take room.
LEMMA NoMoreOrders ==
  ASSUME Typed, KitchenInv, IsFiniteSet(rows'),
         \A s \in Slots : Cardinality(InKitchen(s)') <= Cardinality(InKitchen(s)),
         \A w \in Workers : job'[w].stage = "taken" => job[w].stage = "taken" /\ job'[w].cart = job[w].cart
  PROVE  KitchenInv'
<1>1. \A s \in Slots : /\ Cardinality(InKitchen(s)) \in Nat /\ Cardinality(InKitchen(s)') \in Nat
                       /\ Capacity[s] \in Nat
  <2>1. \A s : IsFiniteSet(InKitchen(s)')
    BY FS_Subset DEF InKitchen
  <2>2. QED
    BY <2>1, KitchenFinite, FS_CardinalityType, Constants DEF KitchenInv, RoomKept
<1>2. \A w \in Workers : job[w].cart \in Carts /\ Slot[job[w].cart] \in Slots /\ TotalQuantity[job[w].cart] \in Nat
  BY Constants DEF Typed, TypeOK, Job
<1>3. KitchenWithinCapacity'
  BY <1>1 DEF KitchenInv, KitchenWithinCapacity
<1>4. ASSUME NEW w \in Workers, NEW s \in Slots, job'[w].stage = "taken", Slot[job'[w].cart] = s
      PROVE  Cardinality(InKitchen(s)') + TotalQuantity[job'[w].cart] <= Capacity[s]
  <2>1. job[w].stage = "taken" /\ job'[w].cart = job[w].cart
    BY <1>4
  <2>2. Cardinality(InKitchen(s)) + TotalQuantity[job[w].cart] <= Capacity[s]
    BY <1>4, <2>1 DEF KitchenInv, RoomKept
  <2>3. QED
    BY <1>1, <1>2, <2>1, <2>2
<1>5. RoomKept'
  BY <1>4 DEF RoomKept
<1>6. QED
  BY <1>3, <1>5 DEF KitchenInv

LEMMA StepKitchen == LockInv /\ KitchenInv /\ [Next]_vars => KitchenInv'
<1> SUFFICES ASSUME LockInv, KitchenInv, [Next]_vars PROVE KitchenInv'
  OBVIOUS
<1>0. Typed /\ TypeOK /\ IsFiniteSet(rows) /\ \A s : Cardinality(InKitchen(s)) \in Nat
  BY KitchenFinite DEF LockInv, Typed, KitchenInv, RoomKept
<1>1. ASSUME rows' = rows,
             \A w \in Workers : job'[w].stage = "taken" => job[w].stage = "taken" /\ job'[w].cart = job[w].cart
      PROVE  KitchenInv'
  <2>1. \A s : InKitchen(s)' = InKitchen(s)
    BY <1>1 DEF InKitchen
  <2>2. QED
    BY <1>0, <1>1, <2>1, NoMoreOrders
<1>2. ASSUME NEW w \in Workers, NEW c \in Carts, AnswerAgain(w, c) PROVE KitchenInv'
  BY <1>1, <1>2 DEF AnswerAgain
<1>3. ASSUME NEW w \in Workers, NEW c \in Carts, Begin(w, c) PROVE KitchenInv'
  BY <1>0, <1>1, <1>3, BeginTyped, JobOf
<1>4. ASSUME NEW w \in Workers, NEW r \in NextRows(w), LockRow(w, r) PROVE KitchenInv'
  BY <1>0, <1>1, <1>4, LockTyped
<1>5. ASSUME NEW w \in Workers, TakeStock(w) PROVE KitchenInv'
  <2>1. \A t : InKitchen(t)' = InKitchen(t)
    BY <1>0, <1>5, TakeTyped DEF InKitchen
  <2>2. ASSUME NEW v \in Workers, NEW s \in Slots, job'[v].stage = "taken", Slot[job'[v].cart] = s
        PROVE  Cardinality(InKitchen(s)') + TotalQuantity[job'[v].cart] <= Capacity[s]
    <3>1. CASE v = w
      <4>1. job'[v].cart = job[w].cart /\ job[w].cart \in Carts /\ Slot[job[w].cart] = s
        BY <1>0, <1>5, <2>2, <3>1, TakeTyped DEF TypeOK, Job
      <4>2. Cardinality(Counted(s)) + TotalQuantity[job[w].cart] <= Capacity[s]
        BY <1>0, <1>5, <4>1, TakeTyped DEF Accepts, HasRoom
      <4>3. Cardinality(InKitchen(s)) <= Cardinality(Counted(s)) /\ Cardinality(Counted(s)) \in Nat
        <5>1. IsFiniteSet(Counted(s))
          BY <1>0, FS_Subset DEF Counted
        <5>2. InKitchen(s) \subseteq Counted(s)
          BY DEF InKitchen, Counted, KitchenStatuses
        <5>3. QED
          BY <5>1, <5>2, FS_Subset, FS_CardinalityType
      <4>4. Capacity[s] \in Nat /\ TotalQuantity[job[w].cart] \in Nat
        BY <4>1, Constants
      <4>5. QED
        BY <1>0, <2>1, <4>1, <4>2, <4>3, <4>4
    <3>2. CASE v # w
      <4>1. job'[v] = job[v]
        BY <1>0, <1>5, <3>2, TakeTyped
      <4>2. QED
        BY <2>1, <2>2, <4>1 DEF KitchenInv, RoomKept
    <3>3. QED
      BY <3>1, <3>2
  <2>3. RoomKept'
    BY <1>0, <1>5, <2>2, TakeTyped DEF RoomKept
  <2>4. KitchenWithinCapacity'
    BY <2>1 DEF KitchenInv, KitchenWithinCapacity
  <2>5. QED
    BY <2>3, <2>4 DEF KitchenInv
<1>6. ASSUME NEW w \in Workers, Refuse(w) \/ Abort(w) \/ DeadlockVictim(w) PROVE KitchenInv'
  BY <1>0, <1>1, <1>6, EndsRollBack, IdleTyped, JobOf DEF RolledBack
<1>7. ASSUME NEW w \in Workers, Commit(w) PROVE KitchenInv'
  <2> DEFINE q == TotalQuantity[job[w].cart]
  <2> SUFFICES ASSUME NEW s, s = Slot[job[w].cart] PROVE KitchenInv'
    OBVIOUS
  <2>1. job[w].stage = "taken" /\ job[w].cart \in Carts /\ rows' = rows \cup Inserted(w)
        /\ job'[w] = IdleJob /\ \A v \in Workers \ {w} : job'[v] = job[v]
    BY <1>0, <1>7, CommitTyped
  <2>2. s \in Slots /\ q \in Nat /\ Capacity[s] \in Nat
    BY <2>1, Constants
  <2>3. IsFiniteSet(Inserted(w)) /\ Cardinality(Inserted(w)) <= q /\ Cardinality(Inserted(w)) \in Nat
    BY <2>1, InsertedBounded, FS_CardinalityType
  <2>4. \A r \in Inserted(w) : SlotOf(r) = s
    BY DEF Inserted, SlotOf
  <2>5. \A t : InKitchen(t)' =
          {r \in rows' : SlotOf(r) = t /\ r.status \in KitchenStatuses /\ ~r.revived}
    BY DEF InKitchen, SlotOf
  <2>6. \A t : t # s => InKitchen(t)' = InKitchen(t)
    BY <2>1, <2>4, <2>5, KitchenOf
  <2>7. Cardinality(InKitchen(s)') <= Cardinality(InKitchen(s)) + q
    <3>1. InKitchen(s)' \subseteq InKitchen(s) \cup Inserted(w)
      BY <2>1, <2>5, KitchenOf
    <3>2. IsFiniteSet(InKitchen(s))
      BY <1>0, KitchenFinite
    <3>3. /\ IsFiniteSet(InKitchen(s) \cup Inserted(w))
          /\ Cardinality(InKitchen(s) \cup Inserted(w)) =
               Cardinality(InKitchen(s)) + Cardinality(Inserted(w)) - Cardinality(InKitchen(s) \cap Inserted(w))
      BY <2>3, <3>2, FS_Union
    <3>4. Cardinality(InKitchen(s) \cap Inserted(w)) \in Nat
      BY <3>2, FS_Intersection, FS_CardinalityType
    <3>5. /\ Cardinality(InKitchen(s)') <= Cardinality(InKitchen(s) \cup Inserted(w))
          /\ Cardinality(InKitchen(s)') \in Nat
      BY <3>1, <3>3, FS_Subset, FS_CardinalityType
    <3>6. QED
      BY <1>0, <2>2, <2>3, <3>3, <3>4, <3>5
  <2>8. Cardinality(InKitchen(s)) + q <= Capacity[s]
    BY <2>1, <2>2 DEF KitchenInv, RoomKept
  <2>9. IsFiniteSet(rows')
    BY <1>0, <2>1, <2>3, FS_Union
  <2>10. Cardinality(InKitchen(s)') \in Nat
    <3>1. InKitchen(s)' \subseteq rows'
      BY <2>5
    <3>2. QED
      BY <2>9, <3>1, FS_Subset, FS_CardinalityType
  <2>11. KitchenWithinCapacity'
    <3>1. Cardinality(InKitchen(s)') <= Capacity[s]
      BY <1>0, <2>2, <2>7, <2>8, <2>10
    <3>2. \A t \in Slots : Cardinality(InKitchen(t)') <= Capacity[t]
      BY <2>6, <3>1 DEF KitchenInv, KitchenWithinCapacity
    <3>3. QED
      BY <3>2 DEF KitchenWithinCapacity
  <2>12. ASSUME NEW v \in Workers, NEW t \in Slots, job'[v].stage = "taken", Slot[job'[v].cart] = t
         PROVE  Cardinality(InKitchen(t)') + TotalQuantity[job'[v].cart] <= Capacity[t]
    <3>1. v # w /\ job'[v] = job[v]
      BY <2>1, <2>12, IdleTyped
    <3>2. t # s
      BY <2>1, <2>12, <3>1, TakenApart
    <3>3. InKitchen(t)' = InKitchen(t)
      BY <2>6, <3>2
    <3>4. Cardinality(InKitchen(t)) + TotalQuantity[job[v].cart] <= Capacity[t]
      BY <2>12, <3>1 DEF KitchenInv, RoomKept
    <3>5. QED
      BY <3>1, <3>3, <3>4
  <2>13. RoomKept'
    BY <2>9, <2>12 DEF RoomKept
  <2>14. QED
    BY <2>11, <2>13 DEF KitchenInv
<1>8. ASSUME NEW h \in Handlers, NEW row \in rows, MoveOrder(h, row) PROVE KitchenInv'
  <2>1. job' = job
    BY <1>8 DEF MoveOrder
  <2>2. QED
    BY <1>0, <1>8, <2>1, MovesAddNothing, NoMoreOrders
<1>9. ASSUME NEW h \in Handlers, NEW row \in rows, NEW status \in StaffTargets, ReadOrder(h, row, status)
       PROVE  KitchenInv'
  BY <1>1, <1>9 DEF ReadOrder
<1>10. ASSUME NEW i \in Items, NEW level \in StockLevels, NEW out \in BOOLEAN, EditMenuItem(i, level, out) PROVE KitchenInv'
  BY <1>1, <1>10 DEF EditMenuItem
<1>11. CASE UNCHANGED vars
  BY <1>1, <1>11 DEF vars
<1>12. QED
  BY <1>2, <1>3, <1>4, <1>5, <1>6, <1>7, <1>8, <1>10, <1>11, <1>9 DEF Next, Serve

\* No slot gets more orders to prepare than it has room for, however checkouts,
\* cancellations, refunds and stale status updates interleave, but for orders such an
\* update revived (create_food_order, create_food_orders_checkout, update_order_status).
THEOREM KitchenWithinCapacityAlways == Spec => []KitchenWithinCapacity
<1>1. KitchenInv => KitchenWithinCapacity
  BY DEF KitchenInv
<1>2. QED
  BY InitLocks, StepLocks, InitKitchen, StepKitchen, <1>1, PTL DEF Spec

(***************************************************************************)
(* Without the locks: a student who waits for each answer                  *)
(***************************************************************************)

\* A student has one request under way.
OneRequestEach ==
  \A v, w \in Workers : ~Free(v) /\ ~Free(w) /\ Student[job[v].cart] = Student[job[w].cart] => v = w

\* A cart is placed with all its lines, each once, and only when no request for it is under way.
CartsWhole ==
  /\ \A row \in rows : \A i \in ItemsOf[row.cart] : \E r \in rows : r.cart = row.cart /\ r.item = i
  /\ \A w \in Workers, row \in rows : ~Free(w) => row.cart # job[w].cart
  /\ OneOrderPerLine

\* The student's active orders that nobody revived are of the shop of c.
SeenSameShop(c) ==
  \A row \in rows :
    Student[row.cart] = Student[c] /\ row.status \in ActiveStatuses /\ ~row.revived =>
      \A i \in ItemsOf[c] : Shop[row.item] = Shop[i]

\* What a request found about the student's other orders is still so.
StillSameShop ==
  /\ \A w \in Workers : ~Free(w) => SeenSameShop(job[w].cart)
  /\ \A r1, r2 \in rows : r1.status \in ActiveStatuses /\ r2.status \in ActiveStatuses
       /\ ~r1.revived /\ ~r2.revived
       /\ Student[r1.cart] = Student[r2.cart] => Shop[r1.item] = Shop[r2.item]

PatientInv == ~Impatient => OneRequestEach /\ CartsWhole /\ StillSameShop

LEMMA InitPatient == Init => PatientInv
  BY IdleTyped DEF Init, PatientInv, OneRequestEach, CartsWhole, StillSameShop, OneOrderPerLine, Free

\* A cart that is not found placed has no row at all.
LEMMA NotPlaced ==
  ASSUME CartsWhole, IsFiniteSet(rows), NEW c \in Carts, ~PlacedBefore(c)
  PROVE  \A row \in rows : row.cart # c
<1> DEFINE placed == {row \in rows : row.cart = c}
<1> SUFFICES ASSUME placed # {} PROVE FALSE
  OBVIOUS
<1>1. \A i \in ItemsOf[c] : \E r \in placed : r.item = i
  BY DEF CartsWhole
<1> DEFINE lineOf == [i \in ItemsOf[c] |-> CHOOSE r \in placed : r.item = i]
<1>2. \A i \in ItemsOf[c] : lineOf[i] \in placed /\ lineOf[i].item = i
  BY <1>1
<1>3. lineOf \in Injection(ItemsOf[c], placed)
  <2>1. lineOf \in [ItemsOf[c] -> placed]
    BY <1>2
  <2>2. \A i, k \in ItemsOf[c] : lineOf[i] = lineOf[k] => i = k
    BY <1>2
  <2> HIDE DEF lineOf, placed
  <2>3. QED
    BY <2>1, <2>2 DEF Injection, IsInjective
<1>4. IsFiniteSet(placed)
  BY FS_Subset
<1>5. Cardinality(ItemsOf[c]) <= Cardinality(placed)
  <2> HIDE DEF lineOf, placed
  <2>1. QED
    BY <1>3, <1>4, FS_Injection
<1>6. Cardinality(ItemsOf[c]) \in Nat /\ Cardinality(placed) \in Nat
  BY <1>4, ItemsOfCart, FS_CardinalityType
<1>7. QED
  BY <1>5, <1>6 DEF PlacedBefore

LEMMA StepPatient == Typed /\ IsFiniteSet(rows) /\ PatientInv /\ [Next]_vars => PatientInv'
<1> SUFFICES ASSUME ~Impatient, Typed, IsFiniteSet(rows), OneRequestEach, CartsWhole, StillSameShop, [Next]_vars
             PROVE  OneRequestEach' /\ CartsWhole' /\ StillSameShop'
  BY DEF PatientInv
<1> USE DEF Free
<1>0. TypeOK
  BY DEF Typed
\* A step that inserts no order and begins no request.
<1>1. ASSUME rows' = rows, \A w \in Workers : ~Free(w)' => ~Free(w) /\ job'[w].cart = job[w].cart
      PROVE  OneRequestEach' /\ CartsWhole' /\ StillSameShop'
  <2>1. OneRequestEach'
    BY <1>1 DEF OneRequestEach
  <2>2. CartsWhole'
    BY <1>1 DEF CartsWhole, OneOrderPerLine
  <2>3. StillSameShop'
    BY <1>1 DEF StillSameShop, SeenSameShop, SameShop
  <2>4. QED
    BY <2>1, <2>2, <2>3
<1>2. ASSUME NEW w \in Workers, NEW c \in Carts, AnswerAgain(w, c) PROVE OneRequestEach' /\ CartsWhole' /\ StillSameShop'
  BY <1>1, <1>2 DEF AnswerAgain
<1>3. ASSUME NEW w \in Workers, NEW c \in Carts, Begin(w, c) PROVE OneRequestEach' /\ CartsWhole' /\ StillSameShop'
  <2>1. job'[w].cart = c /\ (\A v \in Workers \ {w} : job'[v] = job[v]) /\ rows' = rows
    BY <1>0, <1>3, BeginTyped, JobOf
  <2>2. \A v \in Workers \ {w} : Free(v) \/ Student[job[v].cart] # Student[c]
    BY <1>3 DEF Begin, Receive
  <2>3. \A row \in rows : row.cart # c
    BY <1>3, NotPlaced DEF Begin
  <2>4. SameShop(c)
    BY <1>3 DEF Begin
  <2>5. OneRequestEach'
    BY <2>1, <2>2 DEF OneRequestEach
  <2>6. CartsWhole'
    BY <2>1, <2>3 DEF CartsWhole, OneOrderPerLine
  <2>7. StillSameShop'
    BY <2>1, <2>4 DEF StillSameShop, SeenSameShop, SameShop
  <2>8. QED
    BY <2>5, <2>6, <2>7
<1>4. ASSUME NEW w \in Workers, NEW r \in NextRows(w), LockRow(w, r) PROVE OneRequestEach' /\ CartsWhole' /\ StillSameShop'
  BY <1>0, <1>1, <1>4, LockTyped
<1>5. ASSUME NEW w \in Workers, TakeStock(w) PROVE OneRequestEach' /\ CartsWhole' /\ StillSameShop'
  BY <1>0, <1>1, <1>5, TakeTyped DEF Locked
<1>6. ASSUME NEW w \in Workers, Refuse(w) \/ Abort(w) \/ DeadlockVictim(w) PROVE OneRequestEach' /\ CartsWhole' /\ StillSameShop'
  BY <1>0, <1>1, <1>6, EndsRollBack, IdleTyped, JobOf DEF RolledBack
<1>7. ASSUME NEW w \in Workers, Commit(w) PROVE OneRequestEach' /\ CartsWhole' /\ StillSameShop'
  <2> DEFINE c == job[w].cart
  <2>1. ~Free(w) /\ c \in Carts /\ rows' = rows \cup Inserted(w)
        /\ Free(w)' /\ \A v \in Workers \ {w} : job'[v] = job[v]
    BY <1>0, <1>7, CommitTyped, IdleTyped
  <2>2. /\ \A r \in Inserted(w) : r.cart = c /\ r.item \in ItemsOf[c]
        /\ \A i \in ItemsOf[c] : \E r \in Inserted(w) : r.cart = c /\ r.item = i
        /\ \A r1, r2 \in Inserted(w) : r1.item = r2.item => r1 = r2
    <3> DEFINE line(i) == [request |-> job[w].request, cart |-> c, item |-> i, status |-> "placed", revived |-> FALSE]
    <3>1. Inserted(w) = {line(i) : i \in ItemsOf[c]}
      BY DEF Inserted
    <3>2. \A i : line(i).cart = c /\ line(i).item = i
      OBVIOUS
    <3> HIDE DEF line, c
    <3>3. QED
      BY <3>1, <3>2
  <2>3. \A row \in rows : row.cart # c
    BY <2>1 DEF CartsWhole
  <2>4. \A v \in Workers : ~Free(v)' => v # w /\ job'[v] = job[v] /\ ~Free(v) /\ Student[job[v].cart] # Student[c]
    BY <2>1 DEF OneRequestEach
  <2> HIDE DEF c
  <2>5. OneRequestEach'
    BY <2>4 DEF OneRequestEach
  <2>6. CartsWhole'
    <3>1. \A row \in rows' : \A i \in ItemsOf[row.cart] : \E r \in rows' : r.cart = row.cart /\ r.item = i
      BY <2>1, <2>2 DEF CartsWhole
    <3>2. \A v \in Workers, row \in rows' : ~Free(v)' => row.cart # job'[v].cart
      BY <2>1, <2>2, <2>4 DEF CartsWhole
    <3>3. OneOrderPerLine'
      BY <2>1, <2>2, <2>3 DEF CartsWhole, OneOrderPerLine
    <3>4. QED
      BY <3>1, <3>2, <3>3 DEF CartsWhole
  <2>7. StillSameShop'
    <3>1. SeenSameShop(c)
      BY <2>1 DEF StillSameShop, c
    <3>2. \A i, k \in ItemsOf[c] : Shop[i] = Shop[k]
      BY <2>1, Constants
    <3>3. ASSUME NEW v \in Workers, ~Free(v)' PROVE SeenSameShop(job[v].cart)'
      BY <2>1, <2>2, <2>4, <3>3 DEF StillSameShop, SeenSameShop, SameShop
    <3>4. ASSUME NEW r1 \in rows', NEW r2 \in rows', r1.status \in ActiveStatuses, r2.status \in ActiveStatuses,
                 ~r1.revived, ~r2.revived, Student[r1.cart] = Student[r2.cart]
          PROVE  Shop[r1.item] = Shop[r2.item]
      BY <2>1, <2>2, <3>1, <3>2, <3>4 DEF StillSameShop, SeenSameShop, SameShop
    <3>5. QED
      BY <3>3, <3>4 DEF StillSameShop
  <2>8. QED
    BY <2>5, <2>6, <2>7
<1>8. ASSUME NEW h \in Handlers, NEW row \in rows, MoveOrder(h, row)
      PROVE  OneRequestEach' /\ CartsWhole' /\ StillSameShop'
  <2> DEFINE new == Moved(h, row)
  <2>1. new.cart = row.cart /\ new.item = row.item
    BY <1>8, MovedRow
  <2>2. rows' = (rows \ {row}) \cup {new} /\ job' = job
    BY <1>8 DEF MoveOrder
  <2>3. new.status \in ActiveStatuses /\ ~new.revived => row.status \in ActiveStatuses /\ ~row.revived
    BY <1>8, MovedRow
  <2> HIDE DEF new
  <2>4. OneRequestEach'
    BY <2>2 DEF OneRequestEach
  <2>5. CartsWhole'
    <3>1. \A old \in rows' : \A i \in ItemsOf[old.cart] : \E r \in rows' : r.cart = old.cart /\ r.item = i
      BY <2>1, <2>2 DEF CartsWhole
    <3>2. OneOrderPerLine'
      BY <2>1, <2>2 DEF CartsWhole, OneOrderPerLine
    <3>3. QED
      BY <2>1, <2>2, <3>1, <3>2 DEF CartsWhole
  <2>6. StillSameShop'
    BY <2>1, <2>2, <2>3 DEF StillSameShop, SeenSameShop, SameShop
  <2>7. QED
    BY <2>4, <2>5, <2>6
<1>9. ASSUME NEW i \in Items, NEW level \in StockLevels, NEW out \in BOOLEAN, EditMenuItem(i, level, out)
      PROVE  OneRequestEach' /\ CartsWhole' /\ StillSameShop'
  BY <1>1, <1>9 DEF EditMenuItem
<1>10. CASE UNCHANGED vars
  BY <1>1, <1>10 DEF vars
<1>11. ASSUME NEW h \in Handlers, NEW row \in rows, NEW status \in StaffTargets, ReadOrder(h, row, status)
       PROVE  OneRequestEach' /\ CartsWhole' /\ StillSameShop'
  BY <1>1, <1>11 DEF ReadOrder
<1>12. QED
  BY <1>2, <1>3, <1>4, <1>5, <1>6, <1>7, <1>8, <1>9, <1>10, <1>11 DEF Next, Serve

LEMMA Invariants == Spec => [](LockInv /\ KitchenInv /\ PatientInv)
<1>1. LockInv /\ KitchenInv => Typed /\ IsFiniteSet(rows)
  BY DEF LockInv, KitchenInv, RoomKept
<1>2. QED
  BY InitLocks, StepLocks, InitKitchen, StepKitchen, InitPatient, StepPatient, <1>1, PTL DEF Spec

\* A student who waits for each answer gets each cart once, whatever requests die: the
\* look for earlier orders, made before the locks, is enough (create_food_orders_checkout).
THEOREM PatientStudentOrdersOnceAlways == Spec => []PatientStudentOrdersOnce
<1>1. PatientInv => PatientStudentOrdersOnce
  BY DEF PatientInv, CartsWhole, PatientStudentOrdersOnce
<1>2. QED
  BY Invariants, <1>1, PTL

\* The active orders of a student who waits are of one shop (the single-shop rule of
\* create_food_order, checked before the locks), but for those a stale update revived.
THEOREM SingleShopAtATimeAlways == Spec => []SingleShopAtATime
<1>1. PatientInv => SingleShopAtATime
  BY DEF PatientInv, StillSameShop, ActiveStatuses, SingleShopAtATime
<1>2. QED
  BY Invariants, <1>1, PTL
=============================================================================
