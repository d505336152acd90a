------------------------------ MODULE FoodStore ------------------------------
(***************************************************************************)
(* The food hall's catalogue, a student's cart and the rating of orders    *)
(* (app/routers/food.py, app/food_bootstrap.py).  The cart is one document *)
(* in MongoDB, read, changed and written back whole by each request.       *)
(*                                                                         *)
(* Quantities, stock and prices are abstracted to what the guards ask; the *)
(* mirror writes after a commit are Outbox's.                              *)
(***************************************************************************)
EXTENDS Naturals, FiniteSets

CONSTANTS
  Tabs,           \* requests of the student at a time
  Shops, MenuItems,
  ShopOf,         \* the shop of each menu item
  Catalogue,      \* the shops of FOOD_SHOPS, whose items are FOOD_MENU_BY_SHOP
  Hours,          \* hours with a pick-up slot
  MinShops, MinItems, \* fewer than these and the catalogue is written again
  Orders,         \* the student's delivered orders
  OrderedAt,      \* the shop of each order
  DemoModes,      \* X-Food-Demo-Mode of a request
  NoShop,
  MaxQuantity,    \* bound: of a line
  MaxStudentEdits,\* bound: requests of the student
  MaxStoreEdits   \* bound: changes of the catalogue by staff
ASSUME StoreAssumption ==
  /\ ShopOf \in [MenuItems -> Shops] /\ OrderedAt \in [Orders -> Shops] /\ NoShop \notin Shops
  /\ Catalogue \subseteq Shops /\ FALSE \in DemoModes /\ DemoModes \subseteq BOOLEAN
  /\ {MinShops, MinItems, MaxQuantity, MaxStudentEdits, MaxStoreEdits} \subseteq Nat

VARIABLES
  store,      \* food_shops, food_menu_items, food_items and break_slots
  ratingOf,   \* rating of each shop: where it comes from
  ratedOrders,\* orders with a rating, which locks it
  cart,       \* food_carts document of the student
  tab,        \* a request between its reads and its write
  studentEdits, storeEdits,
  strayed     \* a demo request, or one that takes from a line the cart lacks, was saved

storeVars == <<store, ratingOf, ratedOrders, cart, tab, studentEdits, storeEdits, strayed>>

Carts == [shop : Shops \cup {NoShop}, lines : [MenuItems -> 0..MaxQuantity], preview : BOOLEAN]
EmptyCart == [shop |-> NoShop, lines |-> [i \in MenuItems |-> 0], preview |-> FALSE]
Ratings == [by : {"seed", "orders", "owner"}, of : SUBSET Orders]
Seed == [by |-> "seed", of |-> {}]
IdleTab == [pc |-> "idle", writes |-> EmptyCart, strays |-> FALSE, rates |-> {}, counts |-> {}]

StoreTypeOK ==
  /\ store \in [open : [Shops -> {"absent", "closed", "open"}],
                sale : [MenuItems -> {"absent", "off", "empty", "on"}],
                named : SUBSET MenuItems, slots : SUBSET Hours]
  /\ ratingOf \in [Shops -> Ratings]
  /\ \A s \in Shops : ratingOf[s].of \subseteq {o \in ratedOrders : OrderedAt[o] = s}
  /\ ratedOrders \subseteq Orders
  /\ cart \in Carts
  /\ tab \in [Tabs -> [pc : {"idle", "cart", "rating"}, writes : Carts, strays : BOOLEAN,
                       rates : SUBSET Orders, counts : SUBSET Orders]]
  /\ studentEdits \in 0..MaxStudentEdits /\ storeEdits \in 0..MaxStoreEdits
  /\ strayed \in BOOLEAN

\* A fresh database, or part of one: shops without their menu.
StoreInit ==
  /\ \E found \in {{}, Catalogue} :
       store = [open |-> [s \in Shops |-> IF s \in found THEN "open" ELSE "absent"],
                sale |-> [i \in MenuItems |-> "absent"], named |-> {}, slots |-> {}]
  /\ ratingOf = [s \in Shops |-> Seed] /\ ratedOrders = {}
  /\ cart = EmptyCart /\ tab = [t \in Tabs |-> IdleTab]
  /\ studentEdits = 0 /\ storeEdits = 0 /\ strayed = FALSE

(***************************************************************************)
(* The catalogue                                                           *)
(***************************************************************************)
Present(st) == {s \in Shops : st.open[s] # "absent"}
OnMenu(st) == {i \in MenuItems : st.sale[i] # "absent"}

\* _catalog_seeded, _food_catalog_counts: rows are counted, not looked up.
Seeded(st) ==
  /\ Cardinality(Present(st)) >= MinShops
  /\ Cardinality(OnMenu(st)) >= MinItems /\ Cardinality(st.named) >= MinItems
  /\ st.slots = Hours

\* bootstrap_food_hall_catalog: its shops open and its items on sale, in stock
\* (and its shops' ratings are reset); others stay.
Bootstrapped(st) ==
  LET own == {i \in MenuItems : ShopOf[i] \in Catalogue}
  IN  [open  |-> [s \in Shops |-> IF s \in Catalogue THEN "open" ELSE st.open[s]],
       sale  |-> [i \in MenuItems |-> IF i \in own THEN "on" ELSE st.sale[i]],
       named |-> st.named \cup own, slots |-> Hours]
ResetRatings == [s \in Shops |-> IF s \in Catalogue THEN Seed ELSE ratingOf[s]]

\* _ensure_food_catalog_seeded, at the start of a page, an edit or a process.
Ensured(st) == IF Seeded(st) THEN st ELSE Bootstrapped(st)
EnsuredRatings == IF Seeded(store) THEN ratingOf ELSE ResetRatings

EnsureCatalogue ==
  /\ ~Seeded(store)
  /\ store' = Ensured(store) /\ ratingOf' = EnsuredRatings
  /\ UNCHANGED <<ratedOrders, cart, tab, studentEdits, storeEdits, strayed>>

StaffEdit == storeEdits < MaxStoreEdits /\ storeEdits' = storeEdits + 1
             /\ UNCHANGED <<ratedOrders, cart, tab, studentEdits, strayed>>

\* bootstrap_food_catalog: staff write the catalogue again.
BootstrapCatalogue ==
  StaffEdit /\ store' = Bootstrapped(store) /\ ratingOf' = ResetRatings

CreateShop(s) ==
  /\ StaffEdit /\ store.open[s] = "absent"
  /\ \E state \in {"closed", "open"} : store' = [store EXCEPT !.open[s] = state]
  /\ UNCHANGED ratingOf

\* update_food_shop: its owner may set anything, the rating too.
UpdateShop(s) ==
  /\ StaffEdit /\ store.open[s] # "absent"
  /\ \/ \E state \in {"closed", "open"} : store' = [store EXCEPT !.open[s] = state] /\ UNCHANGED ratingOf
     \/ ratingOf' = [ratingOf EXCEPT ![s] = [by |-> "owner", of |-> {}]] /\ UNCHANGED store

CreateMenuItem(i) ==
  /\ StaffEdit /\ store.open[ShopOf[i]] # "absent" /\ store.sale[i] = "absent"
  /\ \E state \in {"off", "empty", "on"} : store' = [store EXCEPT !.sale[i] = state]
  /\ UNCHANGED ratingOf

UpdateMenuItem(i) ==
  /\ StaffEdit /\ store.sale[i] # "absent"
  /\ \E state \in {"off", "empty", "on"} : store' = [store EXCEPT !.sale[i] = state]
  /\ UNCHANGED ratingOf

CreateFoodItem(i) ==
  /\ StaffEdit /\ i \notin store.named
  /\ store' = [store EXCEPT !.named = @ \cup {i}]
  /\ UNCHANGED ratingOf

CreateBreakSlot(hour) ==
  /\ StaffEdit /\ hour \notin store.slots
  /\ store' = [store EXCEPT !.slots = @ \cup {hour}]
  /\ UNCHANGED ratingOf

(***************************************************************************)
(* The cart                                                                *)
(***************************************************************************)

\* _save_food_cart: a cart without lines has no shop and no preview.
Kept(shop, lines, preview) ==
  IF \A i \in MenuItems : lines[i] = 0 THEN EmptyCart
  ELSE [shop |-> shop, lines |-> lines, preview |-> preview]

\* Variant: an item of any shop may be added.
Elsewhere_Never(c, i) == FALSE

\* A new line for another shop than the cart's.
Elsewhere(c, i) == c.shop \notin {NoShop, ShopOf[i]} /\ c.lines[i] = 0

\* Every line is pinned to the shop of the item the request is about.
Mutated(c, i, more) ==
  LET left == IF more THEN c.lines[i] + 1 ELSE IF c.lines[i] > 0 THEN c.lines[i] - 1 ELSE 0
  IN  Kept(ShopOf[i], [c.lines EXCEPT ![i] = left], c.preview)

BeginWrite(t, job) ==
  /\ tab[t].pc = "idle" /\ studentEdits < MaxStudentEdits
  /\ studentEdits' = studentEdits + 1
  /\ tab' = [tab EXCEPT ![t] = job]
  /\ UNCHANGED <<ratedOrders, cart, storeEdits, strayed>>
CartJob(writes, strays) == [IdleTab EXCEPT !.pc = "cart", !.writes = writes, !.strays = strays]

\* mutate_food_cart_item, up to its write: one more, or one fewer, of an item.
MutateItem(t, i, more, demo) ==
  LET now == Ensured(store)
  IN  /\ now.open[ShopOf[i]] \in (IF demo THEN {"open", "closed"} ELSE {"open"})
      /\ now.sale[i] # "absent" /\ (more /\ ~demo => now.sale[i] = "on")
      /\ more /\ ~demo => ~Elsewhere(cart, i)
      /\ more => cart.lines[i] < MaxQuantity
      /\ BeginWrite(t, CartJob(Mutated(cart, i, more), demo \/ (~more /\ cart.lines[i] = 0)))
      /\ store' = now /\ ratingOf' = EnsuredRatings

\* remove_food_cart_item
RemoveLine(t, i) ==
  /\ BeginWrite(t, CartJob(Kept(cart.shop, [cart.lines EXCEPT ![i] = 0], cart.preview), FALSE))
  /\ UNCHANGED <<store, ratingOf>>

\* update_food_cart_state
UpdateState(t, preview) ==
  /\ BeginWrite(t, CartJob(Kept(cart.shop, cart.lines, preview), FALSE))
  /\ UNCHANGED <<store, ratingOf>>

SaveCart(t) ==
  /\ tab[t].pc = "cart"
  /\ cart' = tab[t].writes
  /\ strayed' = (strayed \/ tab[t].strays)
  /\ tab' = [tab EXCEPT ![t] = IdleTab]
  /\ UNCHANGED <<store, ratingOf, ratedOrders, studentEdits, storeEdits>>

\* clear_food_cart, and _try_clear_food_cart when a payment is captured.
ClearCart ==
  /\ cart' = EmptyCart /\ cart # EmptyCart
  /\ UNCHANGED <<store, ratingOf, ratedOrders, tab, studentEdits, storeEdits, strayed>>

(***************************************************************************)
(* Ratings                                                                 *)
(***************************************************************************)

\* _refresh_shop_rating_from_orders: the query does not see the rating just set,
\* for the session does not flush it.
RatedAt(shop) == {o \in ratedOrders : OrderedAt[o] = shop}

\* update_order_rating, up to its commit.
BeginRating(t, o) ==
  /\ tab[t].pc = "idle" /\ o \notin ratedOrders
  /\ studentEdits < MaxStudentEdits
  /\ studentEdits' = studentEdits + 1
  /\ tab' = [tab EXCEPT ![t] =
       [IdleTab EXCEPT !.pc = "rating", !.rates = {o}, !.counts = RatedAt(OrderedAt[o])]]
  /\ UNCHANGED <<store, ratingOf, ratedOrders, cart, storeEdits, strayed>>

SaveRating(t) ==
  /\ tab[t].pc = "rating"
  /\ ratedOrders' = ratedOrders \cup tab[t].rates
  /\ ratingOf' = [s \in Shops |->
       IF \A o \in tab[t].rates : OrderedAt[o] # s THEN ratingOf[s]
       ELSE IF tab[t].counts = {} THEN Seed ELSE [by |-> "orders", of |-> tab[t].counts]]
  /\ tab' = [tab EXCEPT ![t] = IdleTab]
  /\ UNCHANGED <<store, cart, studentEdits, storeEdits, strayed>>

StoreNext ==
  \/ EnsureCatalogue \/ BootstrapCatalogue \/ ClearCart
  \/ \E s \in Shops : CreateShop(s) \/ UpdateShop(s)
  \/ \E i \in MenuItems : CreateMenuItem(i) \/ UpdateMenuItem(i) \/ CreateFoodItem(i)
  \/ \E hour \in Hours : CreateBreakSlot(hour)
  \/ \E t \in Tabs :
       \/ \E i \in MenuItems, more \in BOOLEAN, demo \in DemoModes : MutateItem(t, i, more, demo)
       \/ \E i \in MenuItems : RemoveLine(t, i)
       \/ \E preview \in BOOLEAN : UpdateState(t, preview)
       \/ SaveCart(t)
       \/ \E o \in Orders : BeginRating(t, o)
       \/ SaveRating(t)

(***************************************************************************)
(* Property                                                                *)
(***************************************************************************)

\* Whichever tabs overwrite one another's cart, its items are all of the shop it
\* is pinned to, until a request takes from a line that is no longer there
\* (mutate_food_cart_item pins the lines to that item's shop then).
CartIsOfOneShop ==
  ~strayed => \A i \in MenuItems : cart.lines[i] > 0 => cart.shop = ShopOf[i]
=============================================================================
