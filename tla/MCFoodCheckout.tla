--------------------------- MODULE MCFoodCheckout ---------------------------
\* FoodCheckout on a small menu: the canteen sells tea and rice, the bakery cake.
EXTENDS FoodCheckout

CONSTANTS lunch, dinner, tea, rice, cake

\* meal and snack meet on the stock, meal and pie on the slot; meal and treat
\* are one student's orders from two shops; cup is a single order.
MCCarts == {"meal", "snack", "treat", "pie", "cup"}

MCSingleItem == {"cup"}

MCStudent == [c \in MCCarts |-> IF c \in {"meal", "treat"} THEN "s1" ELSE "s2"]

MCSlot == [c \in MCCarts |-> IF c \in {"meal", "pie", "cup"} THEN lunch ELSE dinner]

MCShop == [i \in Items |-> IF i = cake THEN "bakery" ELSE "canteen"]

InCart(c) ==
  CASE c \in {"meal", "snack"} -> {tea, rice}
    [] c \in {"treat", "pie"}  -> {cake}
    [] OTHER                   -> {tea}

MCQuantity == [c \in MCCarts |-> [i \in Items |-> IF i \in InCart(c) THEN 1 ELSE 0]]

MCCapacity == [s \in Slots |-> IF s = lunch THEN 2 ELSE 3]
=============================================================================
