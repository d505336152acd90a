--------------------------- MODULE MCFoodPayments ---------------------------
\* FoodPayments on small instances.
EXTENDS FoodPayments, TLC

Interchangeable ==
  Permutations(Orders) \cup Permutations(Payments) \cup Permutations(Attempts)
    \cup Permutations(Workers)
=============================================================================
