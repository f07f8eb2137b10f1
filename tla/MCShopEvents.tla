--------------------------- MODULE MCShopEvents ----------------------------
(* Model checking of ShopEvents: a product with parts, and an invalid id in *)
(* the other partition.                                                     *)
EXTENDS ShopEvents

Posted ==
  {[productId |-> 1, recommendations |-> <<1, 2>>, reviews |-> <<1>>],
   [productId |-> 0, recommendations |-> <<>>, reviews |-> <<>>]}

=============================================================================
