---------------------------- MODULE MCCheckout -----------------------------
(* Areas of the carts for TLC: the last cart takes all of the stock.       *)
EXTENDS Checkout
CONSTANTS c1, c2
MCSends == [c \in Carts |-> IF c = c2 THEN 1 ELSE 2]
MCArea == [c \in Carts |-> IF c = c2 THEN 2 ELSE 1]
=============================================================================
