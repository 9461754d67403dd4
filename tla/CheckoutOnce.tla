--------------------------- MODULE CheckoutOnce ----------------------------
(***************************************************************************)
(* What a customer may rely on when a checkout is sent, lost and sent      *)
(* again: it becomes at most one order, and every answer that names an     *)
(* order names that one.                                                   *)
(***************************************************************************)
CONSTANTS
  Carts,      \* checkouts, each with its own idempotency key
  Placements, \* what identifies an order
  NotPlaced

VARIABLES
  placed, \* the order the checkout became
  told    \* the orders its answers named

Init ==
  /\ placed = [c \in Carts |-> NotPlaced]
  /\ told = [c \in Carts |-> {}]

Place(c) ==
  /\ placed[c] = NotPlaced
  /\ \E i \in Placements : placed' = [placed EXCEPT ![c] = i]
  /\ UNCHANGED told

Tell(c) ==
  /\ placed[c] # NotPlaced
  /\ told' = [told EXCEPT ![c] = @ \cup {placed[c]}]
  /\ UNCHANGED placed

Next == \E c \in Carts : Place(c) \/ Tell(c)

Spec == Init /\ [][Next]_<<placed, told>>

=============================================================================
