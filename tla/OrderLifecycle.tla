--------------------------- MODULE OrderLifecycle ---------------------------
(***************************************************************************)
(* What the order service promises about one order at a time, with no      *)
(* requests, reads or races in it: the fulfilment status, the payment and  *)
(* the whereabouts of the order's tiles move together.  OrderService       *)
(* implements this specification (its Lifecycle instance).                 *)
(***************************************************************************)
CONSTANT Orders

VARIABLES
  stage,    \* fulfilment status of each order
  payment,  \* quotation status of each order
  goods     \* "none": no tiles promised; "held": reserved for the order;
            \* "taken": off the shelf; "lost": no longer counted right

vars == <<stage, payment, goods>>

Init ==
  /\ stage = [o \in Orders |-> "NONE"]
  /\ payment = [o \in Orders |-> "AWAITING_REVIEW"]
  /\ goods = [o \in Orders |-> "none"]

\* Order o moves to stage s with payment y and its tiles at g; what was lost
\* stays lost.
Move(o, s, y, g) ==
  /\ stage' = [stage EXCEPT ![o] = s]
  /\ payment' = [payment EXCEPT ![o] = y]
  /\ goods' = [goods EXCEPT ![o] = IF @ = "lost" THEN "lost" ELSE g]

\* It moves on what was read before its quantities were revised, and other
\* tiles are counted than it has.
Slip(o, s, y) == Move(o, s, y, "lost")

Lost(o) == goods[o] = "lost"

Waitlist(o) == Move(o, "WAITLISTED", "AWAITING_REVIEW", "none")
Hold(o) == Move(o, "PENDING", "AWAITING_REVIEW", "held")

Place(o) == stage[o] = "NONE" /\ (Waitlist(o) \/ Hold(o))

\* Stock became available for an order that waited for it, before any payment
\* unless the order was quoted too soon.
Promote(o) ==
  /\ stage[o] = "WAITLISTED"
  /\ \/ Hold(o)
     \/ Slip(o, "PENDING", "AWAITING_REVIEW")
     \/ Lost(o) /\ Move(o, "PENDING", payment[o], "held")

\* Staff agree other quantities; any quotation is void.
Revise(o) ==
  /\ payment[o] \in {"AWAITING_REVIEW", "QUOTATION_SENT"}
  /\ \/ stage[o] = "PENDING" /\ (Waitlist(o) \/ Hold(o))
     \/ stage[o] = "WAITLISTED" /\ Waitlist(o)

\* An order can be paid while its tiles are held, or are thought to be.
Payable(o) ==
  \/ stage[o] = "PENDING" /\ goods[o] = "held"
  \/ stage[o] \in {"WAITLISTED", "PENDING"} /\ Lost(o)

\* The payment of such an order takes a step.
Pay(o, from, to) ==
  /\ Payable(o)
  /\ payment[o] \in from
  /\ Move(o, stage[o], to, "held")

SendQuote(o) ==
  \/ Pay(o, {"AWAITING_REVIEW", "QUOTATION_SENT"}, "QUOTATION_SENT")
  \/ /\ stage[o] \in {"WAITLISTED", "PENDING"}
     /\ payment[o] \in {"AWAITING_REVIEW", "QUOTATION_SENT"}
     /\ Slip(o, stage[o], "QUOTATION_SENT")

Declare(o) == Pay(o, {"QUOTATION_SENT"}, "PAYMENT_SUBMITTED")
Reject(o) == Pay(o, {"PAYMENT_SUBMITTED"}, "QUOTATION_SENT")

\* A verified payment turns the hold into tiles off the shelf.
Verify(o) ==
  /\ Payable(o)
  /\ payment[o] = "PAYMENT_SUBMITTED"
  /\ Move(o, stage[o], "PAYMENT_VERIFIED", "taken")

\* Only a paid order with its tiles off the shelf is fulfilled, step by step.
Advance(o) ==
  /\ payment[o] = "PAYMENT_VERIFIED" /\ goods[o] \in {"taken", "lost"}
  /\ \E step \in {<<"PENDING", "PROCESSING">>,
                  <<"PROCESSING", "READY_FOR_DISPATCH">>,
                  <<"READY_FOR_DISPATCH", "SHIPPED">>,
                  <<"SHIPPED", "DELIVERED">>} :
       /\ stage[o] = step[1]
       /\ Move(o, step[2], payment[o], "taken")

\* Until it has shipped an order can be cancelled, and its tiles come back.
Cancel(o) ==
  /\ stage[o] \in {"WAITLISTED", "PENDING", "PROCESSING", "READY_FOR_DISPATCH"}
  /\ \/ Move(o, "CANCELLED", payment[o], "none")
     \/ /\ stage[o] = "PENDING" /\ payment[o] # "PAYMENT_VERIFIED"
        /\ Slip(o, "CANCELLED", payment[o])

Next ==
  \E o \in Orders :
    \/ Place(o) \/ Promote(o) \/ Revise(o)
    \/ SendQuote(o) \/ Declare(o) \/ Reject(o) \/ Verify(o)
    \/ Advance(o) \/ Cancel(o)

Spec == Init /\ [][Next]_vars
=============================================================================
