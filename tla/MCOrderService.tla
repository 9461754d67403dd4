-------------------------- MODULE MCOrderService --------------------------
(* Values of the constants of OrderService for TLC: one product of which two  *)
(* units are on hand, so that orders of one or two units compete for it.      *)
EXTENDS OrderService, TLC

OneProductStock == [p \in Products |-> 2]
\* one or two units of the single product
SmallCarts == {[p \in Products |-> n] : n \in 1 .. 2}
\* all handlers but the delivery form and the customer's view of a quotation,
\* without which a sales person may record a payment
StaffHandlers == Kinds \ {"saveDelivery", "viewQuotation", "renderQuotation"}
\* placing, revising and cancelling
CancelAndRevise == {"checkout", "updateItems", "updateStatus"}
\* ... and promoting: what moves the reservations of orders not yet quoted
HoldHandlers == CancelAndRevise \cup {"promote"}
Adjustments == {-1, 1}
WorkerSymmetry == Permutations(Workers)
OrderSymmetry == Permutations(Orders) \cup Permutations(Workers)
=============================================================================
