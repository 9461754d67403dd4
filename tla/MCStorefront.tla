---------------------------- MODULE MCStorefront ----------------------------
(* Values of the constants of Storefront for TLC. *)
EXTENDS Storefront, TLC
\* Any one tile is without a room type.
Bare == CHOOSE q \in Products : TRUE
Rooms == [q \in Products |-> IF q = Bare THEN {} ELSE {"KITCHEN", "BATHROOM"}]
Prices == [q \in Products |-> IF q = Bare THEN 3 ELSE 2]
Windows == {[n |-> 2, unit |-> 1], [n |-> 1, unit |-> 2]}
Symmetry == Permutations(Users) \union Permutations(Workers)
\* Parts in different scenes share no rows, or no property relates them.
Roomy == Products \ {Bare}
Few == {[parts |-> {"visits"}, tiles |-> Roomy, requests |-> 3, orders |-> 2, atOnce |-> 2],
        [parts |-> {"visits", "orders"}, tiles |-> Roomy, requests |-> 2, orders |-> 2, atOnce |-> 1],
        [parts |-> {"wishes", "orders"}, tiles |-> Roomy, requests |-> 2, orders |-> 2, atOnce |-> 1],
        [parts |-> {"orders"}, tiles |-> Roomy, requests |-> 4, orders |-> 2, atOnce |-> 1],
        [parts |-> {"orders"}, tiles |-> Products, requests |-> 4, orders |-> 1, atOnce |-> 1],
        [parts |-> {"cart"}, tiles |-> Roomy, requests |-> 5, orders |-> 2, atOnce |-> 2],
        [parts |-> {"favorites"}, tiles |-> Roomy, requests |-> 4, orders |-> 2, atOnce |-> 2],
        [parts |-> {"stock"}, tiles |-> Roomy, requests |-> 4, orders |-> 2, atOnce |-> 1]}
=============================================================================
