---------------------------- MODULE MCCatalogue ----------------------------
(* Times to live for TLC, in ticks: collections outlive products.          *)
EXTENDS Catalogue, TLC
MCLife == [k \in AllKeys |-> IF k \in CollectionKeys THEN 2 ELSE 1]
FillerSymmetry == Permutations(Fillers)
=============================================================================
