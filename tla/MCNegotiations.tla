--------------------------- MODULE MCNegotiations ---------------------------
(* Requests are interchangeable.                                           *)
EXTENDS Negotiations
WorkerSymmetry == Permutations(Workers)
=============================================================================
