---------------------------- MODULE MCAssistant ----------------------------
EXTENDS Assistant, TLC
\* Requests are interchangeable.
WorkerSymmetry == Permutations(Workers)
=============================================================================
