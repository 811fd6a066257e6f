--------------------------- MODULE MCManualReview ---------------------------
(* Small instances of ManualReview for TLC. *)
EXTENDS ManualReview, TLC

Symmetry == Permutations(Devices) \cup Permutations(Names)
              \cup Permutations(Slots)
=============================================================================
