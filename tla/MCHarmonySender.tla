--------------------------- MODULE MCHarmonySender ---------------------------
(* HarmonySender for TLC: processes and batch names are interchangeable. *)
EXTENDS HarmonySender, TLC

SenderSymmetry == Permutations(Procs) \union Permutations(Batches)
=============================================================================
