--------------------------- MODULE MCHarmonyProver ---------------------------
(* Instances of HarmonyProver for TLC. *)
EXTENDS HarmonyProver, TLC

\* Relayers run the same commands; only safety is checked under the symmetry.
RelayerSymmetry == Permutations(Relayers)
=============================================================================
