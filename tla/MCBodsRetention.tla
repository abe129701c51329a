--------------------------- MODULE MCBodsRetention ---------------------------
(* BodsRetention with interchangeable operators. *)
EXTENDS BodsRetention, TLC

Interchangeable == Permutations(Operators)
=============================================================================
