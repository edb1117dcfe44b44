----------------------------- MODULE MCBlkQueue -----------------------------
(* Small instances of BlkQueue for TLC. *)
EXTENDS BlkQueue, TLC

HeadSymmetry == Permutations(Heads)
=============================================================================
