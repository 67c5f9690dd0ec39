----------------------------- MODULE MCRelayer -----------------------------
(* The deployed margins, and costs around the bootstrap cost in thousands  *)
(* of stroops: a cheap outlier, a drift within the headroom and a jump     *)
(* beyond it.                                                              *)
EXTENDS Relayer, TLC

Symmetry == Permutations(Submitters)
=============================================================================
