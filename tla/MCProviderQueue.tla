--------------------------- MODULE MCProviderQueue ---------------------------
(* Instances of ProviderQueue for TLC. *)
EXTENDS ProviderQueue, TLC

CONSTANTS m1, m2, m3, f1, f2, s1, s2

MsgSymmetry == Permutations(Msgs)
=============================================================================
