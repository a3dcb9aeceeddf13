------------------------------ MODULE MCWallet ------------------------------
(* Instances of Wallet. *)
EXTENDS Wallet, TLC

CONSTANTS s1, s2

SlotSymmetry == Permutations(Slots)
=============================================================================
