---------------------------- MODULE MCAddresses ----------------------------
(* A small instance of Addresses for TLC: ports of two bits. *)
EXTENDS Addresses, TLC
Symmetry == Permutations(Sock)
============================================================================
