--------------------------- MODULE MCStackConfig ---------------------------
(* Small instances of StackConfig for TLC. *)
EXTENDS StackConfig, TLC

Symmetric == Permutations(Stack) \cup Permutations(Mac) \cup Permutations(Addr)
               \cup Permutations(Iface)
============================================================================
