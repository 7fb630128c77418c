--------------------------- MODULE MCDdnsRefresh ---------------------------
(* Instances of DdnsRefresh for TLC. *)
EXTENDS DdnsRefresh, TLC

\* Addresses are only compared.
Symmetry == Permutations(IPv4s)
=============================================================================
