------------------------------ MODULE MCPorts ------------------------------
(***************************************************************************)
(* Instances of DyscoPorts for TLC: the CPUs are interchangeable.          *)
(***************************************************************************)
EXTENDS DyscoPorts, TLC

Symmetry == Permutations(Cpus)
=============================================================================
