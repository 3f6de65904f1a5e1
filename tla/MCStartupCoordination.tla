----------------------- MODULE MCStartupCoordination ------------------------
(* StartupCoordination on small instances. *)
EXTENDS StartupCoordination, TLC

Symmetry == Permutations(Node)
=============================================================================
