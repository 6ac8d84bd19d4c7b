----------------------------- MODULE MCBindings -----------------------------
(* Instance of Bindings for TLC: objects, and addresses of hives, are      *)
(* interchangeable.                                                        *)
EXTENDS Bindings

Symmetry == Permutations(Objs) \cup Permutations(Hives)
=============================================================================
