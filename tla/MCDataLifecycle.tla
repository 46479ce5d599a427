--------------------------- MODULE MCDataLifecycle ---------------------------
(***************************************************************************)
(* DataLifecycle for TLC: no step tells the requests of a project apart,   *)
(* nor the maintainers.                                                    *)
(***************************************************************************)
EXTENDS DataLifecycle, TLC

Symmetry == Permutations(Request) \cup Permutations(Maintainer)
=============================================================================
