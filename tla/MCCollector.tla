---------------------------- MODULE MCCollector ----------------------------
(***************************************************************************)
(* Instances of Collector small enough for TLC.  Collectors differ in      *)
(* nothing but their name, so a run without liveness may take them as      *)
(* interchangeable.                                                        *)
(***************************************************************************)
EXTENDS Collector, TLC

CollectorSymmetry == Permutations(Collector)

============================================================================
