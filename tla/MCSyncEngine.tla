---------------------------- MODULE MCSyncEngine ----------------------------
(***************************************************************************)
(* Instances of SyncEngine for TLC.                                        *)
(***************************************************************************)
EXTENDS SyncEngine, TLC

(* Keys and passes are interchangeable; no liveness property is checked    *)
(* under symmetry.                                                         *)
SafetySymmetry == Permutations(Passes) \cup Permutations(Keys)
=============================================================================
