------------------------- MODULE MC_CameraLifecycle -------------------------
(* Instances of CameraLifecycle for TLC: two request handlers, which are     *)
(* interchangeable.                                                          *)
EXTENDS CameraLifecycle, TLC

Symmetry == Permutations(Callers)
=============================================================================
