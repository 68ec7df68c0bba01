---------------------------- MODULE MC_SceneReview ----------------------------
(* SceneReview for TLC: the threads that serve the routes are alike. *)
EXTENDS SceneReview, TLC

Alike == Permutations(Handlers)
=============================================================================
