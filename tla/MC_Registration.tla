--------------------------- MODULE MC_Registration ---------------------------
(* Registration for TLC: handlers, photographs and models are alike. *)
EXTENDS Registration, TLC

\* The photographs as they were stored, and the crops of the first build.
SomeFiles == Refs \X {0, 2}
Alike == Permutations(Handlers) \cup Permutations(Refs) \cup Permutations(Models)
=============================================================================
