---------------------------- MODULE MC_Pipeline ----------------------------
(* Pipeline with at most MaxDisturbances of what may disturb it: a new        *)
(* session, an edit and a reload of the profile, a failing source and the end *)
(* of the engine, in any combination.                                         *)
EXTENDS Pipeline
CONSTANT MaxDisturbances
Count(condition) == IF condition THEN 1 ELSE 0
Disturbances ==
    capture.session - 1 + profile.stored - 1 + profile.revision
    + Count(capture.error \/ faulted # {}) + Count(stop # "no")
FewDisturbances == Disturbances <= MaxDisturbances
=============================================================================
