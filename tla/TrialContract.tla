---------------------------- MODULE TrialContract ----------------------------
(***************************************************************************)
(* What a validation trial promises to the acceptance service, whatever    *)
(* its frames were: a movement is confirmed once, its event is emitted     *)
(* once and never after the trial was called off, the other kinds end      *)
(* without an event, and a confirmed movement does not stay undecided.     *)
(* AcceptanceRun implements this contract; module Acceptance relies on it. *)
(***************************************************************************)
CONSTANT Kinds
VARIABLES kind, outcome

Outcomes == {"unarmed", "armed", "confirmed", "emitted", "completed", "over"}

Init == kind \in Kinds /\ outcome = "unarmed"

Becomes(from, to) == outcome = from /\ outcome' = to /\ UNCHANGED kind

Arm == Becomes("unarmed", "armed")
Confirm == kind = "movement" /\ Becomes("armed", "confirmed")
Complete == kind \in {"stationary", "minor_adjustment", "occlusion"} /\ Becomes("armed", "completed")
CallOff == Becomes("armed", "over")
Emit == Becomes("confirmed", "emitted")
Withdraw == Becomes("confirmed", "over")
Settle == Emit \/ Withdraw

Next == Arm \/ Confirm \/ Complete \/ CallOff \/ Settle
Spec == Init /\ [][Next]_<<kind, outcome>> /\ WF_<<kind, outcome>>(Settle)
=============================================================================
