---------------------------- MODULE MC_Acceptance ----------------------------
(* Two request handlers: one conducts the trials, the other interferes. *)
EXTENDS Acceptance
CONSTANTS r, s
Roles == [t \in Requests |-> IF t = r THEN {"start", "reconnect", "poll"} ELSE {"cancel", "launch", "stop"}]
=============================================================================
