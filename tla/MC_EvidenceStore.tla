-------------------------- MODULE MC_EvidenceStore --------------------------
(* The instance of EvidenceStore for TLC: three callbacks, the first of an    *)
(* older movement, the others two deliveries of one source window.            *)
EXTENDS EvidenceStore, TLC

CONSTANTS e1, e2, e3

Windows == e1 :> 1 @@ e2 :> 2 @@ e3 :> 2
Symmetry == Permutations(Blobs) \cup Permutations({e2, e3})
=============================================================================
