----------------------------- MODULE MCMfaRelay -----------------------------
(* Two numbers are a challenge and the one that replaces it; with five     *)
(* polls both interstitials, both numbers and the return fit in one run,   *)
(* and the state left by one run is there for the next.                    *)
EXTENDS MfaRelay
=============================================================================
