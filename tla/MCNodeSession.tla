---------------------------- MODULE MCNodeSession ----------------------------
(* NodeSession for TLC: either attempts fail or the agent crashes; both         *)
(* together are left to the proofs, and to the finding of the run outage.      *)
EXTENDS NodeSession

OneMishap == faults = MaxFaults \/ crashes = MaxCrashes
===============================================================================
