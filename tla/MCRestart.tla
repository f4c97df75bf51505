------------------------------- MODULE MCRestart -------------------------------
(* Restart for TLC: slots and callers are interchangeable model values. *)
EXTENDS Restart, TLC
CONSTANTS s1, s2, worker, watchdog
Symmetry == Permutations({s1, s2}) \cup Permutations({worker, watchdog})

\* A second terminal in one slot, or one in each.
FewProcesses == \A s, t \in Slots : s # t => used[s] + used[t] <= MaxProcesses
===============================================================================
