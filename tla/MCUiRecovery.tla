----------------------------- MODULE MCUiRecovery -----------------------------
(* UiRecovery for TLC: slots and signatures are model values. *)
EXTENDS UiRecovery
CONSTANTS s1, s2, a, b

\* One slot shows every answer at every reading of the clock, the other only
\* one error at readings that do not go back.
OneVaries == Monotone(log[s2]) /\ \A i \in DOMAIN log[s2] : log[s2][i].row = a
===============================================================================
