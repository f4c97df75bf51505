------------------------------- MODULE Throttle -------------------------------
(***************************************************************************)
(* What a recovery budget promises: destructive recoveries are spaced, all  *)
(* of them by Global and those of one slot by PerSlot, in the readings of   *)
(* the clock that each was granted under.  Restart and UiRecovery, two      *)
(* stores kept by different processes, both implement it.                   *)
(***************************************************************************)
EXTENDS Integers

CONSTANTS Slots, Targets, Times, Global, PerSlot

VARIABLE granted   \* every grant: the slot, what it was for, the clock reading

Far(g, s, t) == /\ t - g.at >= Global
                /\ g.slot = s => t - g.at >= PerSlot

Grant(s, w, t) ==
    /\ \A g \in granted : Far(g, s, t)
    /\ granted' = granted \cup {[slot |-> s, target |-> w, at |-> t]}

Init == granted = {}
Next == \E s \in Slots, w \in Targets, t \in Times : Grant(s, w, t)
Spec == Init /\ [][Next]_granted

\* Any two grants are apart, whichever came first: no clock step backwards, no
\* crash and no second process brings two recoveries closer.
Spaced ==
    \A g, h \in granted : g # h => Far(g, h.slot, h.at) \/ Far(h, g.slot, g.at)
===============================================================================
