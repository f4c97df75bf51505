------------------------------- MODULE MCHistory -------------------------------
(* History for TLC: deals are interchangeable, so they are numbered by time;  *)
(* an account whose positions alone fill a result collects nothing.  What     *)
(* positions and trading rights change does not depend on the download.       *)
EXTENDS History

Reduced == /\ \A d, e \in Deals : d <= e => at[d] <= at[e]
           /\ positions < Limit
           /\ positions > 0 => adaptive /\ known = Deals
           /\ granted = "trading" \/ consented => adaptive /\ positions = 0 /\ known = Deals
===============================================================================
