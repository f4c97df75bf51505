------------------------------ MODULE UiRecovery ------------------------------
(***************************************************************************)
(* When the watchdog (scripts/watch_mt5_health.py) gives up on a terminal   *)
(* whose UI is stuck: app/collector/ui_recovery.py fences it only after a   *)
(* UI error, whichever of them, of the same process in the same generation  *)
(* was seen often and long enough, and only within a budget kept in a file. *)
(* Sightings are lost when the watchdog dies, the file is not; the wall     *)
(* clock may be set back.                                                   *)
(***************************************************************************)
EXTENDS Integers, Sequences

CONSTANTS
    Slots, Signatures,   \* (processIdentity, generation) pairs
    Span, Gap,           \* 120 s: first to last sighting; between two of them
    Sightings,           \* 3
    Global, PerSlot,     \* 120 s, 900 s
    MaxClock, MaxPasses  \* bounds: last clock reading, passes of one watchdog

ASSUME UiAssumption ==
    /\ {Span, Gap, Global, PerSlot, Sightings, MaxClock, MaxPasses} \subseteq Nat
    /\ Global # 0 /\ PerSlot # 0 /\ Sightings # 0

VARIABLES
    clock,         \* the wall clock; readings start late enough for an empty budget
    todo,          \* slots this pass has still to look at
    observations,  \* the sightings, as ui_recovery.py keeps them
    log,           \* every answer about a slot since the watchdog started
    cur,           \* the slot a fence is under way for, its signature and clock
    step,          \* where that fence is
    budget,        \* the file: last grant of all, and of each slot
    granted        \* every grant ever written

vars == <<clock, todo, observations, log, cur, step, budget, granted>>

Start == IF Global > PerSlot THEN Global ELSE PerSlot
Times == Start .. Start + MaxClock
None == [count |-> 0]
Healthy == "healthy"
NoFence == [slot |-> "", now |-> 0]

Init ==
    /\ clock \in Times
    /\ todo = Slots
    /\ observations = [s \in Slots |-> None]
    /\ log = [s \in Slots |-> <<>>]
    /\ cur = NoFence /\ step = "pass"
    /\ budget = [all |-> 0, of |-> [s \in Slots |-> 0]]
    /\ granted = {}

\* Mutant: any sighting counts towards the last one.
SightedAnything(old, sig, now) ==
    IF old = None \/ now - old.last > Gap
    THEN [sig |-> sig, first |-> now, last |-> now, count |-> 1]
    ELSE [old EXCEPT !.sig = sig, !.last = now, !.count = @ + 1]

\* observe: a row that is healthy, quarantined, incomplete or older than 120 s
\* is "healthy" here and forgets the slot.
Sighted(old, sig, now) ==
    IF old = None \/ old.sig # sig \/ now - old.last > Gap
    THEN [sig |-> sig, first |-> now, last |-> now, count |-> 1]
    ELSE [old EXCEPT !.last = now, !.count = @ + 1]

\* Mutant: one sighting more than needed.
DueLate(o, now) == now - o.first >= Span /\ o.count > Sightings

Due(o, now) == o.count > 1 /\ now - o.first >= Span /\ o.count >= Sightings

Observe(s, row) ==
    /\ step = "pass" /\ s \in todo /\ Len(log[s]) < MaxPasses
    /\ todo' = IF todo = {s} THEN Slots ELSE todo \ {s}
    /\ log' = [log EXCEPT ![s] = Append(@, [at |-> clock, row |-> row])]
    /\ LET o == IF row = Healthy THEN None ELSE Sighted(observations[s], row, clock)
       IN  /\ observations' = [observations EXCEPT ![s] = o]
           /\ IF o # None /\ Due(o, clock)
              THEN step' = "reserve" /\ cur' = [slot |-> s, sig |-> row, now |-> 0]
              ELSE UNCHANGED <<step, cur>>
    /\ UNCHANGED <<clock, budget, granted>>

\* Mutant: no limit across slots.
RefusesAlone(s, now) == now - budget.of[s] < PerSlot

\* reserve: in its cooldown nothing is written; otherwise the new state goes to
\* a temporary file that replaces the old one.
Refuses(s, now) == now - budget.all < Global \/ now - budget.of[s] < PerSlot

Reserve ==
    /\ step = "reserve"
    /\ IF Refuses(cur.slot, clock)
       THEN step' = "pass" /\ cur' = NoFence
       ELSE step' = "replace" /\ cur' = [cur EXCEPT !.now = clock]
    /\ UNCHANGED <<clock, todo, observations, log, budget, granted>>

Replace ==
    /\ step = "replace"
    /\ budget' = [all |-> cur.now, of |-> [budget.of EXCEPT ![cur.slot] = cur.now]]
    /\ granted' = granted \cup {[slot |-> cur.slot, target |-> cur.sig, at |-> cur.now]}
    /\ step' = "fence"
    /\ UNCHANGED <<clock, todo, observations, log, cur>>

\* fence_ui_failure, whatever comes of it (SlotRecovery has its steps).
Fence ==
    /\ step = "fence"
    /\ step' = "pass" /\ cur' = NoFence
    /\ UNCHANGED <<clock, todo, observations, log, budget, granted>>

\* The watchdog dies and is started again.
Crash ==
    /\ todo' = Slots
    /\ observations' = [s \in Slots |-> None]
    /\ log' = [s \in Slots |-> <<>>]
    /\ step' = "pass" /\ cur' = NoFence
    /\ UNCHANGED <<clock, budget, granted>>

SetClock ==
    /\ clock' \in Times
    /\ UNCHANGED <<todo, observations, log, cur, step, budget, granted>>

Next ==
    \/ \E s \in Slots, row \in Signatures \cup {Healthy} : Observe(s, row)
    \/ Reserve \/ Replace \/ Fence \/ Crash \/ SetClock

Spec == Init /\ [][Next]_vars

-------------------------------------------------------------------------------
Rows == Signatures \cup {Healthy}
Sighting == [sig : Signatures, first : Times, last : Times, count : 1 .. MaxPasses]

\* The type of every variable.
TypeOK ==
    /\ clock \in Times /\ todo \subseteq Slots
    /\ observations \in [Slots -> {None} \cup Sighting]
    /\ log \in [Slots -> Seq([at : Times, row : Rows])]
    /\ step \in {"pass", "reserve", "replace", "fence"}
    /\ cur \in {NoFence} \cup [slot : Slots, sig : Signatures, now : Times \cup {0}]
    /\ budget \in [all : Times \cup {0}, of : [Slots -> Times \cup {0}]]
    /\ granted \subseteq [slot : Slots, target : Signatures, at : Times]

\* What "persistent" means, from the answers alone: the last ones, for Span and
\* Sightings at least, all show the same signature with no gap in between.
Persistent(l) ==
    \E i \in DOMAIN l :
        /\ l[i].row # Healthy
        /\ \A j \in i .. Len(l) : l[j].row = l[i].row
        /\ \A j \in i .. Len(l) - 1 : l[j + 1].at - l[j].at <= Gap
        /\ Len(l) - i + 1 >= Sightings
        /\ l[Len(l)].at - l[i].at >= Span

Monotone(l) == \A i \in 1 .. Len(l) - 1 : l[i].at <= l[i + 1].at

\* A terminal is fenced for its UI only on persistent evidence about the very
\* process and session named: one good answer, another process or a silence in
\* between starts the count again (ui_recovery.py:28-37).
FencedOnEvidence ==
    step # "pass" => Persistent(log[cur.slot]) /\ log[cur.slot][Len(log[cur.slot])].row = cur.sig

\* Persistent evidence is acted on as soon as it is complete, while the clock is
\* not set back: the reservation is tried in that very pass, after however many
\* that a budget refused (ui_recovery.py:37, fence_ui_failure).
EvidenceIsActedOn ==
    [][\A s \in Slots :
          /\ log'[s] # log[s] /\ log'[s] # <<>>
          /\ Monotone(log'[s]) /\ Persistent(log'[s])
          => step' = "reserve" /\ cur'.slot = s]_vars

Abstract == INSTANCE Throttle WITH Targets <- Signatures

\* The file is a Throttle of its own: neither a crash between any two steps of
\* the write nor a new watchdog grants early ("Durable cooldowns survive
\* watchdog restarts", ui_recovery.py:40).
ImplementsThrottle == Abstract!Spec
===============================================================================
