-------------------------------- MODULE Restart --------------------------------
(***************************************************************************)
(* How a terminal is stopped and launched again, over all slots of a pool:  *)
(* the durable sqlite budget (app/collector/restart_budget.py) that every   *)
(* stop reserves from, and the launch marker of start_terminal.  Whoever    *)
(* restarts a terminal (controller, watchdog, catalogue and server          *)
(* preparation) holds the mutex of its executable from finding the process  *)
(* to the launch; it may give up or die at any point, and the wall clock    *)
(* may be set back.                                                         *)
(***************************************************************************)
EXTENDS Integers

CONSTANTS
    Slots,          \* executables of the pool
    Callers,        \* processes and threads that restart terminals
    Global,         \* 120 s between any two stops
    PerSlot,        \* 900 s between stops of one slot
    Grace,          \* 60 s between launches of one slot
    MaxClock,       \* bound: last clock reading
    MaxProcesses    \* bound: terminal processes per slot

ASSUME BudgetAssumption ==
    /\ Slots # {}
    /\ Global \in Nat \ {0} /\ PerSlot \in Nat \ {0} /\ Grace \in Nat \ {0}
    /\ MaxClock \in Nat /\ MaxProcesses \in Nat \ {0}

VARIABLES
    clock,     \* the wall clock
    live,      \* identity of each slot's terminal, 0 if none
    used,      \* identities used so far, a new one for every process
    rows,      \* the attempts table: [Slots -> row], identity 0 is no row
    marker,    \* .terminal-launch.json of each slot, -1 if none
    pc,        \* where each caller is
    call,      \* what each caller holds: slot, identity, clock reading
    granted,   \* every row ever inserted
    launches   \* every Popen: slot, identity, clock reading

vars == <<clock, live, used, rows, marker, pc, call, granted, launches>>

terminals == <<live, used>>
callers == <<pc, call>>
ghosts == <<granted, launches>>

Times == 0 .. MaxClock
Identities == 0 .. MaxProcesses
NoRow == [identity |-> 0, at |-> 0]
NoCall == [slot |-> CHOOSE s \in Slots : TRUE, identity |-> 0, now |-> 0]
Recorded(s) == rows[s].identity # 0

Init ==
    /\ clock \in Times
    /\ live \in [Slots -> {0, 1}] /\ used = live
    /\ rows = [s \in Slots |-> NoRow]
    /\ marker = [s \in Slots |-> -1]
    /\ pc = [c \in Callers |-> "idle"]
    /\ call = [c \in Callers |-> NoCall]
    /\ granted = {} /\ launches = {}

Goto(c, where, what) == /\ pc' = [pc EXCEPT ![c] = where]
                        /\ call' = [call EXCEPT ![c] = what]

\* inventory_lock of the executable, never waiting; then find_process and, for
\* a process to stop, time.time().
Free(s) == \A c \in Callers : pc[c] # "idle" => call[c].slot # s

Enter(c) ==
    /\ pc[c] = "idle"
    /\ \E s \in Slots :
         /\ Free(s)
         /\ Goto(c, IF live[s] = 0 THEN "start" ELSE "reserve",
                 [slot |-> s, identity |-> live[s], now |-> clock])
    /\ UNCHANGED <<clock, terminals, rows, marker, ghosts>>

\* Mutants: no limit across slots; a row from the future does not count.
CoolingAlone(s, now) == Recorded(s) /\ now - rows[s].at < PerSlot
CoolingPast(s, now) ==
    \/ \E other \in Slots : Recorded(other) /\ now - rows[other].at \in 0 .. Global - 1
    \/ Recorded(s) /\ now - rows[s].at \in 0 .. PerSlot - 1

\* MAX(at) over all rows, and the slot's own row.
Cooling(s, now) ==
    \/ \E other \in Slots : Recorded(other) /\ now - rows[other].at < Global
    \/ Recorded(s) /\ now - rows[s].at < PerSlot

\* The transaction (BEGIN IMMEDIATE): the same process again is let through
\* without a new attempt.
Repeat(c) ==
    /\ pc[c] = "reserve"
    /\ rows[call[c].slot].identity = call[c].identity
    /\ Goto(c, "stop", call[c])
    /\ UNCHANGED <<clock, terminals, rows, marker, ghosts>>

\* Mutant: the same process may be recorded again.
ReserveAgain(c) ==
    LET s == call[c].slot
        new == [identity |-> call[c].identity, at |-> call[c].now]
    IN  /\ pc[c] = "reserve" /\ ~Cooling(s, call[c].now)
        /\ rows' = [rows EXCEPT ![s] = new]
        /\ granted' = granted \cup {[slot |-> s, target |-> new.identity, at |-> new.at]}
        /\ Goto(c, "stop", call[c])
        /\ UNCHANGED <<clock, terminals, marker, launches>>

Reserve(c) ==
    LET s == call[c].slot
        new == [identity |-> call[c].identity, at |-> call[c].now]
    IN  /\ pc[c] = "reserve"
        /\ rows[s].identity # call[c].identity
        /\ ~Cooling(s, call[c].now)
        /\ rows' = [rows EXCEPT ![s] = new]
        /\ granted' = granted \cup {[slot |-> s, target |-> new.identity, at |-> new.at]}
        /\ Goto(c, "stop", call[c])
        /\ UNCHANGED <<clock, terminals, marker, launches>>

\* RECOVERY_COOLDOWN, an unusable store, a stop that fails, an updater that
\* still runs, a launch within its grace; or the caller dies.
GiveUp(c) ==
    /\ pc[c] # "idle"
    /\ Goto(c, "idle", NoCall)
    /\ UNCHANGED <<clock, terminals, rows, marker, ghosts>>

\* Mutant: whatever runs at the path is stopped.
StopAnything(c) ==
    /\ pc[c] = "stop"
    /\ live' = [live EXCEPT ![call[c].slot] = 0]
    /\ Goto(c, "start", call[c])
    /\ UNCHANGED <<clock, used, rows, marker, ghosts>>

\* terminate_verified or the graceful close, only of the process found; the
\* terminal may also be gone already.
Stop(c) ==
    LET s == call[c].slot IN
    /\ pc[c] = "stop"
    /\ live[s] \in {0, call[c].identity}
    /\ live' = [live EXCEPT ![s] = 0]
    /\ Goto(c, "start", call[c])
    /\ UNCHANGED <<clock, used, rows, marker, ghosts>>

\* start_terminal: nothing to do when a process is there, else the marker is
\* written durably before the launch.
AlreadyRunning(c) ==
    /\ pc[c] = "start" /\ live[call[c].slot] # 0
    /\ Goto(c, "idle", NoCall)
    /\ UNCHANGED <<clock, terminals, rows, marker, ghosts>>

\* Mutant: a marker from the future counts as expired.
MarkOverFuture(c) ==
    LET s == call[c].slot IN
    /\ pc[c] = "start" /\ live[s] = 0
    /\ marker[s] >= 0 => clock - marker[s] \notin 0 .. Grace - 1
    /\ marker' = [marker EXCEPT ![s] = clock]
    /\ Goto(c, "launch", [call[c] EXCEPT !.now = clock])
    /\ UNCHANGED <<clock, terminals, rows, ghosts>>

Mark(c) ==
    LET s == call[c].slot IN
    /\ pc[c] = "start" /\ live[s] = 0
    /\ marker[s] >= 0 => clock - marker[s] >= Grace
    /\ marker' = [marker EXCEPT ![s] = clock]
    /\ Goto(c, "launch", [call[c] EXCEPT !.now = clock])
    /\ UNCHANGED <<clock, terminals, rows, ghosts>>

Launch(c) ==
    LET s == call[c].slot IN
    /\ pc[c] = "launch" /\ used[s] < MaxProcesses
    /\ used' = [used EXCEPT ![s] = @ + 1]
    /\ live' = [live EXCEPT ![s] = used'[s]]
    /\ launches' = launches \cup {[slot |-> s, identity |-> used'[s], at |-> call[c].now]}
    /\ Goto(c, "idle", NoCall)
    /\ UNCHANGED <<clock, rows, marker, granted>>

\* The terminal exits, or somebody else starts it.
Exits ==
    /\ \E s \in Slots : live[s] # 0 /\ live' = [live EXCEPT ![s] = 0]
    /\ UNCHANGED <<clock, used, rows, marker, callers, ghosts>>

Appears ==
    /\ \E s \in Slots :
         /\ live[s] = 0 /\ used[s] < MaxProcesses
         /\ used' = [used EXCEPT ![s] = @ + 1]
         /\ live' = [live EXCEPT ![s] = used'[s]]
    /\ UNCHANGED <<clock, rows, marker, callers, ghosts>>

\* Time passes, or the clock is corrected, forwards or backwards.
SetClock ==
    /\ clock' \in Times
    /\ UNCHANGED <<terminals, rows, marker, callers, ghosts>>

Next ==
    \/ \E c \in Callers :
         \/ Enter(c) \/ Repeat(c) \/ Reserve(c) \/ GiveUp(c)
         \/ Stop(c) \/ AlreadyRunning(c) \/ Mark(c) \/ Launch(c)
    \/ Exits \/ Appears \/ SetClock

Spec == Init /\ [][Next]_vars

-------------------------------------------------------------------------------
\* The type of every variable.
TypeOK ==
    /\ clock \in Times
    /\ live \in [Slots -> Identities] /\ used \in [Slots -> Identities]
    /\ rows \in [Slots -> [identity : Identities, at : Times]]
    /\ marker \in [Slots -> Times \cup {-1}]
    /\ pc \in [Callers -> {"idle", "reserve", "stop", "start", "launch"}]
    /\ call \in [Callers -> [slot : Slots, identity : Identities, now : Times]]
    /\ granted \subseteq [slot : Slots, target : Identities, at : Times]
    /\ launches \subseteq [slot : Slots, identity : Identities, at : Times]

Abstract == INSTANCE Throttle WITH Targets <- Identities

\* Stops are spaced in the readings of the clock, whatever the clock does and
\* however many processes ask at once (restart_budget.py:29-31).
Spaced == Abstract!Spaced

\* The budget implements the promise, step by step: no step grants two.
ImplementsThrottle == Abstract!Spec

\* No running terminal is stopped unless the budget's row is for exactly that
\* process, even when the caller only repeated an earlier attempt ("Apply to
\* graceful and forced recovery alike", restart_budget.py:3).
StoppedWasRecorded ==
    [][\A c \in Callers : LET s == call[c].slot IN
          Stop(c) /\ live[s] # 0 => rows[s].identity = live[s]]_vars

\* One process uses up one attempt: asking again for it never postpones the
\* recovery of the others ("idempotent", restart_budget.py:4).
OneAttemptPerProcess ==
    \A g, h \in granted : g.slot = h.slot /\ g.target = h.target => g = h

\* Two launches of one slot are a grace apart in the readings of the clock, so a
\* crashed or racing caller never starts a terminal twice (server_preparation.py:71).
LaunchesSpaced ==
    \A l, m \in launches :
        l.slot = m.slot /\ l # m => l.at - m.at >= Grace \/ m.at - l.at >= Grace
===============================================================================
