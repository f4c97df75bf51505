------------------------------- MODULE Telemetry -------------------------------
(***************************************************************************)
(* app/collector/telemetry.py: which failures the controller and the        *)
(* watchdog report to the operator.  A transient failure has to persist in  *)
(* a slot first, by its process's own count and monotonic clock; then one   *)
(* event per code is sent in Reminder, by a sqlite table both processes     *)
(* share, and by each process's memory while the table cannot be used.      *)
(*                                                                          *)
(* A key is a code, with its reason when that is critical.  There are no    *)
(* clock variables: a report brings the readings it is made under.          *)
(***************************************************************************)
EXTENDS Integers, Sequences, FiniteSets

CONSTANTS
    Procs, Slots, Times,    \* Times: readings of either clock
    Keys, Transient,        \* what is reported; TRANSIENT without critical reasons
    Reminder, Keep,         \* 6 hours between events; 7 days until a row goes
    Ahead,                  \* 60 s: a row further ahead of the clock does not count
    Sustained, Gap, Least,  \* 180 s; at most 300 s between reports; 3 of them
    Room                    \* 256 counts are kept

VARIABLES
    table,      \* the row of each key in the table sent, or NoTime
    seen,       \* _seen of each process
    pending,    \* _pending of each process, by key and slot
    mono,       \* the monotonic clock as each process last read it
    peak,       \* the latest reading of the wall clock
    sent,       \* ghost: the events, with their readings and what let them through
    log         \* ghost: readings of a slot's failures since it last recovered

vars == <<table, seen, pending, mono, peak, sent, log>>

NoTime == -1
NoCount == [first |-> 0, last |-> 0, count |-> 0]
Places == Keys \X Slots

Init ==
    /\ table = [k \in Keys |-> NoTime]
    /\ seen = [p \in Procs |-> table]
    /\ pending = [p \in Procs |-> [x \in Places |-> NoCount]]
    /\ mono = [p \in Procs |-> 0] /\ peak = 0
    /\ sent = <<>>
    /\ log = [p \in Procs |-> [x \in Places |-> <<>>]]

\* The count goes on, or begins again after a silence.
Counted(old, now) ==
    IF old.count = 0 \/ now - old.last > Gap
    THEN [first |-> now, last |-> now, count |-> 1]
    ELSE [first |-> old.first, last |-> now, count |-> old.count + 1]

Persists(o) == o.count >= Least /\ o.last - o.first >= Sustained

(***************************************************************************)
(* reserve_event.                                                          *)
(***************************************************************************)
Free(k, t) == table[k] = NoTime \/ t - table[k] >= Reminder \/ table[k] - t > Ahead

Upserted(k, t) == IF Free(k, t) THEN [table EXCEPT ![k] = t] ELSE table
Cleaned(rows, t) == [k \in Keys |-> IF t - rows[k] > Keep THEN NoTime ELSE rows[k]]

Send(k, t, by) == sent' = Append(sent, [key |-> k, at |-> t, by |-> by])
Remember(p, k, t) == seen' = [seen EXCEPT ![p][k] = t]

\* One transaction: the row is inserted or renewed, old rows go, and what is
\* there is remembered.
ByTable(p, k, t) ==
    /\ table' = Cleaned(Upserted(k, t), t)
    /\ Remember(p, k, Upserted(k, t)[k])
    /\ IF Free(k, t) THEN Send(k, t, "table") ELSE UNCHANGED sent

\* The transaction fails before anything of it is remembered.
ByMemory(p, k, t) ==
    /\ IF seen[p][k] # NoTime /\ 0 <= t - seen[p][k] /\ t - seen[p][k] < Reminder
       THEN UNCHANGED <<seen, sent>>
       ELSE Remember(p, k, t) /\ Send(k, t, "memory")
    /\ UNCHANGED table

\* Only its commit fails: the row that was rolled back is remembered already, and
\* the memory then takes it for an event that was sent.
CommitFails(p, k, t) ==
    /\ IF Free(k, t) \/ t >= table[k]
       THEN Remember(p, k, Upserted(k, t)[k]) /\ UNCHANGED sent
       ELSE Remember(p, k, t) /\ Send(k, t, "memory")
    /\ UNCHANGED table

\* The wall clock is not set back further than Ahead.
Reserve(p, k, t) ==
    /\ t >= peak - Ahead /\ peak' = IF t > peak THEN t ELSE peak
    /\ ByTable(p, k, t) \/ ByMemory(p, k, t) \/ CommitFails(p, k, t)

(***************************************************************************)
(* report.                                                                 *)
(***************************************************************************)
Note(p, k, s, now) ==
    /\ now >= mono[p] /\ mono' = [mono EXCEPT ![p] = now]
    /\ log' = [log EXCEPT ![p][<<k, s>>] = Append(@, now)]

Unreserved == UNCHANGED <<table, seen, sent, peak>>

\* Another count makes room for a new one where Room of them are held (the code
\* takes the oldest).
Held(p) == {x \in Places : pending[p][x].count > 0}
Roomed(p, x) ==
    IF x \in Held(p) \/ Cardinality(Held(p)) < Room
    THEN {pending[p]}
    ELSE {[pending[p] EXCEPT ![y] = NoCount] : y \in Held(p)}

ReportTransient(p, k, s, now, t) ==
    /\ k \in Transient /\ Note(p, k, s, now)
    /\ LET o == Counted(pending[p][<<k, s>>], now)
       IN  /\ \E held \in Roomed(p, <<k, s>>) :
                pending' = [pending EXCEPT ![p] = [held EXCEPT ![<<k, s>>] = o]]
           /\ IF Persists(o) THEN Reserve(p, k, t) ELSE Unreserved

ReportOther(p, k, s, now, t) ==
    /\ k \in Keys \ Transient /\ Note(p, k, s, now)
    /\ Reserve(p, k, t)
    /\ UNCHANGED pending

\* A slot works again: all its counts go.
Recovered(p, s) ==
    /\ pending' = [pending EXCEPT ![p] =
                     [x \in Places |-> IF x[2] = s THEN NoCount ELSE pending[p][x]]]
    /\ log' = [log EXCEPT ![p] =
                     [x \in Places |-> IF x[2] = s THEN <<>> ELSE log[p][x]]]
    /\ UNCHANGED <<table, seen, sent, mono, peak>>

\* A process is started again; the clock of the machine goes on.
Restarted(p) ==
    /\ seen' = [seen EXCEPT ![p] = [k \in Keys |-> NoTime]]
    /\ pending' = [pending EXCEPT ![p] = [x \in Places |-> NoCount]]
    /\ log' = [log EXCEPT ![p] = [x \in Places |-> <<>>]]
    /\ UNCHANGED <<table, sent, mono, peak>>

Step(p) ==
    \/ \E k \in Keys, s \in Slots, now \in Times, t \in Times :
         ReportTransient(p, k, s, now, t) \/ ReportOther(p, k, s, now, t)
    \/ \E s \in Slots : Recovered(p, s)
    \/ Restarted(p)

Next == \E p \in Procs : Step(p)

Spec == Init /\ [][Next]_vars

-------------------------------------------------------------------------------
\* The type of every variable.
Time == Nat \cup {NoTime}
TypeOK ==
    /\ table \in [Keys -> Time] /\ seen \in [Procs -> [Keys -> Time]]
    /\ pending \in [Procs -> [Places -> [first : Nat, last : Nat, count : Nat]]]
    /\ mono \in [Procs -> Nat] /\ peak \in Nat
    /\ sent \in Seq([key : Keys, at : Nat, by : {"table", "memory"}])
    /\ log \in [Procs -> [Places -> Seq(Nat)]]

\* "One event per code across slots/processes" (telemetry.py:32): events the
\* table lets through are Reminder apart, whichever processes ask and however
\* often they are started again, as long as the wall clock is not set back by
\* more than the minute the code allows for.
OnePerReminder ==
    \A i, j \in DOMAIN sent :
        /\ i < j /\ sent[i].key = sent[j].key
        /\ sent[i].by = "table" /\ sent[j].by = "table"
        => sent[j].at - sent[i].at >= Reminder

\* What it takes to report a transient failure, from the slot's failures alone:
\* since it last recovered the last Least of them at least, over Sustained, none
\* more than Gap after the other.
Persistent(l) ==
    \E i \in 1 .. Len(l) :
        /\ Len(l) - i + 1 >= Least
        /\ l[Len(l)] - l[i] >= Sustained
        /\ \A j \in i .. Len(l) - 1 : l[j + 1] - l[j] <= Gap

\* "TERMINAL_CHANGED ... after at least three observations in an incident of 180
\* seconds or more; a success starts the count again, and so does a gap of 300
\* seconds" (docs/telemetry-noise-20261002.uk.md): no event of a transient code
\* is sent on less.
OnlyPersistent ==
    [][\A k \in Transient :
         sent' # sent /\ sent'[Len(sent')].key = k
         => \E p \in Procs, s \in Slots :
              /\ log'[p][<<k, s>>] # log[p][<<k, s>>]
              /\ Persistent(log'[p][<<k, s>>])]_vars
===============================================================================
