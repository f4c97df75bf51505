------------------------------ MODULE JobDeadline ------------------------------
(***************************************************************************)
(* The timing of one claimed job, in seconds: app/collector/worker.py       *)
(* run_child, the deadline checks of SlotWorker.once around it, and the     *)
(* three attempts of the /complete that follows (NodeClient.call).          *)
(* SlotRecovery relies on it: a lease never ends under a watched child.     *)
(***************************************************************************)
EXTENDS Integers

CONSTANTS
    Remaining,     \* what may be left of the lease once the credentials are here
    MaxRun,        \* 125: timeout of the child
    Reserve,       \* 35: kept for what follows the child
    MinLeft,       \* 40: less than this is LEASE_DEADLINE_TOO_CLOSE
    Beat,          \* 20: heartbeat_interval
    CallMax,       \* longest heartbeat: three attempts and their delays
    HttpTimeout,   \* longest attempt: the 10 are a limit for each socket operation
    RetryAfter     \* longest Retry-After the API sends, up to 10 are obeyed

ASSUME TimingAssumption ==
    /\ Remaining \subseteq Nat
    /\ {MaxRun, Reserve, MinLeft, Beat, CallMax, HttpTimeout, RetryAfter} \subseteq Nat
    /\ Beat > 0 /\ Reserve <= MinLeft

VARIABLES
    left,      \* what is left of the lease
    pc,        \* the worker's main thread
    polled,    \* the watch loop has run in this second
    child,     \* the native child
    timeout,   \* seconds until the child is killed
    beat,      \* the heartbeat: none, pending, answered or failed
    since,     \* seconds since the child, or a heartbeat, was last started
    spent      \* seconds since the step pc names began
vars == <<left, pc, polled, child, timeout, beat, since, spent>>

Kill == child' = "dead"
Smaller(a, b) == IF a < b THEN a ELSE b
Larger(a, b) == IF a > b THEN a ELSE b
LessOne(n) == IF n > 0 THEN n - 1 ELSE 0

Init ==
    /\ left \in Remaining
    /\ pc = "check" /\ polled = FALSE /\ child = "none"
    /\ timeout = 0 /\ beat = "none" /\ since = 0 /\ spent = 0

\* Mutant: the reserve for reporting is forgotten.
CheckUnreserved ==
    /\ pc = "check"
    /\ IF left < MinLeft
       THEN pc' = "gone" /\ UNCHANGED <<child, timeout>>
       ELSE pc' = "watch" /\ child' = "running" /\ timeout' = Smaller(MaxRun, left)
    /\ UNCHANGED <<left, polled, beat, since, spent>>

\* A lease without room for the child and its reserve is given back unused.
Check ==
    /\ pc = "check"
    /\ IF left < MinLeft
       THEN pc' = "gone" /\ UNCHANGED <<child, timeout>>
       ELSE /\ pc' = "watch" /\ child' = "running"
            /\ timeout' = Smaller(MaxRun, left - Reserve)
    /\ UNCHANGED <<left, polled, beat, since, spent>>

\* It ends by itself, or the reader kills it for writing too much.
ChildEnds ==
    /\ child = "running" /\ child' = "dead"
    /\ UNCHANGED <<left, pc, polled, timeout, beat, since, spent>>

\* run_child is left: a pending heartbeat is nobody's any more.
Finish(step) == /\ pc' = step
                /\ polled' = FALSE /\ timeout' = 0 /\ beat' = "none"
                /\ since' = 0 /\ spent' = 0

\* Mutants: a heartbeat is waited for, an answered one is not forgotten.
WatchWaiting ==
    /\ pc = "watch" /\ ~polled
    /\ \/ child = "dead" /\ Finish("read") /\ UNCHANGED child
       \/ child = "running" /\ timeout <= 0 /\ beat # "pending" /\ Kill /\ Finish("read")
       \/ child = "running" /\ beat = "failed" /\ Kill /\ Finish("gone")
       \/ /\ child = "running" /\ (timeout > 0 \/ beat = "pending") /\ beat # "failed"
          /\ polled' = TRUE
          /\ IF since >= Beat /\ beat # "pending"
             THEN beat' = "pending" /\ since' = 0
             ELSE beat' = (IF beat = "answered" THEN "none" ELSE beat) /\ UNCHANGED since
          /\ UNCHANGED <<pc, child, timeout, spent>>
    /\ UNCHANGED left
WatchOneBeat ==
    /\ pc = "watch" /\ ~polled
    /\ \/ child = "dead" /\ Finish("read") /\ UNCHANGED child
       \/ child = "running" /\ timeout <= 0 /\ Kill /\ Finish("read")
       \/ child = "running" /\ timeout > 0 /\ beat = "failed" /\ Kill /\ Finish("gone")
       \/ /\ child = "running" /\ timeout > 0 /\ beat # "failed"
          /\ polled' = TRUE
          /\ IF since >= Beat /\ beat = "none"
             THEN beat' = "pending" /\ since' = 0
             ELSE UNCHANGED <<beat, since>>
          /\ UNCHANGED <<pc, child, timeout, spent>>
    /\ UNCHANGED left
\* One pass of the loop: poll, deadline, an answered heartbeat, the next one.
Watch ==
    /\ pc = "watch" /\ ~polled
    /\ \/ child = "dead" /\ Finish("read") /\ UNCHANGED child
       \/ child = "running" /\ timeout <= 0 /\ Kill /\ Finish("read")   \* CHILD_TIMEOUT
       \/ child = "running" /\ timeout > 0 /\ beat = "failed" /\ Kill /\ Finish("gone")
       \/ /\ child = "running" /\ timeout > 0 /\ beat # "failed"
          /\ polled' = TRUE
          /\ IF since >= Beat /\ beat # "pending"
             THEN beat' = "pending" /\ since' = 0
             ELSE beat' = (IF beat = "answered" THEN "none" ELSE beat) /\ UNCHANGED since
          /\ UNCHANGED <<pc, child, timeout, spent>>
    /\ UNCHANGED left

HeartbeatEnds ==
    /\ beat = "pending" /\ beat' \in {"answered", "failed"}
    /\ UNCHANGED <<left, pc, polled, child, timeout, since, spent>>

\* The output is read, or the end of a killed child is waited for, five seconds
\* at most; what is not there by then raises.
Read ==
    /\ pc = "read" /\ pc' \in {"report", "gone"} /\ spent' = 0
    /\ UNCHANGED <<left, polled, child, timeout, beat, since>>

\* /complete or /fail: an attempt, and after a failed one a pause of 1, then 2
\* seconds, or of the Retry-After.
Attempts == <<"report", "pause1", "again", "pause2", "last">>
Place(step) == CHOOSE i \in 1 .. 5 : Attempts[i] = step
Reporting == pc \in {Attempts[i] : i \in 1 .. 5}
Longest(step) == CASE step = "pause1" -> Larger(1, RetryAfter)
                   [] step = "pause2" -> Larger(2, RetryAfter)
                   [] OTHER -> HttpTimeout

Report ==
    /\ Reporting /\ spent' = 0
    /\ \/ pc \in {"report", "again", "last"} /\ pc' = "gone"
       \/ pc # "last" /\ pc' = Attempts[Place(pc) + 1]
    /\ UNCHANGED <<left, polled, child, timeout, beat, since>>

\* A second passes; the loop runs ten times in it, and every wait is bounded.
Tick ==
    /\ pc = "watch" => polled
    /\ pc = "read" => spent < 5
    /\ Reporting => spent < Longest(pc)
    /\ beat = "pending" => since < CallMax
    /\ pc \notin {"check", "gone"}
    /\ left' = LessOne(left) /\ polled' = FALSE
    /\ timeout' = IF pc = "watch" THEN LessOne(timeout) ELSE timeout
    /\ since' = IF pc = "watch" THEN since + 1 ELSE since
    /\ spent' = IF pc = "watch" THEN 0 ELSE spent + 1
    /\ UNCHANGED <<pc, child, beat>>

Gone == pc = "gone" /\ UNCHANGED vars

Next == Check \/ ChildEnds \/ Watch \/ HeartbeatEnds \/ Read \/ Report \/ Tick \/ Gone

Spec == Init /\ [][Next]_vars
-------------------------------------------------------------------------------
\* The type of every variable.
TypeOK ==
    /\ left \in Nat /\ timeout \in 0 .. MaxRun
    /\ pc \in {"check", "watch", "read", "report", "pause1", "again", "pause2", "last", "gone"}
    /\ polled \in BOOLEAN /\ child \in {"none", "running", "dead"}
    /\ beat \in {"none", "pending", "answered", "failed"}
    /\ since \in Nat /\ spent \in Nat

\* A running child always has a watcher, and never comes near the end of its
\* lease, however slow the heartbeats are ("HTTP heartbeat latency must not
\* delay the native-child watchdog", worker.py:74).
ChildEndsInTime == child = "running" => pc = "watch" /\ left >= Reserve

\* All three attempts to hand in a result, or a failure, are made while the
\* lease is valid.
ReportedInLease == pc \in {"report", "again", "last"} /\ spent = 0 => left > 0

\* Heartbeats never pause for longer than an interval, or one slow call, and
\* the second until the loop sees its end.
HeartbeatsGoOn == child = "running" => since <= Larger(Beat, CallMax) + 1
===============================================================================
