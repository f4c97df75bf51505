------------------------------ MODULE Production ------------------------------
(***************************************************************************)
(* The host of the production controller: the supervisor                    *)
(* (scripts/supervise_production.py) that starts it, the process itself      *)
(* (scripts/run_mt5_worker.py) with its mutex around run_slots, the drain    *)
(* file and the marker of an unfinished server preparation.                  *)
(*                                                                           *)
(* A supervisor that dies leaves its controller running, and the scheduled   *)
(* task starts another supervisor, which starts another controller: only     *)
(* the mutex keeps the two apart.  The loop of Scheduler is that of the      *)
(* process that holds it.                                                    *)
(***************************************************************************)
EXTENDS Scheduler

CONSTANTS
    MaxMishaps,     \* bound: crashes and times the disk fills up
    MaxStrays       \* bound: controllers on their way without a supervisor

ASSUME ProductionAssumption == MaxMishaps \in Nat /\ MaxStrays \in Nat \ {0}

VARIABLES
    supervisor,     \* "down", "check", "start", "wait" for its child, "sleep"
    child,          \* of this supervisor: "none", "starting", "active"
    strays,         \* controllers on their way to the mutex without a supervisor
    active,         \* controllers that are past the mutex
    marker,         \* .server-preparing: "none", "own" of the controller, "left"
    mishaps

host == <<supervisor, child, strays, active, marker, mishaps>>
vars == <<loop, outside, host>>

Halted ==
    /\ slots' = [s \in Slots |-> NewState]
    /\ pc' = "exit" /\ todo' = {} /\ at' = {} /\ prepDue' = TRUE

\* A controller run by hand with --once has no supervisor.
Init ==
    /\ once \in BOOLEAN /\ stopped = FALSE /\ full = FALSE
    /\ slots = [s \in Slots |-> NewState]
    /\ pc = "exit" /\ todo = {} /\ at = {} /\ prepDue = TRUE /\ overrun = 0
    /\ supervisor = "down" /\ child = "none"
    /\ strays = IF once THEN 1 ELSE 0
    /\ active = 0 /\ marker = "none" /\ mishaps = MaxMishaps

(***************************************************************************)
(* The supervisor.  Its own emit may raise: in the loop's handler that is   *)
(* the end of it, and its child is left alone.                              *)
(***************************************************************************)
Orphan == IF child = "starting"
          THEN strays < MaxStrays /\ strays' = strays + 1 /\ child' = "none"
          ELSE UNCHANGED strays /\ child' = "none"

\* The scheduled task (external) starts a supervisor; a mutex of its own keeps
\* a second one away.
TaskStarts ==
    /\ supervisor = "down" /\ ~once
    /\ supervisor' = "check"
    /\ UNCHANGED <<loop, outside, child, strays, active, marker, mishaps>>

\* Mutant: the preparation marker is not looked for.
CheckConfig ==
    /\ supervisor = "check" /\ ~stopped
    /\ supervisor' \in {"start", "sleep"}
    /\ UNCHANGED <<loop, outside, child, strays, active, marker, mishaps>>

\* No drain file; configuration, token and API are tried, then the marker of
\* each slot, and absent terminals are started (Restart).  Any of it may fail.
Check ==
    /\ supervisor = "check" /\ ~stopped
    /\ \/ supervisor' = "start" /\ marker = "none"
       \/ supervisor' = IF full THEN "down" ELSE "sleep"
    /\ UNCHANGED <<loop, outside, child, strays, active, marker, mishaps>>

\* Popen, and worker_started; when that cannot be written the child is forgotten.
Start ==
    /\ supervisor = "start"
    /\ IF full THEN strays < MaxStrays /\ supervisor' = "down" /\ strays' = strays + 1
                    /\ UNCHANGED child
       ELSE supervisor' = "wait" /\ child' = "starting" /\ UNCHANGED strays
    /\ UNCHANGED <<loop, outside, active, marker, mishaps>>

\* wait() returns: thirty seconds of sleep.
ChildGone ==
    /\ supervisor = "wait" /\ child = "none"
    /\ supervisor' = IF full THEN "down" ELSE "sleep"
    /\ UNCHANGED <<loop, outside, child, strays, active, marker, mishaps>>

Awake ==
    /\ supervisor = "sleep" /\ supervisor' = "check"
    /\ UNCHANGED <<loop, outside, child, strays, active, marker, mishaps>>

(***************************************************************************)
(* The controller process.                                                  *)
(***************************************************************************)
\* inventory_lock of the configuration's name: the loop begins.
Enter ==
    /\ active = 0 /\ active' = 1
    /\ Begun /\ UNCHANGED <<overrun, marker>>

\* SLOT_BUSY: WORKER_START_FAILED, and the process ends.
TurnedAway == active # 0 /\ UNCHANGED <<loop, active, marker>>

ChildReachesMutex ==
    /\ child = "starting"
    /\ \/ Enter /\ child' = "active"
       \/ TurnedAway /\ child' = "none"
    /\ UNCHANGED <<outside, supervisor, strays, mishaps>>

StrayReachesMutex ==
    /\ strays > 0 /\ strays' = strays - 1
    /\ Enter \/ TurnedAway
    /\ UNCHANGED <<outside, supervisor, child, mishaps>>

\* A preparation marks the slot it works on, and takes its own mark away; one
\* that is there already makes it fail.
Marks ==
    marker' = IF marker = "left" THEN marker
              ELSE IF pc' = "prepare" THEN "own" ELSE "none"

Loops == Main /\ Marks /\ UNCHANGED <<supervisor, child, strays, active, mishaps>>

Ends ==
    /\ active > 0 /\ Over
    /\ active' = active - 1 /\ Halted
    /\ child' = IF child = "active" THEN "none" ELSE child
    /\ UNCHANGED <<overrun, outside, supervisor, strays, marker, mishaps>>

(***************************************************************************)
(* Mishaps, the operator and time.                                          *)
(***************************************************************************)
\* The mutex and the jobs' futures are gone with the process.
ControllerCrashes ==
    /\ active > 0 /\ mishaps > 0 /\ mishaps' = mishaps - 1
    /\ active' = active - 1 /\ Halted
    /\ child' = IF child = "active" THEN "none" ELSE child
    /\ marker' = IF marker = "own" THEN "left" ELSE marker
    /\ UNCHANGED <<overrun, outside, supervisor, strays>>

SupervisorCrashes ==
    /\ supervisor # "down" /\ mishaps > 0 /\ mishaps' = mishaps - 1
    /\ supervisor' = "down" /\ Orphan
    /\ UNCHANGED <<loop, outside, active, marker>>

DiskFills ==
    /\ ~full /\ full' = TRUE /\ mishaps > 0 /\ mishaps' = mishaps - 1
    /\ UNCHANGED <<loop, once, stopped, supervisor, child, strays, active, marker>>

DiskIsCleared ==
    /\ full /\ full' = FALSE
    /\ UNCHANGED <<loop, once, stopped, host>>

Drain ==
    /\ ~stopped /\ stopped' = TRUE /\ overrun' = 0
    /\ UNCHANGED <<slots, pc, todo, at, prepDue, once, full, host>>

Undrain ==
    /\ stopped /\ stopped' = FALSE /\ overrun' = 0
    /\ UNCHANGED <<slots, pc, todo, at, prepDue, once, full, host>>

MarkerIsCleared ==
    /\ marker = "left" /\ marker' = "none"
    /\ UNCHANGED <<loop, outside, supervisor, child, strays, active, mishaps>>

Supervisor == TaskStarts \/ Check \/ Start \/ ChildGone \/ Awake
Pool == \E s \in Slots : JobEnds(s) \/ BecomesDue(s)

Next == \/ Supervisor \/ ChildReachesMutex \/ StrayReachesMutex \/ Loops \/ Ends
        \/ (Pool \/ PreparationDue) /\ UNCHANGED host
        \/ ControllerCrashes \/ SupervisorCrashes \/ DiskFills \/ DiskIsCleared
        \/ Drain \/ Undrain \/ MarkerIsCleared

Spec == Init /\ [][Next]_vars

\* Both loops run for ever, and so does the task that starts the supervisor.  A
\* main thread never waits for anything but bounded calls, a child is killed at
\* its deadline, due times pass, and what is tried for ever (an inventory, the
\* supervisor's check) succeeds in the end.
FairSpec ==
    /\ Spec /\ WF_vars(Supervisor) /\ SF_vars(Check /\ supervisor' = "start")
    /\ WF_vars(ChildReachesMutex) /\ WF_vars(StrayReachesMutex)
    /\ WF_vars(Loops) /\ WF_vars(Ends)
    /\ \A s \in Slots : /\ WF_vars(JobEnds(s) /\ UNCHANGED host)
                        /\ WF_vars(BecomesDue(s) /\ UNCHANGED host)
                        /\ SF_vars(Submit(s) /\ Marks /\ UNCHANGED <<supervisor, child, strays, active, mishaps>>)

-------------------------------------------------------------------------------
\* The type of every variable.
TypeOK ==
    /\ LoopOK /\ once \in BOOLEAN /\ stopped \in BOOLEAN /\ full \in BOOLEAN
    /\ supervisor \in {"down", "check", "start", "wait", "sleep"}
    /\ child \in {"none", "starting", "active"}
    /\ strays \in Nat /\ active \in 0 .. 1
    /\ marker \in {"none", "own", "left"} /\ mishaps \in 0 .. MaxMishaps

\* UNFINISHED_PREPARATION (supervise_production.py:77): no controller works over
\* what an interrupted preparation left, unless two mishaps meet: the supervisor
\* looks for the marker some time before its child reaches the mutex.
NotOverUnfinished == active > 0 /\ marker = "left" /\ ~once => mishaps + 2 <= MaxMishaps

\* A drain "then waits for bounded children/HTTP calls" (scheduler.py:32): no job
\* vanishes with its result.  Whenever a drain or the end of --once comes, what a
\* job brought is reaped, which reports it or counts it as a failure, unless its
\* process crashed or a full disk threw the controller out of its loop.
ResultsReported ==
    [][\A s \in Slots :
         slots[s].future # "none" /\ slots'[s].future = "none"
         => \/ Done(s) /\ pc \in {"reap", "raised"}
            \/ mishaps' < mishaps]_vars

\* A drain that stays, or every slot's single attempt, ends the controller for
\* good: nothing comes after it, from whatever supervisor.
ControllerEnds ==
    <>[]stopped \/ <>[](once /\ ~stopped) => <>[](active = 0)

\* No slot is starved by its own failures, by the others' jobs or by
\* preparation ("Each slot has its own current task", docs/recovery-stage1), nor
\* by the end of a controller or a supervisor: as long as nobody drains the
\* service and no unfinished preparation is left, each slot works again and again.
EverySlotServed ==
    \A s \in Slots :
        <>[](~stopped /\ ~once /\ ~full /\ marker # "left") => []<>Running(s)
===============================================================================
