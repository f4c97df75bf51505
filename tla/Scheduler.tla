------------------------------- MODULE Scheduler -------------------------------
(***************************************************************************)
(* app/collector/scheduler.py run_slots: one main thread that does every    *)
(* slot's terminal maintenance itself and hands its job, one at a time, to  *)
(* a pool thread.  A due time is kept as "waiting" and passes by itself; a  *)
(* future carries the state its worker returned, or "raised".  Every state  *)
(* that is reported goes through emit, which raises when the disk is full.  *)
(* Production puts this loop into its process and under its supervisor.     *)
(***************************************************************************)
EXTENDS Naturals, FiniteSets

CONSTANT Slots

ASSUME SchedulerAssumption == Slots # {} /\ IsFiniteSet(Slots)

VARIABLES
    once,       \* --once, never changed: every slot gets a single attempt
    slots,      \* SlotState and the worker's inspection, by slot
    pc,         \* where the main thread is
    todo,       \* the idle slots of this round still to be dispatched
    at,         \* the slot being maintained, or the slots under preparation
    prepDue,    \* the thirty seconds of server preparation are over
    stopped,    \* stop(): the drain file exists
    full,       \* the disk is full
    overrun     \* jobs handed out since the drain began, counted up to two

loop == <<slots, pc, todo, at, prepDue, overrun>>
outside == <<once, stopped, full>>

Results == {"collected", "idle", "maintenance", "raised"}
Futures == {"none", "running"} \cup Results
NewState == [future |-> "none", connected |-> FALSE, inspected |-> FALSE,
             waiting |-> FALSE, finished |-> FALSE]

\* run_slots begins.
Begun ==
    /\ slots' = [s \in Slots |-> NewState]
    /\ pc' = "reap" /\ todo' = {} /\ at' = {} /\ prepDue' = TRUE

Running(s) == slots[s].future = "running"
Done(s) == slots[s].future \in Results

\* Mutant: a failed slot is finished for good.
DeferredForGood(st) == [st EXCEPT !.connected = FALSE, !.inspected = FALSE,
                                  !.waiting = TRUE, !.finished = TRUE, !.future = "none"]
Deferred(st) == [st EXCEPT !.connected = FALSE, !.inspected = FALSE,
                           !.waiting = TRUE, !.finished = once, !.future = "none"]

\* A result that cannot be emitted counts as a failure of the slot.
Reaped(st) == IF st.future = "raised" \/ full THEN Deferred(st)
              ELSE [st EXCEPT !.future = "none", !.finished = once,
                              !.waiting = st.future # "collected"]

\* Every future that is done, then the reading of stop().
Reap ==
    /\ pc = "reap"
    /\ slots' = [s \in Slots |-> IF Done(s) THEN Reaped(slots[s]) ELSE slots[s]]
    /\ pc' = "plan"
    /\ UNCHANGED <<outside, todo, at, prepDue, overrun>>

Quiet == \A s \in Slots : slots[s].future = "none"
\* Mutant: the drain file is not looked at.
DrainingOnce == once /\ \A s \in Slots : slots[s].finished

Draining == stopped \/ (once /\ \A s \in Slots : slots[s].finished)

\* Mutant: a drain returns although jobs are still out.
LeaveAtOnce ==
    /\ pc = "plan" /\ Draining
    /\ pc' = "leaving"
    /\ UNCHANGED <<outside, slots, todo, at, prepDue, overrun>>

\* The return, out of the pool's context.
Leave ==
    /\ pc = "plan" /\ Draining /\ Quiet
    /\ pc' = "leaving"
    /\ UNCHANGED <<outside, slots, todo, at, prepDue, overrun>>

\* sleep(poll_seconds), then the next round.
Wait ==
    /\ pc = "plan" /\ Draining /\ ~Quiet
    /\ pc' = "reap"
    /\ UNCHANGED <<outside, slots, todo, at, prepDue, overrun>>

\* Mutant: a slot with a job is dispatched again.
AvailableBusy(s) == ~slots[s].finished

Available(s) == slots[s].future = "none" /\ ~slots[s].finished
Idle == {s \in Slots : Available(s) /\ ~slots[s].waiting}
Inspected == {s \in Slots : Available(s) /\ slots[s].connected /\ slots[s].inspected}

Plan ==
    /\ pc = "plan" /\ ~Draining
    /\ todo' = Idle
    /\ IF Inspected # {} /\ prepDue
       THEN pc' = "prepare" /\ at' = Inspected /\ prepDue' = FALSE
       ELSE pc' = "dispatch" /\ UNCHANGED <<at, prepDue>>
    /\ UNCHANGED <<outside, slots, overrun>>

\* ServerPreparation.once: may restart any of these slots and ask for their
\* inspection; its errors are only reported, and an error of the report leaves.
Prepared ==
    /\ pc = "prepare"
    /\ \E touched \in SUBSET at :
         slots' = [s \in Slots |-> IF s \in touched
                                   THEN [slots[s] EXCEPT !.inspected = FALSE] ELSE slots[s]]
    /\ pc' \in {"dispatch"} \cup (IF full THEN {"raising"} ELSE {})
    /\ at' = {}
    /\ UNCHANGED <<outside, todo, prepDue, overrun>>

\* Mutant: stop() is read once a round.
DispatchAnyway(s) ==
    /\ pc = "dispatch" /\ s \in todo
    /\ todo' = todo \ {s} /\ at' = {s}
    /\ pc' = "maintain"
    /\ UNCHANGED <<outside, slots, prepDue, overrun>>

\* stop() is read again before each slot.
Dispatch(s) ==
    /\ pc = "dispatch" /\ s \in todo /\ ~stopped
    /\ todo' = todo \ {s} /\ at' = {s}
    /\ pc' = "maintain"
    /\ UNCHANGED <<outside, slots, prepDue, overrun>>

EndOfRound ==
    /\ pc = "dispatch" /\ (todo = {} \/ stopped)
    /\ todo' = {} /\ pc' = "reap"
    /\ UNCHANGED <<outside, slots, at, prepDue, overrun>>

\* connect and prepare_inventory are done: the job is submitted, or the failure
\* they return, or their exception, is waited out.
Submit(s) ==
    /\ pc = "maintain" /\ at = {s}
    /\ slots' = [slots EXCEPT ![s] = [@ EXCEPT !.connected = TRUE, !.inspected = TRUE,
                                               !.future = "running"]]
    /\ pc' = "dispatch" /\ at' = {}
    /\ overrun' = IF stopped /\ overrun < 2 THEN overrun + 1 ELSE overrun
    /\ UNCHANGED <<outside, todo, prepDue>>

\* An update that is pending is looked for before the inspection, and leaves the
\* last one as it was.
Refuse(s) ==
    /\ pc = "maintain" /\ at = {s}
    /\ \/ /\ ~full
          /\ \E inspected \in {slots[s].inspected, FALSE} :
               slots' = [slots EXCEPT ![s] = [@ EXCEPT !.connected = TRUE,
                                                       !.inspected = inspected,
                                                       !.waiting = TRUE, !.finished = once]]
       \/ slots' = [slots EXCEPT ![s] = Deferred(@)]
    /\ pc' = "dispatch" /\ at' = {}
    /\ UNCHANGED <<outside, todo, prepDue, overrun>>

\* emit raises in defer, while s is reaped or after its maintenance failed: the
\* exception leaves the loop, and with it whatever the round had still to do.
EmitRaises(s) ==
    /\ full
    /\ \/ pc = "reap" /\ Done(s)
       \/ pc = "maintain" /\ at = {s}
    /\ slots' = [slots EXCEPT ![s] = Deferred(@)]
    /\ pc' = "raising" /\ at' = {} /\ todo' = {}
    /\ UNCHANGED <<outside, prepDue, overrun>>

Left == IF pc = "raising" THEN "raised" ELSE "exit"

\* Mutant: the pool is shut down without waiting for its threads.
AbandonPool ==
    /\ pc \in {"leaving", "raising"}
    /\ pc' = Left
    /\ UNCHANGED <<outside, slots, todo, at, prepDue, overrun>>

\* The pool's context waits for the jobs that were handed out.
JoinPool ==
    /\ pc \in {"leaving", "raising"} /\ ~\E s \in Slots : Running(s)
    /\ pc' = Left
    /\ UNCHANGED <<outside, slots, todo, at, prepDue, overrun>>

\* run_slots is over, by its return or by an exception.
Over == pc \in {"exit", "raised"}

\* SlotWorker.once ends on its pool thread.
JobEnds(s) ==
    /\ Running(s)
    /\ \E result \in Results, inspected \in BOOLEAN :
         slots' = [slots EXCEPT ![s] = [@ EXCEPT !.future = result,
                                                 !.inspected = inspected /\ result # "raised"]]
    /\ UNCHANGED <<outside, pc, todo, at, prepDue, overrun>>

BecomesDue(s) ==
    /\ ~Over /\ slots[s].waiting
    /\ slots' = [slots EXCEPT ![s].waiting = FALSE]
    /\ UNCHANGED <<outside, pc, todo, at, prepDue, overrun>>

PreparationDue ==
    /\ ~Over /\ ~prepDue /\ prepDue' = TRUE
    /\ UNCHANGED <<outside, slots, pc, todo, at, overrun>>

Main == \/ Reap \/ Leave \/ Wait \/ Plan \/ Prepared \/ EndOfRound \/ JoinPool
        \/ \E s \in Slots : Dispatch(s) \/ Submit(s) \/ Refuse(s) \/ EmitRaises(s)

-------------------------------------------------------------------------------
\* The type of the loop's variables.
LoopOK ==
    /\ slots \in [Slots -> [future : Futures, connected : BOOLEAN, inspected : BOOLEAN,
                            waiting : BOOLEAN, finished : BOOLEAN]]
    /\ pc \in {"reap", "plan", "prepare", "dispatch", "maintain",
              "leaving", "raising", "exit", "raised"}
    /\ todo \subseteq Slots /\ at \subseteq Slots
    /\ prepDue \in BOOLEAN /\ overrun \in 0 .. 2

\* "At most one future per slot. Never inspect/prepare a slot with a live
\* future" (scheduler.py:30), although the idle slots of a round are chosen
\* before a long preparation and before each other's maintenance.
NeverMaintainBusy == \A s \in at \cup todo : slots[s].future = "none"

\* "no process is killed here" (scheduler.py:33): run_slots ends only when no
\* job is left running, whether it returns or an exception leaves it.
ExitsQuiet == Over => ~\E s \in Slots : Running(s)

\* "A drain stops new dispatch" (scheduler.py:32): only the one slot whose
\* maintenance was already under way still gets its job, also when controllers
\* are started and end meanwhile.
DrainStopsDispatch == overrun <= 1
===============================================================================
