---------------------------- MODULE ProductionProofs ----------------------------
(***************************************************************************)
(* The safety of the controller's loop, its process and its supervisor, for *)
(* any number of slots, mishaps and orphaned controllers; and of what these *)
(* processes report to the operator (Telemetry).                            *)
(***************************************************************************)
EXTENDS Production, Integers, Sequences, TLAPS

SlotStates == [future : Futures, connected : BOOLEAN, inspected : BOOLEAN,
               waiting : BOOLEAN, finished : BOOLEAN]

-------------------------------------------------------------------------------
(***************************************************************************)
(* Types.                                                                  *)
(***************************************************************************)
LEMMA SlotTypes ==
    ASSUME TypeOK, NEW st \in SlotStates
    PROVE  NewState \in SlotStates /\ Deferred(st) \in SlotStates /\ Reaped(st) \in SlotStates
<1>1. NewState \in SlotStates /\ once \in BOOLEAN
  BY DEF NewState, SlotStates, Futures, TypeOK
<1>2. Deferred(st) \in SlotStates
  BY <1>1 DEF Deferred, SlotStates, Futures
<1>3. [st EXCEPT !.future = "none", !.finished = once,
                 !.waiting = st.future # "collected"] \in SlotStates
  BY <1>1 DEF SlotStates, Futures
<1>4. QED BY <1>1, <1>2, <1>3 DEF Reaped

LEMMA MainTypes ==
    ASSUME TypeOK, Main
    PROVE  LoopOK'
<1>1. /\ slots \in [Slots -> SlotStates] /\ todo \subseteq Slots /\ at \subseteq Slots
      /\ prepDue \in BOOLEAN /\ overrun \in 0 .. 2 /\ once \in BOOLEAN
      /\ pc \in {"reap", "plan", "prepare", "dispatch", "maintain",
               "leaving", "raising", "exit", "raised"}
  BY DEF TypeOK, LoopOK, SlotStates
<1>2. CASE Reap
  <2>1. slots' \in [Slots -> SlotStates]
    BY <1>1, <1>2, SlotTypes DEF Reap
  <2>2. QED BY <1>1, <1>2, <2>1 DEF Reap, LoopOK, SlotStates
<1>3. CASE Leave \/ Wait \/ EndOfRound \/ JoinPool
  BY <1>1, <1>3 DEF Leave, Wait, EndOfRound, JoinPool, Left, LoopOK, SlotStates
<1>4. CASE Plan
  <2>1. Idle \subseteq Slots /\ Inspected \subseteq Slots
    BY DEF Idle, Inspected
  <2>2. QED BY <1>1, <1>4, <2>1 DEF Plan, LoopOK, SlotStates
<1>5. CASE Prepared
  <2>1. \A st \in SlotStates : [st EXCEPT !.inspected = FALSE] \in SlotStates
    BY DEF SlotStates
  <2>2. slots' \in [Slots -> SlotStates]
    BY <1>1, <1>5, <2>1 DEF Prepared
  <2>3. pc' \in {"dispatch", "raising"}
    BY <1>5 DEF Prepared
  <2>4. QED BY <1>1, <1>5, <2>2, <2>3 DEF Prepared, LoopOK, SlotStates
<1>6. ASSUME NEW s \in Slots, Dispatch(s) PROVE LoopOK'
  BY <1>1, <1>6 DEF Dispatch, LoopOK, SlotStates
<1>7. ASSUME NEW s \in Slots, Submit(s) PROVE LoopOK'
  <2>1. slots[s] \in SlotStates
    BY <1>1
  <2>2. [slots[s] EXCEPT !.connected = TRUE, !.inspected = TRUE, !.future = "running"]
          \in SlotStates
    BY <2>1 DEF SlotStates, Futures
  <2>3. slots' \in [Slots -> SlotStates]
    BY <1>1, <1>7, <2>2 DEF Submit
  <2>4. overrun' \in 0 .. 2
    BY <1>1, <1>7 DEF Submit
  <2>5. QED BY <1>1, <1>7, <2>3, <2>4 DEF Submit, LoopOK, SlotStates
<1>8. ASSUME NEW s \in Slots, Refuse(s) PROVE LoopOK'
  <2>1. slots[s] \in SlotStates /\ Deferred(slots[s]) \in SlotStates
    BY <1>1, SlotTypes
  <2>2. \A b \in BOOLEAN : [slots[s] EXCEPT !.connected = TRUE, !.inspected = b,
                                           !.waiting = TRUE, !.finished = once] \in SlotStates
    BY <1>1, <2>1 DEF SlotStates
  <2>3. slots' \in [Slots -> SlotStates]
    <3>1. slots[s].inspected \in BOOLEAN
      BY <2>1 DEF SlotStates
    <3>2. QED BY <1>1, <1>8, <2>1, <2>2, <3>1 DEF Refuse
  <2>4. QED BY <1>1, <1>8, <2>3 DEF Refuse, LoopOK, SlotStates
<1>9. ASSUME NEW s \in Slots, EmitRaises(s) PROVE LoopOK'
  <2>1. slots' \in [Slots -> SlotStates]
    BY <1>1, <1>9, SlotTypes DEF EmitRaises
  <2>2. QED BY <1>1, <1>9, <2>1 DEF EmitRaises, LoopOK, SlotStates
<1>10. QED BY <1>2, <1>3, <1>4, <1>5, <1>6, <1>7, <1>8, <1>9 DEF Main

LEMMA PoolTypes ==
    ASSUME TypeOK, Pool \/ PreparationDue
    PROVE  LoopOK'
<1>1. slots \in [Slots -> SlotStates]
  BY DEF TypeOK, LoopOK, SlotStates
<1>2. ASSUME NEW s \in Slots, JobEnds(s) PROVE LoopOK'
  <2>1. \A r \in Results, b \in BOOLEAN :
          [slots[s] EXCEPT !.future = r, !.inspected = b /\ r # "raised"] \in SlotStates
    BY <1>1 DEF SlotStates, Futures
  <2>2. slots' \in [Slots -> SlotStates]
    BY <1>1, <1>2, <2>1 DEF JobEnds
  <2>3. QED BY <1>2, <2>2 DEF JobEnds, TypeOK, LoopOK, SlotStates
<1>3. ASSUME NEW s \in Slots, BecomesDue(s) PROVE LoopOK'
  <2>1. [slots[s] EXCEPT !.waiting = FALSE] \in SlotStates
    BY <1>1 DEF SlotStates
  <2>2. slots' \in [Slots -> SlotStates]
    BY <1>1, <1>3, <2>1 DEF BecomesDue
  <2>3. QED BY <1>3, <2>2 DEF BecomesDue, TypeOK, LoopOK, SlotStates
<1>4. CASE PreparationDue
  BY <1>4 DEF PreparationDue, TypeOK, LoopOK
<1>5. QED BY <1>2, <1>3, <1>4 DEF Pool

\* A fresh loop, and one that has ended.
LEMMA FreshTypes ==
    ASSUME TypeOK, overrun' = overrun, Begun \/ Halted
    PROVE  LoopOK'
<1>1. slots' \in [Slots -> SlotStates]
  <2>1. NewState \in SlotStates
    BY DEF NewState, SlotStates, Futures
  <2>2. slots' = [s \in Slots |-> NewState]
    BY DEF Begun, Halted
  <2>3. QED BY <2>1, <2>2
<1>2. QED BY <1>1 DEF Begun, Halted, TypeOK, LoopOK, SlotStates

LEMMA TypeStep ==
    ASSUME TypeOK, [Next]_vars
    PROVE  TypeOK'
<1> USE ProductionAssumption DEF TypeOK, outside, host
<1>1. CASE UNCHANGED vars
  BY <1>1 DEF vars, loop, LoopOK
<1>2. ASSUME UNCHANGED loop PROVE LoopOK'
  BY <1>2 DEF loop, LoopOK
<1>3. CASE Supervisor
  BY <1>2, <1>3 DEF Supervisor, TaskStarts, Check, Start, ChildGone, Awake
<1>4. CASE ChildReachesMutex
  <2>1. CASE Enter
    BY <1>4, <2>1, FreshTypes DEF ChildReachesMutex, Enter
  <2>2. CASE TurnedAway
    BY <1>2, <1>4, <2>2 DEF ChildReachesMutex, TurnedAway
  <2>3. QED BY <1>4, <2>1, <2>2 DEF ChildReachesMutex
<1>5. CASE StrayReachesMutex
  <2>1. CASE Enter
    BY <1>5, <2>1, FreshTypes DEF StrayReachesMutex, Enter
  <2>2. CASE TurnedAway
    BY <1>2, <1>5, <2>2 DEF StrayReachesMutex, TurnedAway
  <2>3. QED BY <1>5, <2>1, <2>2 DEF StrayReachesMutex
<1>6. CASE Loops
  <2>1. LoopOK'
    BY <1>6, MainTypes DEF Loops
  <2>2. UNCHANGED outside
    BY <1>6 DEF Loops, Main, Reap, Leave, Wait, Plan, Prepared, EndOfRound, JoinPool,
       Dispatch, Submit, Refuse, EmitRaises
  <2>3. QED BY <1>6, <2>1, <2>2 DEF Loops, Marks
<1>7. CASE Ends
  BY <1>7, FreshTypes DEF Ends
<1>8. CASE (Pool \/ PreparationDue) /\ UNCHANGED host
  <2>1. LoopOK'
    BY <1>8, PoolTypes
  <2>2. UNCHANGED outside
    BY <1>8 DEF Pool, JobEnds, BecomesDue, PreparationDue
  <2>3. QED BY <1>8, <2>1, <2>2
<1>9. CASE ControllerCrashes
  BY <1>9, FreshTypes DEF ControllerCrashes
<1>10. CASE SupervisorCrashes
  BY <1>2, <1>10 DEF SupervisorCrashes, Orphan
<1>11. CASE DiskFills \/ MarkerIsCleared
  <2>1. UNCHANGED loop /\ once' = once /\ stopped' = stopped /\ full' \in BOOLEAN
    BY <1>11 DEF DiskFills, MarkerIsCleared
  <2>2. /\ UNCHANGED <<supervisor, child, strays, active>>
        /\ marker' \in {marker, "none"} /\ mishaps' \in 0 .. MaxMishaps
    BY <1>11 DEF DiskFills, MarkerIsCleared
  <2>3. QED BY <1>2, <2>1, <2>2
<1>12. CASE DiskIsCleared \/ Drain \/ Undrain
  <2>1. /\ UNCHANGED host /\ once' = once /\ stopped' \in BOOLEAN /\ full' \in BOOLEAN
        /\ UNCHANGED <<slots, pc, todo, at, prepDue>> /\ overrun' \in {0, overrun}
    BY <1>12 DEF DiskIsCleared, Drain, Undrain, loop
  <2>2. LoopOK'
    BY <2>1 DEF LoopOK
  <2>3. QED BY <2>1, <2>2
<1>13. QED BY <1>1, <1>3, <1>4, <1>5, <1>6, <1>7, <1>8, <1>9, <1>10, <1>11, <1>12 DEF Next

LEMMA TypeInit == Init => TypeOK
<1>1. SUFFICES ASSUME Init PROVE TypeOK
  OBVIOUS
<1>2. slots \in [Slots -> SlotStates]
  <2>1. NewState \in SlotStates
    BY DEF NewState, SlotStates, Futures
  <2>2. slots = [s \in Slots |-> NewState]
    BY <1>1 DEF Init
  <2>3. QED BY <2>1, <2>2
<1>3. LoopOK
  BY <1>1, <1>2 DEF Init, LoopOK, SlotStates
<1>4. strays \in Nat /\ mishaps \in 0 .. MaxMishaps
  BY <1>1, ProductionAssumption DEF Init
<1>5. once \in BOOLEAN /\ stopped \in BOOLEAN /\ full \in BOOLEAN
  BY <1>1 DEF Init
<1>6. active \in 0 .. 2
  BY <1>1 DEF Init
<1>7. QED BY <1>1, <1>3, <1>4, <1>5, <1>6 DEF Init, TypeOK

\* Every variable keeps its type.
THEOREM TypeCorrect == Spec => []TypeOK
<1>1. TypeOK /\ [Next]_vars => TypeOK'
  BY TypeStep
<1>2. QED BY TypeInit, <1>1, PTL DEF Spec

-------------------------------------------------------------------------------
(***************************************************************************)
(* The loop.  The slots of a round stay without a job until it is their     *)
(* turn, because only the main thread hands out jobs, and it does so only    *)
(* for the slot it has just maintained.                                      *)
(***************************************************************************)
OnceARound == pc = "maintain" => at \cap todo = {}
OneAfterDrain == overrun > 0 => stopped /\ overrun = 1 /\ pc # "maintain"
\* A return leaves nothing behind, and nothing is handed out while it is under way.
LeftQuiet == pc \in {"leaving", "exit"} => Quiet

LoopInv == NeverMaintainBusy /\ OnceARound /\ ExitsQuiet /\ OneAfterDrain /\ LeftQuiet

LEMMA LoopInit == Init => LoopInv
  BY DEF Init, LoopInv, NeverMaintainBusy, OnceARound, ExitsQuiet, OneAfterDrain,
     LeftQuiet, Quiet, Over, Running, NewState

LEMMA LoopFresh ==
    ASSUME TypeOK, LoopInv, Begun \/ Halted, UNCHANGED <<overrun, stopped>>
    PROVE  LoopInv'
<1>1. /\ slots' = [s \in Slots |-> NewState] /\ at' = {} /\ todo' = {} /\ pc' # "maintain"
  BY DEF Begun, Halted
<1>2. \A s \in Slots : slots'[s].future = "none"
  BY <1>1 DEF NewState
<1>3. QED BY <1>1, <1>2 DEF LoopInv, NeverMaintainBusy, OnceARound, ExitsQuiet,
         OneAfterDrain, LeftQuiet, Quiet, Over, Running

LEMMA LoopMain ==
    ASSUME TypeOK, LoopInv, Main
    PROVE  LoopInv'
<1> USE DEF LoopInv, NeverMaintainBusy, OnceARound, ExitsQuiet, OneAfterDrain, LeftQuiet, Quiet,
            Over
<1>1. /\ slots \in [Slots -> SlotStates] /\ todo \subseteq Slots /\ at \subseteq Slots
      /\ overrun \in 0 .. 2
  BY DEF TypeOK, LoopOK, SlotStates
<1>2. CASE Reap
  <2>1. \A s \in Slots : slots[s].future = "none" => slots'[s].future = "none"
    <3>1. \A s \in Slots : Reaped(slots[s]).future = "none"
      BY <1>1 DEF Reaped, Deferred, SlotStates
    <3>2. QED BY <1>1, <1>2, <3>1 DEF Reap
  <2>2. QED BY <1>1, <1>2, <2>1 DEF Reap, outside
<1>3. CASE Leave
  BY <1>1, <1>3 DEF Leave, outside
<1>4. CASE Wait \/ EndOfRound
  BY <1>1, <1>4 DEF Wait, EndOfRound, outside
<1>5. CASE JoinPool
  BY <1>1, <1>5 DEF JoinPool, Left, Running, outside
<1>6. CASE Plan
  BY <1>1, <1>6 DEF Plan, Idle, Inspected, Available, outside
<1>7. CASE Prepared
  <2>1. \A s \in Slots : slots'[s].future = slots[s].future
    BY <1>1, <1>7 DEF Prepared, SlotStates
  <2>2. QED BY <1>1, <1>7, <2>1 DEF Prepared, outside
<1>8. ASSUME NEW s \in Slots, Dispatch(s) PROVE LoopInv'
  BY <1>1, <1>8 DEF Dispatch, outside
<1>9. ASSUME NEW s \in Slots, Submit(s) PROVE LoopInv'
  <2>1. \A r \in Slots \ {s} : slots'[r] = slots[r]
    BY <1>1, <1>9 DEF Submit
  <2>2. s \notin todo
    BY <1>9 DEF Submit
  <2>3. overrun' > 0 => stopped' /\ overrun' = 1
    BY <1>1, <1>9 DEF Submit, outside
  <2>4. QED BY <1>1, <1>9, <2>1, <2>2, <2>3 DEF Submit
<1>10. ASSUME NEW s \in Slots, Refuse(s) PROVE LoopInv'
  <2>1. \A r \in Slots \ {s} : slots'[r] = slots[r]
    BY <1>1, <1>10 DEF Refuse
  <2>2. s \notin todo
    BY <1>10 DEF Refuse
  <2>3. QED BY <1>1, <1>10, <2>1, <2>2 DEF Refuse, outside
<1>11. ASSUME NEW s \in Slots, EmitRaises(s) PROVE LoopInv'
  BY <1>1, <1>11 DEF EmitRaises, outside
<1>12. QED BY <1>2, <1>3, <1>4, <1>5, <1>6, <1>7, <1>8, <1>9, <1>10, <1>11 DEF Main

LEMMA LoopPool ==
    ASSUME TypeOK, LoopInv, Pool \/ PreparationDue
    PROVE  LoopInv'
<1> USE DEF LoopInv, NeverMaintainBusy, OnceARound, ExitsQuiet, OneAfterDrain, LeftQuiet, Quiet,
            Over
<1>1. slots \in [Slots -> SlotStates] /\ todo \subseteq Slots /\ at \subseteq Slots
  BY DEF TypeOK, LoopOK, SlotStates
<1>2. ASSUME NEW s \in Slots, JobEnds(s) PROVE LoopInv'
  <2>1. \A r \in Slots \ {s} : slots'[r] = slots[r]
    BY <1>1, <1>2 DEF JobEnds
  <2>2. slots[s].future = "running" /\ UNCHANGED <<pc, at, todo, overrun, stopped>>
    BY <1>2 DEF JobEnds, Running, outside
  <2>3. pc \notin {"leaving", "exit", "raised"} /\ s \notin at \cup todo
    BY <2>2 DEF Running
  <2>4. QED BY <1>1, <2>1, <2>2, <2>3
<1>3. ASSUME NEW s \in Slots, BecomesDue(s) PROVE LoopInv'
  <2>1. \A r \in Slots : slots'[r].future = slots[r].future
    BY <1>1, <1>3 DEF BecomesDue, SlotStates
  <2>2. QED BY <1>1, <1>3, <2>1 DEF BecomesDue, Running, outside
<1>4. CASE PreparationDue
  BY <1>4 DEF PreparationDue, Running, outside
<1>5. QED BY <1>2, <1>3, <1>4 DEF Pool

LEMMA LoopStep ==
    ASSUME TypeOK, LoopInv, [Next]_vars
    PROVE  LoopInv'
<1>1. ASSUME UNCHANGED <<slots, pc, todo, at, overrun, stopped>> PROVE LoopInv'
  BY <1>1 DEF LoopInv, NeverMaintainBusy, OnceARound, ExitsQuiet, OneAfterDrain,
     LeftQuiet, Quiet, Over, Running
<1>2. CASE UNCHANGED vars
  BY <1>1, <1>2 DEF vars, loop, outside
<1>3. CASE Supervisor
  BY <1>1, <1>3 DEF Supervisor, TaskStarts, Check, Start, ChildGone, Awake, loop, outside
<1>4. CASE ChildReachesMutex \/ StrayReachesMutex
  <2>1. UNCHANGED stopped /\ (Enter \/ TurnedAway)
    BY <1>4 DEF ChildReachesMutex, StrayReachesMutex, outside
  <2>2. QED BY <1>1, <2>1, LoopFresh DEF Enter, TurnedAway, loop
<1>5. CASE Loops
  BY <1>5, LoopMain DEF Loops
<1>6. CASE Ends \/ ControllerCrashes
  BY <1>6, LoopFresh DEF Ends, ControllerCrashes, outside
<1>7. CASE (Pool \/ PreparationDue) /\ UNCHANGED host
  BY <1>7, LoopPool
<1>8. CASE SupervisorCrashes \/ DiskFills \/ DiskIsCleared \/ MarkerIsCleared
  BY <1>1, <1>8 DEF SupervisorCrashes, DiskFills, DiskIsCleared, MarkerIsCleared, loop, outside
<1>9. CASE Drain \/ Undrain
  <2>1. UNCHANGED <<slots, pc, todo, at>> /\ overrun' = 0
    BY <1>9 DEF Drain, Undrain
  <2>2. QED BY <2>1 DEF LoopInv, NeverMaintainBusy, OnceARound, ExitsQuiet, OneAfterDrain,
     LeftQuiet, Quiet, Over, Running
<1>10. QED BY <1>2, <1>3, <1>4, <1>5, <1>6, <1>7, <1>8, <1>9 DEF Next

LEMMA LoopAlways == Spec => []LoopInv
<1>1. TypeOK /\ LoopInv /\ [Next]_vars => LoopInv'
  BY LoopStep
<1>2. QED BY LoopInit, <1>1, TypeCorrect, PTL DEF Spec

\* A slot that has a job is neither chosen nor maintained nor prepared.
THEOREM BusyUntouched == Spec => []NeverMaintainBusy
<1>1. LoopInv => NeverMaintainBusy
  BY DEF LoopInv
<1>2. QED BY <1>1, LoopAlways, PTL

\* No job is running when the loop has ended, returning or raising.
THEOREM EndsQuiet == Spec => []ExitsQuiet
<1>1. LoopInv => ExitsQuiet
  BY DEF LoopInv
<1>2. QED BY <1>1, LoopAlways, PTL

\* After a drain at most one job is still handed out, of all controllers together.
THEOREM DrainHeeded == Spec => []DrainStopsDispatch
<1>1. TypeOK /\ LoopInv => DrainStopsDispatch
  BY DEF LoopInv, OneAfterDrain, DrainStopsDispatch, TypeOK, LoopOK
<1>2. QED BY <1>1, LoopAlways, TypeCorrect, PTL

\* A host without a controller has no loop, so nothing is lost when one begins.
NoLoopWithout == active = 0 => pc = "exit"

LEMMA NoLoopAlways == Spec => []NoLoopWithout
<1>1. Init => NoLoopWithout
  BY DEF Init, NoLoopWithout
<1>2. TypeOK /\ NoLoopWithout /\ [Next]_vars => NoLoopWithout'
  <2>1. SUFFICES ASSUME TypeOK, NoLoopWithout, [Next]_vars, active' = 0 PROVE pc' = "exit"
    BY DEF NoLoopWithout
  <2>2. CASE active = 0 /\ Loops
    <3>1. pc = "exit"
      BY <2>1, <2>2 DEF NoLoopWithout
    <3>2. ~Main
      BY <3>1 DEF Main, Reap, Leave, Wait, Plan, Prepared, EndOfRound, JoinPool, Dispatch,
         Submit, Refuse, EmitRaises
    <3>3. QED BY <2>2, <3>2 DEF Loops
  <2>3. CASE Ends \/ ControllerCrashes
    BY <2>3 DEF Ends, ControllerCrashes, Halted
  <2>4. CASE (Pool \/ PreparationDue) /\ UNCHANGED host
    BY <2>1, <2>4 DEF NoLoopWithout, host, Pool, PreparationDue, JobEnds, BecomesDue
  <2>5. CASE ChildReachesMutex \/ StrayReachesMutex
    BY <2>1, <2>5 DEF NoLoopWithout, ChildReachesMutex, StrayReachesMutex, Enter, TurnedAway, loop
  <2>6. CASE UNCHANGED vars
    BY <2>1, <2>6 DEF NoLoopWithout, vars, host, loop
  <2>7. QED BY <2>1, <2>2, <2>3, <2>4, <2>5, <2>6
     DEF NoLoopWithout, Next, Loops, Supervisor, TaskStarts, Check, Start, ChildGone, Awake,
         SupervisorCrashes, DiskFills, DiskIsCleared, Drain, Undrain, MarkerIsCleared, host, loop
<1>3. QED BY <1>1, <1>2, TypeCorrect, PTL DEF Spec

\* What a job brought is reaped, whenever a drain or the end of --once comes: the
\* loop returns only when there is nothing to reap, and hands nothing out on its
\* way through the pool's context to the end of the process.
THEOREM ResultsKept == Spec => ResultsReported
<1> DEFINE Kept == \A s \in Slots :
                     slots[s].future # "none" /\ slots'[s].future = "none"
                     => \/ Done(s) /\ pc \in {"reap", "raised"}
                        \/ mishaps' < mishaps
<1>1. TypeOK /\ LoopInv /\ NoLoopWithout /\ [Next]_vars => [Kept]_vars
  <2>1. SUFFICES ASSUME TypeOK, LoopInv, NoLoopWithout, Next PROVE Kept
    BY DEF vars
  <2>2. SUFFICES ASSUME NEW s \in Slots, slots[s].future # "none", slots'[s].future = "none"
                 PROVE  \/ Done(s) /\ pc \in {"reap", "raised"}
                        \/ mishaps' < mishaps
    OBVIOUS
  <2>3. /\ slots \in [Slots -> SlotStates] /\ mishaps \in Nat
        /\ slots' # slots /\ pc \notin {"leaving", "exit"} /\ s \notin at
    BY <2>1, <2>2, ProductionAssumption
       DEF TypeOK, LoopOK, SlotStates, LoopInv, NeverMaintainBusy, LeftQuiet, Quiet
  <2>4. CASE Loops
    <3>1. PICK r \in Slots : \/ Reap \/ Prepared \/ Submit(r) \/ Refuse(r) \/ EmitRaises(r)
      BY <2>3, <2>4 DEF Loops, Main, Leave, Wait, Plan, EndOfRound, JoinPool, Dispatch
    <3>2. CASE Reap
      BY <2>2, <2>3, <3>2 DEF Reap
    <3>3. CASE Prepared
      BY <2>2, <2>3, <3>3 DEF Prepared, SlotStates
    <3>4. CASE Submit(r) \/ Refuse(r)
      BY <2>2, <2>3, <3>4 DEF Submit, Refuse
    <3>5. CASE EmitRaises(r)
      BY <2>2, <2>3, <3>5 DEF EmitRaises
    <3>6. QED BY <3>1, <3>2, <3>3, <3>4, <3>5
  <2>5. CASE Ends
    <3>1. pc = "raised" /\ ~Running(s)
      BY <2>1, <2>3, <2>5 DEF Ends, Over, LoopInv, ExitsQuiet
    <3>2. QED BY <2>2, <2>3, <3>1 DEF Done, Running, Results, SlotStates, Futures
  <2>6. CASE ControllerCrashes
    BY <2>3, <2>6 DEF ControllerCrashes
  <2>7. CASE (Pool \/ PreparationDue) /\ UNCHANGED host
    <3>1. PICK r \in Slots : JobEnds(r) \/ BecomesDue(r)
      BY <2>3, <2>7 DEF Pool, PreparationDue
    <3>2. slots[s] \in SlotStates /\ slots[r] \in SlotStates
      BY <2>3
    <3>3. CASE JobEnds(r)
      <4>1. PICK result \in Results, i \in BOOLEAN :
              slots' = [slots EXCEPT ![r] = [@ EXCEPT !.future = result,
                                                      !.inspected = i /\ result # "raised"]]
        BY <3>3 DEF JobEnds
      <4>2. r = s => slots'[s].future = result
        BY <2>3, <3>2, <4>1 DEF SlotStates
      <4>3. r # s => slots'[s] = slots[s]
        BY <2>3, <4>1
      <4>4. QED BY <2>2, <4>2, <4>3 DEF Results
    <3>4. CASE BecomesDue(r)
      <4>1. slots'[s].future = slots[s].future
        BY <2>3, <3>2, <3>4 DEF BecomesDue, SlotStates
      <4>2. QED BY <2>2, <4>1
    <3>5. QED BY <3>1, <3>3, <3>4
  <2>8. CASE ChildReachesMutex \/ StrayReachesMutex
    BY <2>1, <2>3, <2>8
       DEF NoLoopWithout, ChildReachesMutex, StrayReachesMutex, Enter, TurnedAway, loop
  <2>9. QED BY <2>1, <2>3, <2>4, <2>5, <2>6, <2>7, <2>8
     DEF Next, Supervisor, TaskStarts, Check, Start, ChildGone, Awake, SupervisorCrashes,
         DiskFills, DiskIsCleared, Drain, Undrain, MarkerIsCleared, loop
<1>2. QED BY <1>1, TypeCorrect, LoopAlways, NoLoopAlways, PTL DEF Spec, ResultsReported

-------------------------------------------------------------------------------
(***************************************************************************)
(* The processes.  Without a mishap there is one controller at most, started *)
(* or not, and it is the child its supervisor waits for.  A crash in a       *)
(* preparation is a mishap; if it is the first there is no other controller  *)
(* left, and no supervisor starts one over the marker.                       *)
(***************************************************************************)
Unharmed ==
    mishaps = MaxMishaps =>
      /\ ~full /\ strays = 0 /\ marker # "left"
      /\ active > 0 => child = "active"
      /\ child # "none" => supervisor = "wait"

LeftAlone ==
    marker = "left" /\ mishaps + 1 = MaxMishaps =>
      active = 0 /\ strays = 0 /\ child = "none" /\ supervisor # "start"

HostInv ==
    /\ child = "active" => active > 0
    /\ ~once => Unharmed /\ LeftAlone

LEMMA HostInit == Init => HostInv
  BY ProductionAssumption DEF Init, HostInv, Unharmed, LeftAlone

LEMMA HostStep ==
    ASSUME TypeOK, HostInv, [Next]_vars
    PROVE  HostInv'
<1> USE ProductionAssumption DEF HostInv, Unharmed, LeftAlone, outside, host
<1>1. /\ mishaps \in 0 .. MaxMishaps /\ strays \in Nat /\ active \in 0 .. 1
      /\ marker \in {"none", "own", "left"} /\ child \in {"none", "starting", "active"}
      /\ supervisor \in {"down", "check", "start", "wait", "sleep"}
  BY DEF TypeOK
<1>2. CASE UNCHANGED vars
  BY <1>2 DEF vars
<1>3. CASE Supervisor
  <2>1. CASE TaskStarts
    BY <1>1, <2>1 DEF TaskStarts
  <2>2. CASE Check
    BY <1>1, <2>2 DEF Check
  <2>3. CASE Start
    BY <1>1, <2>3 DEF Start
  <2>4. CASE ChildGone \/ Awake
    BY <1>1, <2>4 DEF ChildGone, Awake
  <2>5. QED BY <1>3, <2>1, <2>2, <2>3, <2>4 DEF Supervisor
<1>4. CASE ChildReachesMutex
  BY <1>1, <1>4 DEF ChildReachesMutex, Enter, TurnedAway
<1>5. CASE StrayReachesMutex
  BY <1>1, <1>5 DEF StrayReachesMutex, Enter, TurnedAway
<1>6. CASE Loops
  <2>1. UNCHANGED <<once, full, supervisor, child, strays, active, mishaps>>
    BY <1>6 DEF Loops, Main, Reap, Leave, Wait, Plan, Prepared, EndOfRound, JoinPool,
       Dispatch, Submit, Refuse, EmitRaises
  <2>2. marker' = "left" => marker = "left"
    BY <1>6 DEF Loops, Marks
  <2>3. QED BY <1>1, <2>1, <2>2
<1>7. CASE Ends
  BY <1>1, <1>7 DEF Ends
<1>8. CASE (Pool \/ PreparationDue) /\ UNCHANGED host
  <2>1. UNCHANGED outside
    BY <1>8 DEF Pool, JobEnds, BecomesDue, PreparationDue
  <2>2. QED BY <1>8, <2>1
<1>9. CASE ControllerCrashes
  BY <1>1, <1>9 DEF ControllerCrashes
<1>10. CASE SupervisorCrashes
  BY <1>1, <1>10 DEF SupervisorCrashes, Orphan
<1>11. CASE DiskFills \/ DiskIsCleared
  BY <1>1, <1>11 DEF DiskFills, DiskIsCleared
<1>12. CASE Drain \/ Undrain \/ MarkerIsCleared
  BY <1>1, <1>12 DEF Drain, Undrain, MarkerIsCleared
<1>13. QED BY <1>2, <1>3, <1>4, <1>5, <1>6, <1>7, <1>8, <1>9, <1>10, <1>11, <1>12 DEF Next

LEMMA HostAlways == Spec => []HostInv
<1>1. TypeOK /\ HostInv /\ [Next]_vars => HostInv'
  BY HostStep
<1>2. QED BY HostInit, <1>1, TypeCorrect, PTL DEF Spec

\* It takes two mishaps for a controller to work over an unfinished preparation.
THEOREM UnfinishedKept == Spec => []NotOverUnfinished
<1>1. TypeOK /\ HostInv => NotOverUnfinished
  BY ProductionAssumption DEF TypeOK, HostInv, Unharmed, LeftAlone, NotOverUnfinished
<1>2. QED BY <1>1, HostAlways, TypeCorrect, PTL

-------------------------------------------------------------------------------
(***************************************************************************)
(* What these processes and the watchdog report to the operator (module     *)
(* Telemetry): for any number of processes and codes, with a table that may *)
(* fail at any time.                                                        *)
(***************************************************************************)
CONSTANTS Procs, Times, Keys, Transient, Reminder, Keep, Ahead, Sustained, Gap, Least, Room

VARIABLES table, seen, pending, mono, peak, sent, log

T == INSTANCE Telemetry

\* Thresholds are naturals, readings too, and a row outlives its reminder even
\* where the clock was set back a little: 7 days against 6 hours and a minute.
Thresholds ==
    /\ Reminder \in Nat /\ Keep \in Nat /\ Ahead \in Nat
    /\ Sustained \in Nat /\ Gap \in Nat /\ Least \in Nat /\ Least >= 1
    /\ Times \subseteq Nat /\ Keep >= Reminder + Ahead /\ Transient \subseteq Keys

Events == [key : Keys, at : Nat, by : {"table", "memory"}]
Counts == [first : Nat, last : Nat, count : Nat]

-------------------------------------------------------------------------------
\* The types survive a reservation.
LEMMA ReserveTypes ==
    ASSUME Thresholds, T!TypeOK, NEW p \in Procs, NEW k \in Keys, NEW t \in Times,
           T!Reserve(p, k, t)
    PROVE  /\ table' \in [Keys -> T!Time] /\ seen' \in [Procs -> [Keys -> T!Time]]
           /\ peak' \in Nat /\ sent' \in Seq(Events)
  <1>1. t \in Nat /\ t \in T!Time /\ T!NoTime \in T!Time
    BY DEF Thresholds, T!Time
  <1>2. /\ table \in [Keys -> T!Time] /\ seen \in [Procs -> [Keys -> T!Time]]
        /\ sent \in Seq(Events) /\ peak \in Nat
    BY DEF T!TypeOK, Events
  <1>3. peak' \in Nat
    BY <1>1, <1>2 DEF T!Reserve
  <1>4. T!Upserted(k, t) \in [Keys -> T!Time] /\ T!Upserted(k, t)[k] \in T!Time
    BY <1>1, <1>2 DEF T!Upserted
  <1>5. ASSUME NEW r \in T!Time, T!Remember(p, k, r) PROVE seen' \in [Procs -> [Keys -> T!Time]]
    BY <1>2, <1>5 DEF T!Remember
  <1>6. ASSUME NEW by \in {"table", "memory"}, T!Send(k, t, by) PROVE sent' \in Seq(Events)
    <2>1. [key |-> k, at |-> t, by |-> by] \in Events
      BY <1>1 DEF Events
    <2>2. QED BY <1>2, <1>6, <2>1 DEF T!Send
  <1>7. CASE T!ByTable(p, k, t)
    <2>1. table' \in [Keys -> T!Time]
      BY <1>1, <1>4, <1>7 DEF T!ByTable, T!Cleaned
    <2>2. seen' \in [Procs -> [Keys -> T!Time]]
      BY <1>4, <1>5, <1>7 DEF T!ByTable
    <2>3. sent' \in Seq(Events)
      BY <1>2, <1>6, <1>7 DEF T!ByTable
    <2>4. QED BY <1>3, <2>1, <2>2, <2>3
  <1>8. CASE T!ByMemory(p, k, t)
    <2>1. seen' \in [Procs -> [Keys -> T!Time]] /\ sent' \in Seq(Events)
      BY <1>1, <1>2, <1>5, <1>6, <1>8 DEF T!ByMemory
    <2>2. QED BY <1>2, <1>3, <1>8, <2>1 DEF T!ByMemory
  <1>9. CASE T!CommitFails(p, k, t)
    <2>1. seen' \in [Procs -> [Keys -> T!Time]] /\ sent' \in Seq(Events)
      BY <1>1, <1>2, <1>4, <1>5, <1>6, <1>9 DEF T!CommitFails
    <2>2. QED BY <1>2, <1>3, <1>9, <2>1 DEF T!CommitFails
  <1>10. QED BY <1>7, <1>8, <1>9 DEF T!Reserve

LEMMA NoteTypes ==
    ASSUME Thresholds, T!TypeOK, NEW p \in Procs, NEW k \in Keys, NEW s \in Slots,
           NEW now \in Times, T!Note(p, k, s, now)
    PROVE  mono' \in [Procs -> Nat] /\ log' \in [Procs -> [T!Places -> Seq(Nat)]]
  <1>1. now \in Nat
    BY DEF Thresholds
  <1>2. mono' \in [Procs -> Nat]
    BY <1>1 DEF T!Note, T!TypeOK
  <1>3. <<k, s>> \in T!Places
    BY DEF T!Places
  <1>4. log[p][<<k, s>>] \in Seq(Nat)
    BY <1>3 DEF T!TypeOK
  <1>5. Append(log[p][<<k, s>>], now) \in Seq(Nat)
    BY <1>1, <1>4
  <1>6. log' \in [Procs -> [T!Places -> Seq(Nat)]]
    BY <1>3, <1>5 DEF T!Note, T!TypeOK
  <1>7. QED BY <1>2, <1>6

LEMMA CountedType ==
    ASSUME NEW o \in Counts, NEW now \in Nat, Gap \in Nat
    PROVE  T!Counted(o, now) \in Counts
  BY DEF T!Counted, Counts

LEMMA ReportTypeStep ==
    ASSUME Thresholds, T!TypeOK, [T!Next]_(T!vars)
    PROVE  T!TypeOK'
  <1>1. CASE UNCHANGED T!vars
    BY <1>1 DEF T!vars, T!TypeOK
  <1>2. ASSUME NEW p \in Procs, NEW k \in Keys, NEW s \in Slots, NEW now \in Times, NEW t \in Times,
               T!ReportTransient(p, k, s, now, t)
        PROVE  T!TypeOK'
    <2>1. mono' \in [Procs -> Nat] /\ log' \in [Procs -> [T!Places -> Seq(Nat)]]
      BY <1>2, NoteTypes DEF T!ReportTransient
    <2>2. <<k, s>> \in T!Places /\ now \in Nat /\ Gap \in Nat
      BY DEF T!Places, Thresholds
    <2>3. pending[p][<<k, s>>] \in Counts
      BY <2>2 DEF T!TypeOK, Counts
    <2>4. T!Counted(pending[p][<<k, s>>], now) \in Counts
      BY <2>2, <2>3, CountedType
    <2>5. pending' \in [Procs -> [T!Places -> [first : Nat, last : Nat, count : Nat]]]
      <3>1. pending[p] \in [T!Places -> Counts] /\ T!NoCount \in Counts
        BY DEF T!TypeOK, Counts, T!NoCount
      <3>2. T!Roomed(p, <<k, s>>) \subseteq [T!Places -> Counts]
        BY <3>1 DEF T!Roomed, T!Held
      <3>3. PICK held \in T!Roomed(p, <<k, s>>) :
              pending' = [pending EXCEPT ![p] =
                [held EXCEPT ![<<k, s>>] = T!Counted(pending[p][<<k, s>>], now)]]
        BY <1>2 DEF T!ReportTransient
      <3>4. [held EXCEPT ![<<k, s>>] = T!Counted(pending[p][<<k, s>>],
         now)] \in [T!Places -> Counts]
        BY <2>2, <2>4, <3>2
      <3>5. QED BY <3>3, <3>4 DEF T!TypeOK, Counts
    <2>6. /\ table' \in [Keys -> T!Time] /\ seen' \in [Procs -> [Keys -> T!Time]]
          /\ peak' \in Nat /\ sent' \in Seq(Events)
      <3>1. CASE T!Unreserved
        BY <3>1 DEF T!Unreserved, T!TypeOK, Events
      <3>2. CASE T!Reserve(p, k, t)
        BY <3>2, ReserveTypes
      <3>3. QED BY <1>2, <3>1, <3>2 DEF T!ReportTransient
    <2>7. QED BY <2>1, <2>5, <2>6 DEF T!TypeOK, Events
  <1>3. ASSUME NEW p \in Procs, NEW k \in Keys, NEW s \in Slots, NEW now \in Times, NEW t \in Times,
               T!ReportOther(p, k, s, now, t)
        PROVE  T!TypeOK'
    <2>1. mono' \in [Procs -> Nat] /\ log' \in [Procs -> [T!Places -> Seq(Nat)]]
      BY <1>3, NoteTypes DEF T!ReportOther
    <2>2. /\ table' \in [Keys -> T!Time] /\ seen' \in [Procs -> [Keys -> T!Time]]
          /\ peak' \in Nat /\ sent' \in Seq(Events)
      BY <1>3, ReserveTypes DEF T!ReportOther
    <2>3. QED BY <1>3, <2>1, <2>2 DEF T!ReportOther, T!TypeOK, Events
  <1>4. ASSUME NEW p \in Procs, NEW s \in Slots, T!Recovered(p, s) PROVE T!TypeOK'
    <2>1. T!NoCount \in Counts /\ <<>> \in Seq(Nat)
      BY DEF T!NoCount, Counts
    <2>2. pending' \in [Procs -> [T!Places -> Counts]]
      BY <1>4, <2>1 DEF T!Recovered, T!TypeOK, Counts
    <2>3. log' \in [Procs -> [T!Places -> Seq(Nat)]]
      BY <1>4, <2>1 DEF T!Recovered, T!TypeOK
    <2>4. QED BY <1>4, <2>2, <2>3 DEF T!Recovered, T!TypeOK, Counts
  <1>5. ASSUME NEW p \in Procs, T!Restarted(p) PROVE T!TypeOK'
    <2>1. T!NoCount \in Counts /\ <<>> \in Seq(Nat) /\ T!NoTime \in T!Time
      BY DEF T!NoCount, Counts, T!Time
    <2>2. pending' \in [Procs -> [T!Places -> Counts]]
      BY <1>5, <2>1 DEF T!Restarted, T!TypeOK, Counts
    <2>3. log' \in [Procs -> [T!Places -> Seq(Nat)]] /\ seen' \in [Procs -> [Keys -> T!Time]]
      BY <1>5, <2>1 DEF T!Restarted, T!TypeOK
    <2>4. QED BY <1>5, <2>2, <2>3 DEF T!Restarted, T!TypeOK, Counts
  <1>6. QED BY <1>1, <1>2, <1>3, <1>4, <1>5 DEF T!Next, T!Step

LEMMA ReportTypeInit == T!Init => T!TypeOK
  <1>1. SUFFICES ASSUME T!Init PROVE T!TypeOK
    OBVIOUS
  <1>2. T!NoCount \in Counts /\ <<>> \in Seq(Nat) /\ <<>> \in Seq(Events) /\ T!NoTime \in T!Time
    BY DEF T!NoCount, Counts, T!Time
  <1>3. table \in [Keys -> T!Time] /\ seen \in [Procs -> [Keys -> T!Time]]
    BY <1>1, <1>2 DEF T!Init
  <1>4. pending \in [Procs -> [T!Places -> Counts]]
    BY <1>1, <1>2 DEF T!Init
  <1>5. log \in [Procs -> [T!Places -> Seq(Nat)]] /\ mono \in [Procs -> Nat] /\ peak \in Nat
    BY <1>1, <1>2 DEF T!Init
  <1>6. QED BY <1>1, <1>2, <1>3, <1>4, <1>5 DEF T!Init, T!TypeOK, Counts, Events

\* Every variable keeps its type.
THEOREM ReportTypeCorrect ==
    ASSUME Thresholds
    PROVE  T!Spec => []T!TypeOK
  <1>1. T!Init => T!TypeOK
    BY ReportTypeInit
  <1>2. T!TypeOK /\ [T!Next]_(T!vars) => T!TypeOK'
    BY ReportTypeStep
  <1>3. QED BY <1>1, <1>2, PTL DEF T!Spec

-------------------------------------------------------------------------------
(***************************************************************************)
(* Events are Reminder apart.  A row is removed long after its event, so    *)
(* the event is then further back than any reminder reaches: until then the *)
(* row is the event's, or a later one's.                                    *)
(***************************************************************************)
Behind(e, rows, latest) ==
    e.at <= latest /\ (rows[e.key] >= e.at \/ e.at + Keep < latest)

RowsCover ==
    /\ \A k \in Keys : table[k] <= peak
    /\ \A i \in DOMAIN sent : sent[i].by = "table" => Behind(sent[i], table, peak)

\* A renewed row is not older than the one it replaces: a row too far ahead of the
\* clock does not occur while the clock is not set back further than that.
LEMMA Renewed ==
    ASSUME Thresholds, T!TypeOK, RowsCover, NEW k \in Keys, NEW t \in Nat,
           t >= peak - Ahead, T!Free(k, t)
    PROVE  table[k] = T!NoTime \/ t - table[k] >= Reminder
  <1>1. table[k] \in T!Time /\ table[k] <= peak /\ peak \in Nat /\ Ahead \in Nat
    BY DEF T!TypeOK, RowsCover, Thresholds
  <1>2. QED BY <1>1 DEF T!Free, T!Time, T!NoTime

LEMMA RowsStep ==
    ASSUME Thresholds, T!TypeOK, RowsCover, T!OnePerReminder,
           NEW p \in Procs, NEW k \in Keys, NEW t \in Times, T!Reserve(p, k, t)
    PROVE  RowsCover' /\ T!OnePerReminder'
  <1>1. /\ t \in Nat /\ peak \in Nat /\ Keep \in Nat /\ Ahead \in Nat /\ Reminder \in Nat
        /\ Keep >= Reminder + Ahead
    BY DEF Thresholds, T!TypeOK
  <1>2. /\ t >= peak - Ahead /\ peak' \in Nat /\ peak <= peak' /\ t <= peak'
    BY <1>1 DEF T!Reserve
  <1>3. table \in [Keys -> T!Time] /\ sent \in Seq(Events)
    BY DEF T!TypeOK, Events
  <1>4. \A i \in DOMAIN sent : sent[i] \in Events
    BY <1>3
  <1>5. ASSUME NEW e \in Events, e.by = "memory", sent' = Append(sent, e) \/ sent' = sent,
               table' = table
        PROVE  RowsCover' /\ T!OnePerReminder'
    <2>1. ASSUME NEW i \in DOMAIN sent', sent'[i].by = "table"
          PROVE  i \in DOMAIN sent /\ sent'[i] = sent[i]
      <3>1. CASE sent' = sent
        BY <2>1, <3>1
      <3>2. CASE sent' = Append(sent, e)
        <4>1. /\ Len(sent) \in Nat /\ DOMAIN sent = 1 .. Len(sent)
              /\ DOMAIN sent' = 1 .. Len(sent) + 1
              /\ \A j \in DOMAIN sent : sent'[j] = sent[j]
              /\ sent'[Len(sent) + 1] = e
          BY <1>3, <3>2
        <4>2. i # Len(sent) + 1
          BY <1>5, <2>1, <4>1
        <4>3. QED BY <4>1, <4>2
      <3>3. QED BY <1>5, <3>1, <3>2
    <2>2. \A f \in Events : Behind(f, table, peak) => Behind(f, table', peak')
      BY <1>1, <1>2, <1>5 DEF Behind, Events
    <2>3. \A i \in DOMAIN sent' : sent'[i].by = "table" => Behind(sent'[i], table', peak')
      <3>1. SUFFICES ASSUME NEW i \in DOMAIN sent', sent'[i].by = "table"
                     PROVE  Behind(sent'[i], table', peak')
        OBVIOUS
      <3>2. i \in DOMAIN sent /\ sent'[i] = sent[i]
        BY <2>1, <3>1
      <3>3. Behind(sent[i], table, peak) /\ sent[i] \in Events
        BY <1>4, <3>1, <3>2 DEF RowsCover
      <3>4. QED BY <2>2, <3>2, <3>3
    <2>4. \A f \in Keys : table'[f] <= peak'
      BY <1>1, <1>2, <1>3, <1>5 DEF RowsCover, T!Time, T!NoTime
    <2>5. T!OnePerReminder'
      BY <2>1 DEF T!OnePerReminder
    <2>6. QED BY <2>3, <2>4, <2>5 DEF RowsCover
  <1>6. CASE T!ByTable(p, k, t)
    <2>1. T!Upserted(k, t) \in [Keys -> T!Time]
      BY <1>1, <1>3 DEF T!Upserted, T!Time
    <2>2. table' = T!Cleaned(T!Upserted(k, t), t)
      BY <1>6 DEF T!ByTable
    <2>3. \A f \in Keys : table'[f] <= peak'
      <3>1. \A f \in Keys : T!Upserted(k, t)[f] <= peak'
        BY <1>1, <1>2, <1>3 DEF T!Upserted, RowsCover, T!Time, T!NoTime
      <3>2. QED BY <1>1, <1>2, <2>2, <3>1 DEF T!Cleaned, T!NoTime
    \* An event that was behind stays behind.
    <2>4. ASSUME NEW f \in Events, Behind(f, table, peak) PROVE Behind(f, table', peak')
      <3>1. f.at \in Nat /\ f.key \in Keys /\ table[f.key] \in T!Time
        BY <1>3 DEF Events
      <3>2. f.at <= peak'
        BY <1>1, <1>2, <2>4, <3>1 DEF Behind
      <3>3. CASE f.at + Keep < peak
        BY <1>1, <1>2, <3>1, <3>2, <3>3 DEF Behind
      <3>4. CASE table[f.key] >= f.at
        <4>1. T!Upserted(k, t)[f.key] >= f.at
          <5>1. CASE T!Free(k, t) /\ f.key = k
            <6>1. t - table[k] >= Reminder
              BY <1>1, <1>2, <3>1, <3>4, <5>1, Renewed DEF T!Time, T!NoTime
            <6>2. t >= f.at
              BY <1>1, <3>1, <3>4, <5>1, <6>1 DEF T!Time, T!NoTime
            <6>3. QED BY <1>3, <5>1, <6>2 DEF T!Upserted
          <5>2. CASE ~(T!Free(k, t) /\ f.key = k)
            BY <1>3, <3>1, <3>4, <5>2 DEF T!Upserted
          <5>3. QED BY <5>1, <5>2
        <4>2. T!Upserted(k, t)[f.key] \in T!Time
          BY <2>1, <3>1
        <4>3. CASE t - T!Upserted(k, t)[f.key] > Keep
          <5>1. f.at + Keep < peak'
            BY <1>1, <1>2, <3>1, <4>1, <4>2, <4>3 DEF T!Time, T!NoTime
          <5>2. QED BY <3>2, <5>1 DEF Behind
        <4>4. CASE ~(t - T!Upserted(k, t)[f.key] > Keep)
          <5>1. table'[f.key] = T!Upserted(k, t)[f.key]
            BY <2>2, <3>1, <4>4 DEF T!Cleaned
          <5>2. QED BY <3>2, <4>1, <5>1 DEF Behind
        <4>5. QED BY <4>3, <4>4
      <3>5. QED BY <2>4, <3>3, <3>4 DEF Behind
    <2>5. CASE ~T!Free(k, t)
      <3>1. sent' = sent
        BY <1>6, <2>5 DEF T!ByTable
      <3>2. \A i \in DOMAIN sent' : sent'[i].by = "table" => Behind(sent'[i], table', peak')
        BY <1>4, <2>4, <3>1 DEF RowsCover
      <3>3. QED BY <2>3, <3>1, <3>2 DEF RowsCover, T!OnePerReminder
    <2>6. CASE T!Free(k, t)
      <3> DEFINE new == [key |-> k, at |-> t, by |-> "table"]
      <3>1. sent' = Append(sent, new) /\ new \in Events
        BY <1>1, <1>6, <2>6 DEF T!ByTable, T!Send, Events
      <3>2. /\ Len(sent) \in Nat /\ DOMAIN sent = 1 .. Len(sent)
            /\ DOMAIN sent' = 1 .. Len(sent) + 1
            /\ \A i \in DOMAIN sent : sent'[i] = sent[i]
            /\ sent'[Len(sent) + 1] = new
        BY <1>3, <3>1
      <3>3. Behind(new, table', peak')
        <4>1. T!Upserted(k, t)[k] = t
          BY <1>3, <2>6 DEF T!Upserted
        <4>2. table'[k] = t
          BY <1>1, <2>2, <4>1 DEF T!Cleaned
        <4>3. QED BY <1>1, <1>2, <4>2 DEF Behind
      <3>4. \A i \in DOMAIN sent' : sent'[i].by = "table" => Behind(sent'[i], table', peak')
        <4>1. SUFFICES ASSUME NEW i \in DOMAIN sent', sent'[i].by = "table"
                       PROVE  Behind(sent'[i], table', peak')
          OBVIOUS
        <4>2. CASE i \in DOMAIN sent
          <5>1. Behind(sent[i], table, peak) /\ sent[i] \in Events /\ sent'[i] = sent[i]
            BY <1>4, <3>2, <4>1, <4>2 DEF RowsCover
          <5>2. Behind(sent[i], table', peak')
            BY <2>4, <5>1
          <5>3. QED BY <5>1, <5>2
        <4>3. CASE i = Len(sent) + 1
          BY <3>2, <3>3, <4>3
        <4>4. QED BY <3>2, <4>2, <4>3
      \* The new event against those before it.
      <3>5. ASSUME NEW i \in DOMAIN sent, sent[i].key = k, sent[i].by = "table"
            PROVE  t - sent[i].at >= Reminder
        <4>1. sent[i].at \in Nat /\ Behind(sent[i], table, peak) /\ table[k] \in T!Time
          BY <1>3, <1>4, <3>5 DEF Events, RowsCover
        <4>2. CASE table[k] >= sent[i].at
          <5>1. t - table[k] >= Reminder
            BY <1>1, <1>2, <2>6, <4>1, <4>2, Renewed DEF T!Time, T!NoTime
          <5>2. QED BY <1>1, <4>1, <4>2, <5>1 DEF T!Time, T!NoTime
        <4>3. CASE sent[i].at + Keep < peak
          BY <1>1, <1>2, <4>1, <4>3
        <4>4. QED BY <3>5, <4>1, <4>2, <4>3 DEF Behind
      <3>6. T!OnePerReminder'
        <4>1. SUFFICES ASSUME NEW i \in DOMAIN sent', NEW j \in DOMAIN sent', i < j,
                              sent'[i].key = sent'[j].key,
                              sent'[i].by = "table", sent'[j].by = "table"
                       PROVE  sent'[j].at - sent'[i].at >= Reminder
          BY DEF T!OnePerReminder
        <4>2. i \in DOMAIN sent
          BY <3>2, <4>1
        <4>3. CASE j \in DOMAIN sent
          BY <3>2, <4>1, <4>2, <4>3 DEF T!OnePerReminder
        <4>4. CASE j = Len(sent) + 1
          BY <3>2, <3>5, <4>1, <4>2, <4>4
        <4>5. QED BY <3>2, <4>3, <4>4
      <3>7. QED BY <2>3, <3>4, <3>6 DEF RowsCover
    <2>7. QED BY <2>5, <2>6
  <1>7. CASE T!ByMemory(p, k, t) \/ T!CommitFails(p, k, t)
    <2>1. [key |-> k, at |-> t, by |-> "memory"] \in Events
      BY <1>1 DEF Events
    <2>2. /\ table' = table
          /\ sent' = Append(sent, [key |-> k, at |-> t, by |-> "memory"]) \/ sent' = sent
      BY <1>7 DEF T!ByMemory, T!CommitFails, T!Send
    <2>3. QED BY <1>5, <2>1, <2>2
  <1>8. QED BY <1>6, <1>7 DEF T!Reserve

\* At most one event of a key goes through the table in any Reminder, for all
\* processes, slots and restarts.
THEOREM EventsSpaced ==
    ASSUME Thresholds
    PROVE  T!Spec => []T!OnePerReminder
  <1> DEFINE Inv == RowsCover /\ T!OnePerReminder
  <1>1. T!Init => Inv
    <2>1. T!Init => \A k \in Keys : table[k] <= peak
      BY DEF T!Init, T!NoTime
    <2>2. T!Init => DOMAIN sent = {}
      BY DEF T!Init
    <2>3. QED BY <2>1, <2>2 DEF RowsCover, T!OnePerReminder
  <1>2. T!TypeOK /\ Inv /\ [T!Next]_(T!vars) => Inv'
    <2>1. SUFFICES ASSUME T!TypeOK, Inv, [T!Next]_(T!vars) PROVE Inv'
      OBVIOUS
    <2>2. CASE UNCHANGED <<table, sent, peak>>
      BY <2>1, <2>2 DEF RowsCover, T!OnePerReminder
    <2>3. CASE \E p \in Procs, k \in Keys, t \in Times : T!Reserve(p, k, t)
      BY <2>1, <2>3, RowsStep
    <2>4. ASSUME NEW p \in Procs, NEW k \in Keys, NEW s \in Slots, NEW now \in Times,
                 NEW t \in Times, T!ReportTransient(p, k, s, now, t) \/ T!ReportOther(p, k, s,
                    now, t)
          PROVE  Inv'
      <3>1. T!Reserve(p, k, t) \/ UNCHANGED <<table, sent, peak>>
        BY <2>4 DEF T!ReportTransient, T!ReportOther, T!Unreserved
      <3>2. QED BY <2>2, <2>3, <3>1
    <2>5. ASSUME NEW p \in Procs, (\E s \in Slots : T!Recovered(p, s)) \/ T!Restarted(p)
          PROVE  Inv'
      BY <2>2, <2>5 DEF T!Recovered, T!Restarted
    <2>6. CASE UNCHANGED T!vars
      BY <2>2, <2>6 DEF T!vars
    <2>7. QED BY <2>1, <2>4, <2>5, <2>6 DEF T!Next, T!Step
  <1>3. T!Spec => []T!TypeOK
    BY ReportTypeCorrect
  <1>4. QED BY <1>1, <1>2, <1>3, PTL DEF T!Spec

-------------------------------------------------------------------------------
(***************************************************************************)
(* Only a persistent failure is reported.  A count stands for the last      *)
(* failures of its slot's log, as many as it says.                          *)
(***************************************************************************)
Stands(o, l) ==
    o.count > 0 =>
      /\ o.count <= Len(l)
      /\ o.first = l[Len(l) - o.count + 1] /\ o.last = l[Len(l)]
      /\ \A j \in Len(l) - o.count + 1 .. Len(l) - 1 : l[j + 1] - l[j] <= Gap

CountsStand ==
    \A p \in Procs, x \in T!Places :
        /\ Stands(pending[p][x], log[p][x])
        /\ x[1] \notin Transient => pending[p][x].count = 0

LEMMA StandsOn ==
    ASSUME NEW o \in Counts, NEW l \in Seq(Nat), NEW now \in Nat, Gap \in Nat, Stands(o, l)
    PROVE  Stands(T!Counted(o, now), Append(l, now))
  <1> DEFINE m == Append(l, now)
             n == Len(l)
             c == T!Counted(o, now)
  <1>1. /\ n \in Nat /\ Len(m) = n + 1 /\ m[n + 1] = now /\ m \in Seq(Nat)
        /\ \A i \in 1 .. n : m[i] = l[i]
    OBVIOUS
  <1>2. o.count \in Nat /\ o.first \in Nat /\ o.last \in Nat
    BY DEF Counts
  <1>3. CASE o.count = 0 \/ now - o.last > Gap
    <2>1. c.count = 1 /\ c.first = now /\ c.last = now
      BY <1>3 DEF T!Counted
    <2> HIDE DEF m, c
    <2>2. /\ c.count <= Len(m) /\ c.first = m[Len(m) - c.count + 1] /\ c.last = m[Len(m)]
          /\ Len(m) - c.count + 1 .. Len(m) - 1 = {}
      BY <1>1, <2>1
    <2>3. Stands(c, m)
      BY <2>2 DEF Stands
    <2>4. QED BY <2>3 DEF m, c
  <1>4. CASE o.count > 0 /\ now - o.last <= Gap
    <2> DEFINE a == n - o.count + 1
    <2>1. c.first = o.first /\ c.last = now /\ c.count = o.count + 1
      BY <1>2, <1>4 DEF T!Counted
    <2>2. /\ o.count <= n /\ o.first = l[a] /\ o.last = l[n]
          /\ \A j \in a .. n - 1 : l[j + 1] - l[j] <= Gap
      BY <1>4 DEF Stands
    <2> HIDE DEF m, n, c
    <2>3. a \in 1 .. n
      <3>1. n \in Nat /\ o.count \in Nat /\ o.count > 0 /\ o.count <= n
        BY <1>1, <1>2, <1>4, <2>2
      <3>2. QED BY <3>1
    <2> HIDE DEF a
    <2>4. ASSUME NEW j \in a .. n PROVE m[j + 1] - m[j] <= Gap
      <3>1. j \in 1 .. n
        BY <1>1, <2>3, <2>4
      <3>2. CASE j = n
        BY <1>1, <1>4, <2>2, <3>1, <3>2
      <3>3. CASE j # n
        <4>1. j \in a .. n - 1 /\ j + 1 \in 1 .. n
          BY <1>1, <2>3, <2>4, <3>3
        <4>2. QED BY <1>1, <2>2, <3>1, <4>1
      <3>4. QED BY <3>2, <3>3
    <2>5. Len(m) - c.count + 1 = a /\ Len(m) - 1 = n
      BY <1>1, <1>2, <2>1 DEF a
    <2>6. c.count <= Len(m) /\ c.first = m[a] /\ c.last = m[Len(m)]
      BY <1>1, <1>2, <2>1, <2>2, <2>3
    <2>7. Stands(c, m)
      BY <2>4, <2>5, <2>6 DEF Stands
    <2>8. QED BY <2>7 DEF m, c
  <1>5. QED BY <1>2, <1>3, <1>4 DEF Counts

LEMMA StandsPersistent ==
    ASSUME Thresholds, NEW o \in Counts, NEW l \in Seq(Nat), Stands(o, l), T!Persists(o)
    PROVE  T!Persistent(l)
  <1> DEFINE i == Len(l) - o.count + 1
  <1>1. o.count \in Nat /\ o.count >= Least /\ o.count > 0 /\ Len(l) \in Nat
    BY DEF Counts, T!Persists, Thresholds
  <1>2. o.count <= Len(l) /\ i \in 1 .. Len(l) /\ Len(l) - i + 1 = o.count
    <2>1. o.count <= Len(l)
      BY <1>1 DEF Stands
    <2>2. QED BY <1>1, <2>1
  <1>3. l[Len(l)] - l[i] >= Sustained
    BY <1>1 DEF Stands, T!Persists
  <1>4. \A j \in i .. Len(l) - 1 : l[j + 1] - l[j] <= Gap
    BY <1>1 DEF Stands
  <1>5. QED BY <1>1, <1>2, <1>3, <1>4 DEF T!Persistent

\* A report of a transient code: its count still stands for its log, and so does
\* every other that was not dropped to make room.
LEMMA StandTransient ==
    ASSUME Thresholds, T!TypeOK, CountsStand,
           NEW p \in Procs, NEW k \in Keys, NEW s \in Slots, NEW now \in Times, NEW t \in Times,
           T!ReportTransient(p, k, s, now, t)
    PROVE  /\ CountsStand'
           /\ Stands(T!Counted(pending[p][<<k, s>>], now), log'[p][<<k, s>>])
           /\ log'[p][<<k, s>>] # log[p][<<k, s>>]
  <1> DEFINE x == <<k, s>>
             o == T!Counted(pending[p][x], now)
  <1>1. /\ x \in T!Places /\ x[1] = k /\ k \in Transient
        /\ now \in Nat /\ Gap \in Nat
        /\ pending[p][x] \in Counts /\ log[p][x] \in Seq(Nat) /\ log[p] \in [T!Places -> Seq(Nat)]
        /\ pending[p] \in [T!Places -> Counts]
    <2>1. x \in T!Places /\ x[1] = k /\ k \in Transient
      BY DEF T!Places, T!ReportTransient
    <2>2. now \in Nat /\ Gap \in Nat
      BY DEF Thresholds
    <2>3. log[p] \in [T!Places -> Seq(Nat)] /\ pending[p] \in [T!Places -> Counts]
      BY DEF T!TypeOK, Counts
    <2>4. QED BY <2>1, <2>2, <2>3
  <1>2. log' = [log EXCEPT ![p] = [log[p] EXCEPT ![x] = Append(log[p][x], now)]]
    BY DEF T!ReportTransient, T!Note
  <1>3. PICK held \in T!Roomed(p, x) : pending' = [pending EXCEPT ![p] = [held EXCEPT ![x] = o]]
    BY DEF T!ReportTransient
  <1> HIDE DEF x
  <1>4. Stands(o, Append(log[p][x], now))
    <2>1. Stands(pending[p][x], log[p][x])
      BY <1>1 DEF CountsStand
    <2>2. QED BY <1>1, <2>1, StandsOn
  <1> HIDE DEF o
  <1>5. log'[p][x] = Append(log[p][x], now) /\ \A y \in T!Places \ {x} : log'[p][y] = log[p][y]
    BY <1>1, <1>2 DEF T!TypeOK
  <1>6. log'[p][x] # log[p][x]
    <2>1. Len(log'[p][x]) = Len(log[p][x]) + 1 /\ Len(log[p][x]) \in Nat
      BY <1>1, <1>5
    <2>2. QED BY <2>1
  <1>7. held \in [T!Places -> Counts] /\ \A y \in T!Places : held[y] = pending[p][y] \/ held[y] =
                                         T!NoCount
    <2>1. T!NoCount \in Counts
      BY DEF T!NoCount, Counts
    <2>2. QED BY <1>1, <1>3, <2>1 DEF T!Roomed, T!Held
  <1>8. /\ pending'[p][x] = o
        /\ \A y \in T!Places \ {x} : pending'[p][y] = pending[p][y] \/ pending'[p][y] = T!NoCount
    BY <1>1, <1>3, <1>7 DEF T!TypeOK
  <1>9. \A q \in Procs \ {p} : pending'[q] = pending[q] /\ log'[q] = log[q]
    BY <1>2, <1>3 DEF T!TypeOK
  <1>10. ASSUME NEW q \in Procs, NEW y \in T!Places
         PROVE  Stands(pending'[q][y],
            log'[q][y]) /\ (y[1] \notin Transient => pending'[q][y].count = 0)
    <2>1. Stands(pending[q][y], log[q][y]) /\ (y[1] \notin Transient => pending[q][y].count = 0)
      BY DEF CountsStand
    <2>2. CASE q # p
      BY <1>9, <2>1, <2>2
    <2>3. CASE q = p /\ y = x
      BY <1>1, <1>4, <1>5, <1>8, <2>3
    <2>4. CASE q = p /\ y # x
      <3>1. pending'[q][y] = T!NoCount => Stands(pending'[q][y],
         log'[q][y]) /\ pending'[q][y].count = 0
        BY DEF Stands, T!NoCount
      <3>2. QED BY <1>5, <1>8, <2>1, <2>4, <3>1
    <2>5. QED BY <2>2, <2>3, <2>4
  <1>11. CountsStand'
    BY <1>10 DEF CountsStand
  <1>12. QED BY <1>4, <1>5, <1>6, <1>11 DEF x, o

LEMMA StandStep ==
    ASSUME Thresholds, T!TypeOK, CountsStand, [T!Next]_(T!vars)
    PROVE  CountsStand'
  <1>1. CASE UNCHANGED T!vars
    BY <1>1 DEF T!vars, CountsStand
  <1>2. ASSUME NEW p \in Procs, NEW k \in Keys, NEW s \in Slots, NEW now \in Times, NEW t \in Times,
               T!ReportTransient(p, k, s, now, t)
        PROVE  CountsStand'
    BY <1>2, StandTransient
  \* Nothing is counted of a code that is reported at once.
  <1>3. ASSUME NEW p \in Procs, NEW k \in Keys, NEW s \in Slots, NEW now \in Times, NEW t \in Times,
               T!ReportOther(p, k, s, now, t)
        PROVE  CountsStand'
    <2>1. /\ pending' = pending /\ k \notin Transient
          /\ log' = [log EXCEPT ![p][<<k, s>>] = Append(@, now)]
      BY <1>3 DEF T!ReportOther, T!Note
    <2>2. ASSUME NEW q \in Procs, NEW y \in T!Places PROVE Stands(pending'[q][y], log'[q][y])
      <3>1. Stands(pending[q][y], log[q][y]) /\ (y[1] \notin Transient => pending[q][y].count = 0)
        BY DEF CountsStand
      <3>2. CASE q = p /\ y = <<k, s>>
        BY <2>1, <3>1, <3>2 DEF Stands
      <3>3. CASE ~(q = p /\ y = <<k, s>>)
        <4>1. log'[q][y] = log[q][y]
          BY <2>1, <3>3 DEF T!TypeOK
        <4>2. QED BY <2>1, <3>1, <4>1
      <3>4. QED BY <3>2, <3>3
    <2>3. QED BY <2>1, <2>2 DEF CountsStand
  <1>4. ASSUME NEW p \in Procs, NEW s \in Slots, T!Recovered(p, s) PROVE CountsStand'
    <2>1. ASSUME NEW q \in Procs, NEW y \in T!Places
          PROVE  \/ pending'[q][y] = T!NoCount
                 \/ pending'[q][y] = pending[q][y] /\ log'[q][y] = log[q][y]
      BY <1>4 DEF T!Recovered, T!TypeOK
    <2>2. ASSUME NEW q \in Procs, NEW y \in T!Places
          PROVE  /\ Stands(pending'[q][y], log'[q][y])
                 /\ y[1] \notin Transient => pending'[q][y].count = 0
      <3>1. CASE pending'[q][y] = T!NoCount
        BY <3>1 DEF Stands, T!NoCount
      <3>2. CASE pending'[q][y] = pending[q][y] /\ log'[q][y] = log[q][y]
        BY <3>2 DEF CountsStand
      <3>3. QED BY <2>1, <3>1, <3>2
    <2>3. QED BY <2>2 DEF CountsStand
  <1>5. ASSUME NEW p \in Procs, T!Restarted(p) PROVE CountsStand'
    <2>1. ASSUME NEW q \in Procs, NEW y \in T!Places
          PROVE  \/ pending'[q][y] = T!NoCount
                 \/ pending'[q][y] = pending[q][y] /\ log'[q][y] = log[q][y]
      BY <1>5 DEF T!Restarted, T!TypeOK
    <2>2. ASSUME NEW q \in Procs, NEW y \in T!Places
          PROVE  /\ Stands(pending'[q][y], log'[q][y])
                 /\ y[1] \notin Transient => pending'[q][y].count = 0
      <3>1. CASE pending'[q][y] = T!NoCount
        BY <3>1 DEF Stands, T!NoCount
      <3>2. CASE pending'[q][y] = pending[q][y] /\ log'[q][y] = log[q][y]
        BY <3>2 DEF CountsStand
      <3>3. QED BY <2>1, <3>1, <3>2
    <2>3. QED BY <2>2 DEF CountsStand
  <1>6. QED BY <1>1, <1>2, <1>3, <1>4, <1>5 DEF T!Next, T!Step

\* The key of a new event is the one reported.
LEMMA ReservedKey ==
    ASSUME T!TypeOK, NEW p \in Procs, NEW k \in Keys, NEW t \in Nat, T!Reserve(p, k, t),
       sent' # sent
    PROVE  sent'[Len(sent')].key = k
  <1>1. PICK by \in {"table", "memory"} : T!Send(k, t, by)
    BY DEF T!Reserve, T!ByTable, T!ByMemory, T!CommitFails
  <1>2. [key |-> k, at |-> t, by |-> by] \in Events /\ sent \in Seq(Events)
    BY DEF Events, T!TypeOK
  <1>3. QED BY <1>1, <1>2 DEF T!Send

\* A transient failure is reported only where it persists in one slot.
THEOREM EventsPersistent ==
    ASSUME Thresholds
    PROVE  T!Spec => T!OnlyPersistent
  <1> DEFINE Step_ == \A k \in Transient :
                        sent' # sent /\ sent'[Len(sent')].key = k
                        => \E p \in Procs, s \in Slots :
                             /\ log'[p][<<k, s>>] # log[p][<<k, s>>]
                             /\ T!Persistent(log'[p][<<k, s>>])
  <1>1. T!Init => CountsStand
    BY DEF T!Init, CountsStand, Stands, T!NoCount
  <1>2. T!TypeOK /\ CountsStand /\ [T!Next]_(T!vars) => CountsStand'
    BY StandStep
  <1>3. T!TypeOK /\ T!TypeOK' /\ CountsStand /\ [T!Next]_(T!vars) => [Step_]_(T!vars)
    <2>1. SUFFICES ASSUME T!TypeOK, T!TypeOK', CountsStand, [T!Next]_(T!vars),
                          NEW k \in Transient, sent' # sent, sent'[Len(sent')].key = k
                   PROVE  \E p \in Procs, s \in Slots :
                            /\ log'[p][<<k, s>>] # log[p][<<k, s>>]
                            /\ T!Persistent(log'[p][<<k, s>>])
      OBVIOUS
    <2>2. PICK p \in Procs, f \in Keys, s \in Slots, now \in Times, t \in Times :
            T!ReportTransient(p, f, s, now, t) \/ T!ReportOther(p, f, s, now, t)
      BY <2>1 DEF T!vars, T!Next, T!Step, T!Recovered, T!Restarted
    <2>3. T!Reserve(p, f, t) /\ t \in Nat
      BY <2>1, <2>2 DEF T!ReportTransient, T!ReportOther, T!Unreserved, Thresholds
    <2>4. f = k
      BY <2>1, <2>3, ReservedKey
    <2>5. T!ReportTransient(p, f, s, now, t)
      BY <2>2, <2>4 DEF T!ReportOther
    <2> DEFINE o == T!Counted(pending[p][<<f, s>>], now)
    <2>6. T!Persists(o)
      BY <2>1, <2>5 DEF T!ReportTransient, T!Unreserved
    <2>7. o \in Counts
      <3>1. pending[p][<<f, s>>] \in Counts
        BY <2>1 DEF T!TypeOK, T!Places, Counts
      <3>2. QED BY <3>1, CountedType DEF Thresholds
    <2>8. log'[p][<<f, s>>] \in Seq(Nat)
      BY <2>1 DEF T!TypeOK, T!Places
    <2>9. Stands(o, log'[p][<<f, s>>]) /\ log'[p][<<f, s>>] # log[p][<<f, s>>]
      BY <2>1, <2>5, StandTransient
    <2> HIDE DEF o
    <2>10. T!Persistent(log'[p][<<f, s>>])
      BY <2>6, <2>7, <2>8, <2>9, StandsPersistent
    <2>11. QED BY <2>4, <2>9, <2>10
  <1>4. T!Spec => []T!TypeOK
    BY ReportTypeCorrect
  <1>5. QED BY <1>1, <1>2, <1>3, <1>4, PTL DEF T!Spec, T!OnlyPersistent
===============================================================================
