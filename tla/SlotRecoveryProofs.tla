-------------------------- MODULE SlotRecoveryProofs --------------------------
(***************************************************************************)
(* Theorems about SlotRecovery, for any number of processes, generations,   *)
(* leases, lost calls and crashes.                                          *)
(***************************************************************************)
EXTENDS SlotRecovery, TLAPS

USE BoundsAssumption

\* "No process", "no generation" and "no lease" are values of their types.
LEMMA Zero == 0 \in Identities /\ 0 \in Gens /\ 0 \in Leases
  BY DEF Identities, Gens, Leases

USE Zero

\* What the API does with a request of the right type.
LEMMA AfterType ==
    ASSUME api \in Rows, NEW r \in Requests, Accepts(r)
    PROVE  After(r) \in Rows
  <1>1. Unleased(api) \in Rows
    BY DEF Rows, Unleased
  <1>2. CASE r.op = "session"
    BY <1>2 DEF Requests, Rows, After, Status
  <1>3. CASE r.op = "report"
    BY <1>3 DEF Requests, Rows, After, Status
  <1>4. CASE r.op = "prepare"
    BY <1>4 DEF Requests, Rows, After, Status
  <1>5. CASE r.op = "complete"
    BY <1>1, <1>5 DEF After
  <1>6. CASE r.op = "fail"
    <2> DEFINE a == Unleased(api)
    <2>1. a \in Rows /\ api.leaseProc \in Identities
      BY <1>1 DEF Rows
    <2>2. After(r) = [a EXCEPT !.quar = IF r.quarantines THEN api.leaseProc ELSE 0]
      BY <1>6 DEF After
    <2> HIDE DEF a
    <2> QED
      BY <2>1, <2>2 DEF Rows
  <1>7. CASE r.op = "claim"
    <2>1. api.fence + 1 \in Leases
      BY <1>7 DEF Accepts, Rows, Leases
    <2> QED
      BY <1>7, <2>1 DEF Requests, Rows, After
  <1>8. CASE r.op \in {"config", "credentials", "heartbeat"}
    BY <1>8 DEF After
  <1> QED
    BY <1>7, <1>2, <1>3, <1>4, <1>5, <1>6, <1>8 DEF Requests, Calls

\* Processing a request leaves the row and the results of the right type.
LEMMA ProcessType ==
    ASSUME TypeOK, NEW r \in Requests, Process(r)
    PROVE  api' \in Rows /\ collected' \subseteq Results
  <1>1. api \in Rows /\ collected \subseteq Results
    BY DEF TypeOK
  <1>2. [proc |-> api.leaseProc, saw |-> r.saw] \in Results
    BY <1>1 DEF Requests, Rows, Results
  <1> QED
    BY <1>1, <1>2, AfterType DEF Process

\* An answered or an unanswered call leaves the API's side of the right type.
LEMMA CallType ==
    ASSUME TypeOK, NEW r \in Requests, Answered(r) \/ Unanswered(r)
    PROVE  /\ api' \in Rows /\ collected' \subseteq Results
           /\ late' \subseteq Requests /\ faults' \in 0 .. MaxFaults
  BY ProcessType DEF TypeOK, Answered, Unanswered

\* The worker's three ways to move keep its fields typed.
LEMMA MoveType ==
    ASSUME TypeOK, NEW w \in Workers, NEW p \in WorkerPcs, Goto(p, w) \/ Return(w) \/ Defer
    PROVE  wpc' \in WorkerPcs /\ worker' \in Workers /\ lock' \in {"free", "worker", "watchdog"}
  <1>1. lock \in {"free", "worker", "watchdog"} /\ worker \in Workers
    BY DEF TypeOK
  <1>2. CASE Goto(p, w)
    BY <1>1, <1>2 DEF Goto
  <1>3. ASSUME NEW v \in Workers, Return(v)
        PROVE  wpc' \in WorkerPcs /\ worker' \in Workers
               /\ lock' \in {"free", "worker", "watchdog"}
    BY <1>1, <1>3 DEF Return, Released, Workers, WorkerPcs, Status
  <1>4. CASE Defer
    <2>1. [worker EXCEPT !.connected = FALSE, !.inspected = FALSE] \in Workers
      BY <1>1 DEF Workers
    <2> QED
      BY <1>3, <1>4, <2>1 DEF Defer
  <1> QED
    BY <1>2, <1>3, <1>4

\* A snapshot of a process is typed.
LEMMA SnapshotType ==
    ASSUME TypeOK, NEW p \in Identities, NEW s \in Status, Snapshot(p, s)
    PROVE  wpc' \in WorkerPcs /\ worker' \in Workers
  BY DEF TypeOK, Snapshot, Workers, WorkerPcs

\* The watchdog's moves keep its fields typed.
LEMMA WatchdogType ==
    ASSUME TypeOK, NEW p \in WatchdogPcs, DGoto(p) \/ DReturn
    PROVE  /\ dpc' \in WatchdogPcs /\ watchdog' \in Watchdogs
           /\ lock' \in {"free", "worker", "watchdog"}
  BY DEF TypeOK, DGoto, DReturn, NewWatchdog, Released, Watchdogs, WatchdogPcs

\* The requests the two parties make are typed.
LEMMA RequestType ==
    ASSUME TypeOK
    PROVE  /\ Config \in Requests /\ ReportRequest \in Requests
           /\ ClaimRequest \in Requests /\ FenceRequest \in Requests
           /\ generations < MaxGenerations => SessionRequest \in Requests
           /\ \A op \in Calls : LeaseCall(op) \in Requests
  <1>1. Blank \in Requests
    BY DEF Blank, Requests, Calls, Status
  <1>2. Config \in Requests
    BY <1>1 DEF Config, Requests, Calls
  <1>3. worker \in Workers /\ watchdog \in Watchdogs /\ generations \in Gens
    BY DEF TypeOK
  <1>4. ReportRequest \in Requests
    BY <1>1, <1>3 DEF ReportRequest, Requests, Workers, Calls
  <1>5. ClaimRequest \in Requests
    BY <1>1, <1>3 DEF ClaimRequest, Requests, Workers, Calls
  <1>6. FenceRequest \in Requests
    BY <1>1, <1>3 DEF FenceRequest, Requests, Watchdogs, Calls
  <1>7. ASSUME generations < MaxGenerations PROVE SessionRequest \in Requests
    <2>1. generations + 1 \in Gens
      BY <1>3, <1>7 DEF Gens
    <2> QED
      BY <1>1, <1>3, <2>1 DEF SessionRequest, Requests, Workers, Calls
  <1>8. ASSUME NEW op \in Calls PROVE LeaseCall(op) \in Requests
    BY <1>1, <1>3 DEF LeaseCall, Requests, Workers
  <1> QED
    BY <1>2, <1>8, <1>4, <1>5, <1>6, <1>7

\* A worker that has just started or just read the configuration is typed.
LEMMA ReconfiguredType ==
    ASSUME TypeOK
    PROVE  NewWorker \in Workers /\ Reconfigured \in Workers
  <1>1. worker \in Workers /\ api \in Rows
    BY DEF TypeOK
  <1>2. NewWorker \in Workers
    BY DEF NewWorker, Workers, Status
  <1>3. Reconfigured \in Workers
    BY <1>1 DEF Reconfigured, Workers, Rows
  <1> QED
    BY <1>2, <1>3

\* The initial states are typed.
LEMMA InitTypeOK == Init => TypeOK
  <1> SUFFICES ASSUME Init PROVE TypeOK
    OBVIOUS
  <1>1. NewWorker \in Workers
    BY DEF NewWorker, Workers, Status
  <1>2. NewWatchdog \in Watchdogs
    BY DEF NewWatchdog, Watchdogs
  <1>3. api \in Rows
    BY DEF Init, Rows, Status
  <1>4. proc \in Identities /\ launched \in Identities
    BY DEF Init, Identities
  <1>5. faults \in 0 .. MaxFaults /\ crashes \in 0 .. MaxCrashes
    BY DEF Init
  <1>6. /\ kids = {} /\ late = {} /\ collected = {} /\ generations = 0
        /\ lock = "free" /\ worker = NewWorker /\ watchdog = NewWatchdog
    BY DEF Init
  <1>7. wpc \in WorkerPcs /\ dpc \in WatchdogPcs
    BY DEF Init, WorkerPcs, WatchdogPcs
  <1> QED
    BY <1>1, <1>2, <1>3, <1>4, <1>6, <1>7, <1>5 DEF TypeOK

\* Every step keeps the types: each call is typed, and so is what its caller
\* does with the answer.
LEMMA NextTypeOK == TypeOK /\ [Next]_vars => TypeOK'
  <1> SUFFICES ASSUME TypeOK, [Next]_vars PROVE TypeOK'
    OBVIOUS
  <1> USE DEF terminal, remote, wvars, dvars
  <1> DEFINE Calling == /\ api' \in Rows /\ collected' \subseteq Results
                        /\ late' \subseteq Requests /\ faults' \in 0 .. MaxFaults
             Moving  == /\ wpc' \in WorkerPcs /\ worker' \in Workers
                        /\ lock' \in {"free", "worker", "watchdog"}
             Watching == /\ dpc' \in WatchdogPcs /\ watchdog' \in Watchdogs
                         /\ lock' \in {"free", "worker", "watchdog"}
  <1>1. /\ worker \in Workers /\ api \in Rows /\ watchdog \in Watchdogs
        /\ proc \in Identities /\ launched \in Identities
        /\ lock \in {"free", "worker", "watchdog"}
    BY DEF TypeOK
  <1>2. \A a \in {"free", "worker", "watchdog"} : Released(a) \in {"free", "worker", "watchdog"}
    BY <1>1 DEF Released
  <1>3. /\ Defer => Moving
        /\ \A w \in Workers : Return(w) => Moving
    <2>1. "idle" \in WorkerPcs
      BY DEF WorkerPcs
    <2> QED
      BY <1>1, <2>1, MoveType
  <1>4. Launch => proc' \in Identities /\ launched' \in Identities
    BY <1>1 DEF Launch, Identities
  <1>5. CASE WDispatch
    <2>1. Calling
      BY <1>5, CallType, RequestType DEF WDispatch, Calls, TypeOK
    <2>2. Moving
      BY <1>5, <1>1, MoveType, ReconfiguredType DEF WDispatch, WorkerPcs,
         Workers, Status
    <2> QED
      BY <1>5, <2>1, <2>2 DEF WDispatch, TypeOK
  <1>6. CASE WRefresh
    <2>1. Calling
      BY <1>6, CallType, RequestType DEF WRefresh, Calls, TypeOK
    <2>2. Moving
      BY <1>6, <1>1, MoveType, ReconfiguredType DEF WRefresh, WorkerPcs,
         Workers, Status
    <2> QED
      BY <1>6, <2>1, <2>2 DEF WRefresh, TypeOK
  <1>7. CASE WRecover
    <2>1. Moving
      <3>1. ASSUME Acquire("worker"),
                   worker' = [worker EXCEPT !.id = proc,
                                 !.recovering = proc \notin {0, worker.restart}],
                   wpc' = CASE proc = worker.restart -> "recFence"
                            [] proc = 0 -> "recStart"
                            [] OTHER -> "snapshot"
            PROVE  Moving
        BY <3>1, <1>1 DEF Acquire, WorkerPcs, Workers
      <3> QED
        BY <1>7, <1>3, <3>1 DEF WRecover
    <2> QED
      BY <1>7, <2>1 DEF WRecover, TypeOK
  <1>8. CASE WRecFence
    <2>1. Calling
      BY <1>8, CallType, RequestType DEF WRecFence, Calls, TypeOK
    <2>2. Moving
      BY <1>8, <1>1, MoveType, ReconfiguredType DEF WRecFence, WorkerPcs,
         Workers, Status
    <2> QED
      BY <1>8, <2>1, <2>2 DEF WRecFence, TypeOK
  <1>9. CASE WRecStop
    <2>1. Moving
      BY <1>9, <1>1, MoveType, ReconfiguredType DEF WRecStop, WorkerPcs,
         Workers, Status
    <2> QED
      BY <1>9, <2>1, <1>1 DEF WRecStop, TypeOK, Terminate
  <1>10. CASE WRecStart
    <2>1. Moving
      BY <1>10, <1>1, MoveType, ReconfiguredType DEF WRecStart, WorkerPcs,
         Workers, Status
    <2> QED
      BY <1>10, <2>1, <1>1, <1>4 DEF WRecStart, TypeOK
  <1>11. CASE WPrepared
    <2>1. Moving
      BY <1>11, <1>1, MoveType, ReconfiguredType DEF WPrepared, WorkerPcs,
         Workers, Status
    <2> QED
      BY <1>11, <2>1 DEF WPrepared, TypeOK
  <1>12. CASE WSnapshot
    <2>1. Moving
      BY <1>12, <1>1, <1>2, SnapshotType DEF WSnapshot, Status, TypeOK
    <2> QED
      BY <1>12, <2>1 DEF WSnapshot, TypeOK
  <1>13. CASE WInspect
    <2>1. Moving
      <3>1. ASSUME Acquire("worker"), wpc' = "ui", worker' = [worker EXCEPT !.id = proc]
            PROVE  Moving
        BY <3>1, <1>1 DEF Acquire, WorkerPcs, Workers
      <3> QED
        BY <1>13, <3>1, <1>1, SnapshotType DEF WInspect, Status, TypeOK
    <2> QED
      BY <1>13, <2>1 DEF WInspect, TypeOK
  <1>14. CASE WInspectEnd
    <2>1. Moving
      BY <1>14, <1>1, <1>2, SnapshotType DEF WInspectEnd, Status, TypeOK
    <2> QED
      BY <1>14, <2>1 DEF WInspectEnd, TypeOK
  <1>15. CASE WSession
    <2>1. SessionRequest \in Requests /\ generations' \in Gens
      BY <1>15, RequestType DEF WSession, TypeOK, Gens
    <2>2. Calling
      BY <1>15, <2>1, CallType DEF WSession, TypeOK
    <2>3. [worker EXCEPT !.sessGen = SessionRequest.gen,
                         !.sessProc = SessionRequest.proc] \in Workers
      BY <1>1, <2>1 DEF Workers, Requests
    <2>4. Moving
      BY <1>15, <1>1, <2>3, MoveType DEF WSession, WorkerPcs
    <2> QED
      BY <1>15, <2>1, <2>2, <2>4 DEF WSession, TypeOK
  <1>16. CASE WReport
    <2>1. Calling
      BY <1>16, CallType, RequestType DEF WReport, Calls, TypeOK
    <2>2. Moving
      <3>1. ASSUME Reported PROVE Moving
        BY <3>1, <1>1, MoveType DEF Reported, WorkerPcs, Workers
      <3> QED
        BY <1>16, <3>1, <1>1, MoveType DEF WReport, WorkerPcs
    <2> QED
      BY <1>16, <2>1, <2>2 DEF WReport, TypeOK
  <1>17. CASE WOffline
    <2>1. Moving
      BY <1>17, <1>1, MoveType, ReconfiguredType DEF WOffline, WorkerPcs,
         Workers, Status
    <2> QED
      BY <1>17, <2>1, <1>1, <1>4 DEF WOffline, TypeOK
  <1>18. CASE WOnce
    <2>1. Moving
      <3>1. ASSUME Acquire("worker"), wpc' = "claim", worker' = [worker EXCEPT !.id = proc]
            PROVE  Moving
        BY <3>1, <1>1 DEF Acquire, WorkerPcs, Workers
      <3>2. [worker EXCEPT !.inspected = FALSE] \in Workers
        BY <1>1 DEF Workers
      <3> QED
        BY <1>18, <1>3, <3>1, <3>2 DEF WOnce
    <2> QED
      BY <1>18, <2>1 DEF WOnce, TypeOK
  <1>19. CASE WClaim
    <2>1. Calling
      BY <1>19, CallType, RequestType DEF WClaim, Calls, TypeOK
    <2>2. Moving
      <3>1. ASSUME Accepts(ClaimRequest)
            PROVE  [worker EXCEPT !.lease = api.fence + 1] \in Workers
        <4>1. api.fence + 1 \in Leases
          BY <3>1, <1>1 DEF Accepts, ClaimRequest, Blank, Rows, Leases
        <4> QED
          BY <4>1, <1>1 DEF Workers
      <3> QED
        BY <1>19, <3>1, <1>1, MoveType DEF WClaim, WorkerPcs
    <2> QED
      BY <1>19, <2>1, <2>2 DEF WClaim, TypeOK
  <1>20. CASE WCredentials
    <2>1. Calling
      BY <1>20, CallType, RequestType DEF WCredentials, Calls
    <2>2. Moving
      BY <1>20, <1>1, MoveType DEF WCredentials, WorkerPcs
    <2>3. [lease |-> worker.lease, proc |-> worker.id, saw |-> {}] \in Children
      BY <1>1 DEF Workers, Children
    <2>4. kids' \subseteq Children
      BY <1>20, <2>3 DEF WCredentials, TypeOK
    <2> QED
      BY <1>20, <2>1, <2>2, <2>4 DEF WCredentials, TypeOK
  <1>21. CASE WChildEnds
    <2>1. PICK k \in kids :
            /\ kids' = kids \ {k}
            /\ \/ Goto("verify", [worker EXCEPT !.saw = k.saw])
               \/ \E q \in BOOLEAN : Goto("fail", [worker EXCEPT !.quarantines = q])
      BY <1>21 DEF WChildEnds
    <2>2. k \in Children
      BY DEF TypeOK
    <2>3. /\ [worker EXCEPT !.saw = k.saw] \in Workers
          /\ \A q \in BOOLEAN : [worker EXCEPT !.quarantines = q] \in Workers
      BY <1>1, <2>2 DEF Workers, Children
    <2>4. Moving
      BY <1>1, <2>1, <2>3, MoveType DEF WorkerPcs
    <2> QED
      BY <1>21, <2>1, <2>4 DEF WChildEnds, TypeOK
  <1>45. CASE WChildOutlives
    <2>1. Moving
      BY <1>45, <1>1, <1>2, MoveType, ReconfiguredType DEF WChildOutlives, WorkerPcs,
         Workers, Status
    <2> QED
      BY <1>45, <2>1 DEF WChildOutlives, TypeOK
  <1>22. CASE WHeartbeat
    <2>1. Calling
      BY <1>22, CallType, RequestType DEF WHeartbeat, Calls, TypeOK
    <2>2. Moving
      BY <1>22, <1>1, MoveType, ReconfiguredType DEF WHeartbeat, WorkerPcs,
         Workers, Status
    <2> QED
      BY <1>22, <2>1, <2>2 DEF WHeartbeat, TypeOK
  <1>23. CASE WVerify
    <2>1. Moving
      BY <1>23, <1>1, MoveType, ReconfiguredType DEF WVerify, WorkerPcs,
         Workers, Status
    <2> QED
      BY <1>23, <2>1 DEF WVerify, TypeOK
  <1>24. CASE WComplete
    <2>1. Calling
      BY <1>24, CallType, RequestType DEF WComplete, Calls, TypeOK
    <2>2. Moving
      BY <1>24, <1>1, MoveType, ReconfiguredType DEF WComplete, WorkerPcs,
         Workers, Status
    <2> QED
      BY <1>24, <2>1, <2>2 DEF WComplete, TypeOK
  <1>25. CASE WFail
    <2>1. Calling
      BY <1>25, CallType, RequestType DEF WFail, Calls, TypeOK
    <2>2. Moving
      BY <1>25, <1>1, MoveType, ReconfiguredType DEF WFail, WorkerPcs,
         Workers, Status
    <2> QED
      BY <1>25, <2>1, <2>2 DEF WFail, TypeOK
  <1>26. CASE DPoll
    <2>1. Calling
      BY <1>26, CallType, RequestType DEF DPoll, TypeOK
    <2>2. Watching
      <3>1. [gen |-> api.gen, proc |-> api.reg, quar |-> 0] \in Watchdogs
        BY <1>1 DEF Watchdogs, Rows
      <3> QED
        BY <1>26, <3>1, <1>1 DEF DPoll, WatchdogPcs, TypeOK
    <2> QED
      BY <1>26, <2>1, <2>2 DEF DPoll, TypeOK
  <1>27. CASE DLock
    <2>1. Watching
      <3>1. ASSUME Acquire("watchdog"), UNCHANGED watchdog,
                   dpc' = IF dpc = "fence" THEN "fenceCheck" ELSE "recConfig"
            PROVE  Watching
        BY <3>1, <1>1 DEF Acquire, WatchdogPcs
      <3> QED
        BY <1>27, <3>1, <1>1, WatchdogType DEF DLock, WatchdogPcs
    <2> QED
      BY <1>27, <2>1 DEF DLock, TypeOK
  <1>28. CASE DFenceCheck
    <2>1. Calling
      BY <1>28, CallType, RequestType DEF DFenceCheck, TypeOK
    <2>2. Watching
      BY <1>28, <1>1, WatchdogType DEF DFenceCheck, WatchdogPcs, Watchdogs, Rows
    <2> QED
      BY <1>28, <2>1, <2>2 DEF DFenceCheck, TypeOK
  <1>29. CASE DFenceCall
    <2>1. Calling
      BY <1>29, CallType, RequestType DEF DFenceCall, TypeOK
    <2>2. Watching
      BY <1>29, <1>1, WatchdogType DEF DFenceCall, WatchdogPcs, Watchdogs, Rows
    <2> QED
      BY <1>29, <2>1, <2>2 DEF DFenceCall, TypeOK
  <1>30. CASE DRecConfig
    <2>1. Calling
      BY <1>30, CallType, RequestType DEF DRecConfig, TypeOK
    <2>2. Watching
      <3>1. [watchdog EXCEPT !.quar = api.quar] \in Watchdogs
        BY <1>1 DEF Watchdogs, Rows
      <3>2. DReturn => Watching
        BY WatchdogType DEF WatchdogPcs
      <3> QED
        BY <1>30, <3>1, <3>2, <1>1 DEF DRecConfig, WatchdogPcs
    <2> QED
      BY <1>30, <2>1, <2>2 DEF DRecConfig, TypeOK
  <1>31. CASE DRecFence
    <2>1. Calling
      BY <1>31, CallType, RequestType DEF DRecFence, TypeOK
    <2>2. Watching
      BY <1>31, <1>1, WatchdogType DEF DRecFence, WatchdogPcs, Watchdogs, Rows
    <2> QED
      BY <1>31, <2>1, <2>2 DEF DRecFence, TypeOK
  <1>32. CASE DRecStop
    <2>1. Watching
      BY <1>32, <1>1, WatchdogType DEF DRecStop, WatchdogPcs, Watchdogs, Rows
    <2> QED
      BY <1>32, <2>1 DEF DRecStop, TypeOK, Terminate
  <1>33. CASE DRecStart
    <2>1. Watching
      BY <1>33, <1>1, WatchdogType DEF DRecStart, WatchdogPcs, Watchdogs, Rows
    <2> QED
      BY <1>33, <2>1, <1>4 DEF DRecStart, TypeOK
  <1>34. CASE LateDelivery
    <2>1. PICK r \in late : Process(r) /\ late' = late \ {r}
      BY <1>34 DEF LateDelivery
    <2>2. api' \in Rows /\ collected' \subseteq Results
      BY <2>1, ProcessType DEF TypeOK
    <2> QED
      BY <1>34, <2>1, <2>2 DEF LateDelivery, TypeOK
  <1>35. CASE LeaseExpires
    <2>1. api' \in Rows
      BY <1>35, <1>1 DEF LeaseExpires, Unleased, Rows
    <2> QED
      BY <1>35, <2>1 DEF LeaseExpires, TypeOK
  <1>36. CASE ConfigAges
    <2>1. worker' \in Workers
      BY <1>36, <1>1 DEF ConfigAges, Workers
    <2> QED
      BY <1>36, <2>1 DEF ConfigAges, TypeOK
  <1>37. CASE InspectionAges
    <2>1. worker' \in Workers
      BY <1>37, <1>1 DEF InspectionAges, Workers
    <2> QED
      BY <1>37, <2>1 DEF InspectionAges, TypeOK
  <1>38. CASE WCrash
    <2>1. Moving
      BY <1>38, <1>2, ReconfiguredType DEF WCrash, WorkerPcs
    <2> QED
      BY <1>38, <2>1 DEF WCrash, TypeOK
  <1>39. CASE DCrash
    <2>1. Watching
      BY <1>39, <1>1, WatchdogType DEF DCrash, WatchdogPcs, Watchdogs, Rows
    <2> QED
      BY <1>39, <2>1 DEF DCrash, TypeOK
  <1>40. CASE TerminalExits
    BY <1>40, <1>1, <1>2, <1>4 DEF TerminalExits, TypeOK
  <1>41. CASE TerminalAppears
    BY <1>41, <1>1, <1>2, <1>4 DEF TerminalAppears, TypeOK
  <1>42. CASE ChildReads
    <2>1. PICK k \in kids : kids' = (kids \ {k}) \cup {[k EXCEPT !.saw = @ \cup {proc}]}
      BY <1>42 DEF ChildReads
    <2>2. [k EXCEPT !.saw = @ \cup {proc}] \in Children
      BY <1>1 DEF TypeOK, Children
    <2> QED
      BY <1>42, <2>1, <2>2 DEF ChildReads, TypeOK
  <1>43. CASE OrphanEnds
    BY <1>43, <1>1, <1>2, <1>4 DEF OrphanEnds, TypeOK
  <1>44. CASE UNCHANGED vars
    BY <1>44 DEF vars, TypeOK
  <1> QED
    BY <1>5, <1>6, <1>7, <1>8, <1>9, <1>10, <1>11, <1>12, <1>13, <1>14,
       <1>15, <1>16, <1>17, <1>18, <1>19, <1>20, <1>21, <1>22, <1>23,
       <1>24, <1>25, <1>26, <1>27, <1>28, <1>29, <1>30, <1>31, <1>32,
       <1>33, <1>34, <1>35, <1>36, <1>37, <1>38, <1>39, <1>40, <1>41,
       <1>42, <1>43, <1>44, <1>45
       DEF Next, WorkerStep, WatchdogStep, Environment

\* Every variable keeps its type, whatever the bounds and the faults.
THEOREM TypeCorrect == Spec => []TypeOK
  BY InitTypeOK, NextTypeOK, PTL DEF Spec

(***************************************************************************)
(* ChildProtected and CollectedFromOneProcess.  Neither is inductive: they  *)
(* rest on who may hold the mutex, on generations and lease numbers never   *)
(* being used twice, and on a process identity never coming back.           *)
(***************************************************************************)

\* Where the worker acts for the job it claimed, or is about to claim one.
Leased  == {"credentials", "child"}
Working == {"claim", "credentials", "child", "verify", "complete", "fail"}

\* The job pass keeps the mutex.
MutexHeld == wpc \in Working => lock = "worker"

\* A generation names one process: the session the worker believes in is the
\* registered one whenever the generations agree, and no session under way
\* carries it.
SessionsUnique ==
    /\ api.gen <= generations /\ worker.sessGen <= generations
    /\ worker.sessGen = 0 => worker.sessProc = 0
    /\ worker.sessGen # 0 /\ api.gen = worker.sessGen => api.reg = worker.sessProc
    /\ \A r \in late : r.op = "session" => /\ r.gen # worker.sessGen
                                           /\ r.gen <= generations
                                           /\ r.gen # 0

\* Lease numbers are handed out once; a fenced process has no active lease.
LeasesUnique ==
    /\ api.lease <= api.fence /\ worker.lease <= api.fence
    /\ api.lease # 0 => api.quar = 0
    /\ \A k \in kids : k.lease <= api.fence
    /\ \A r \in late : r.op \in {"complete", "fail"} => r.lease <= api.fence

\* The claimed lease is for the session's process, its child is the only one
\* of that lease, and nothing under way can end it.
LeaseOwned ==
    /\ wpc \in Working => worker.id = worker.sessProc /\ worker.sessGen # 0
    /\ wpc \in Working \ {"claim"} =>
         /\ worker.lease # 0
         /\ api.lease = worker.lease => api.reg = worker.id /\ api.leaseProc = worker.id
    /\ wpc \in Leased => \A r \in late : r.op \in {"complete", "fail"} => r.lease # worker.lease
    /\ wpc = "credentials" => \A k \in kids : k.lease # worker.lease
    /\ wpc = "child" => /\ api.lease = worker.lease
                        /\ \E k \in kids : k.lease = worker.lease
                        /\ \A k \in kids : k.lease = worker.lease => k.proc = worker.id

\* An identity never comes back, so as long as the process is the one the job
\* was claimed for, the child has read no other.
ReadFromOne ==
    /\ proc <= launched
    /\ wpc \in Working => worker.id # 0 /\ worker.id <= launched
    /\ wpc = "child" /\ proc = worker.id =>
         \A k \in kids : k.lease = worker.lease => k.saw \subseteq {worker.id}
    /\ wpc = "verify" /\ proc = worker.id => worker.saw \subseteq {worker.id}
    /\ wpc = "complete" => worker.saw \subseteq {worker.id}
    /\ \A r \in late : r.op = "complete" /\ r.lease = api.lease /\ api.lease # 0
                         => r.saw \subseteq {api.leaseProc}

IInv == /\ TypeOK /\ MutexHeld /\ SessionsUnique /\ LeasesUnique /\ LeaseOwned
        /\ ReadFromOne /\ CollectedFromOneProcess

\* What a step leaves alone: the API's registration and lease, the worker's
\* session and job, the order of identities.
QuietRemote ==
    /\ api'.gen = api.gen /\ api'.reg = api.reg /\ api'.fence = api.fence
    /\ api'.lease = api.lease /\ api'.leaseProc = api.leaseProc
    /\ api'.lease # 0 => api'.quar = 0
    /\ collected' = collected
    /\ \A r \in late' : r \in late \/ r.op \notin {"session", "complete", "fail"}

SameSession == worker'.sessGen = worker.sessGen /\ worker'.sessProc = worker.sessProc

\* The worker forgets its job, or keeps it as it is; only a crash forgets the
\* session.
QuietWorker ==
    /\ kids' \subseteq kids /\ generations' = generations
    /\ worker'.lease \in {0, worker.lease}
    /\ \/ /\ wpc' \notin Working
          /\ SameSession \/ (worker'.sessGen = 0 /\ worker'.sessProc = 0)
       \/ /\ SameSession /\ wpc' = wpc /\ worker'.id = worker.id
          /\ worker'.lease = worker.lease /\ worker'.saw = worker.saw
          /\ lock = "worker" => lock' = "worker"
          /\ \A k \in kids : Owned(k) => k \in kids'

QuietTerminal ==
    \/ proc' \in {0, proc} /\ launched' = launched
    \/ proc' = launched + 1 /\ launched' = launched + 1

\* The numbers the invariant compares are naturals.
LEMMA Numbers ==
    ASSUME TypeOK
    PROVE  /\ api.gen \in Nat /\ api.fence \in Nat /\ api.lease \in Nat
           /\ worker.sessGen \in Nat /\ worker.lease \in Nat /\ worker.id \in Nat
           /\ generations \in Nat /\ proc \in Nat /\ launched \in Nat
           /\ \A r \in late : r.gen \in Nat /\ r.lease \in Nat
           /\ \A k \in kids : k.lease \in Nat
  <1>1. /\ Gens \subseteq Nat /\ Leases \subseteq Nat /\ Identities \subseteq Nat
    BY DEF Gens, Leases, Identities
  <1>2. /\ api.gen \in Nat /\ api.fence \in Nat /\ api.lease \in Nat
    BY <1>1 DEF TypeOK, Rows
  <1>3. worker.sessGen \in Nat /\ worker.lease \in Nat /\ worker.id \in Nat
    BY <1>1 DEF TypeOK, Workers
  <1>4. generations \in Nat /\ proc \in Nat /\ launched \in Nat
    BY <1>1 DEF TypeOK
  <1>5. \A r \in late : r.gen \in Nat /\ r.lease \in Nat
    BY <1>1 DEF TypeOK, Requests
  <1>6. \A k \in kids : k.lease \in Nat
    BY <1>1 DEF TypeOK, Children
  <1> QED
    BY <1>2, <1>3, <1>4, <1>5, <1>6

\* A quiet step preserves the invariant.
LEMMA QuietStep ==
    ASSUME IInv, TypeOK', QuietRemote, QuietWorker, QuietTerminal
    PROVE  IInv'
  <1>1. /\ TypeOK
        /\ QuietRemote /\ QuietWorker /\ QuietTerminal
    BY DEF IInv
  <1>2. MutexHeld'
    BY <1>1 DEF IInv, MutexHeld, QuietWorker
  <1>3. SessionsUnique'
    BY <1>1, Numbers DEF IInv, SessionsUnique, QuietWorker, QuietRemote, SameSession
  <1>4. LeasesUnique'
    BY <1>1, Numbers DEF IInv, LeasesUnique, QuietWorker, QuietRemote
  <1>5. LeaseOwned'
    BY <1>1 DEF IInv, LeaseOwned, QuietWorker, QuietRemote, SameSession,
       Working, Leased, Owned
  <1>6. ReadFromOne'
    <2>1. wpc' \in Working => /\ wpc' = wpc /\ worker'.id = worker.id
                              /\ worker'.saw = worker.saw /\ worker'.lease = worker.lease
      BY <1>1 DEF QuietWorker
    <2>2. wpc \in Working => worker.id # 0 /\ worker.id <= launched
      BY DEF IInv, ReadFromOne
    <2>3. proc' <= launched' /\ launched <= launched'
      BY <1>1, Numbers DEF IInv, QuietTerminal, ReadFromOne
    <2>4. wpc' \in Working => worker'.id # 0 /\ worker'.id <= launched'
      BY <2>1, <2>2, <2>3, <1>1, Numbers DEF QuietTerminal
    <2>5. wpc' \in Working /\ proc' = worker'.id => proc = worker.id
      BY <2>1, <2>2, <1>1, Numbers DEF QuietTerminal
    <2>6. kids' \subseteq kids /\ api'.lease = api.lease /\ api'.leaseProc = api.leaseProc
      BY <1>1 DEF QuietWorker, QuietRemote
    <2>7. wpc' = "child" /\ proc' = worker'.id =>
            \A k \in kids' : k.lease = worker'.lease => k.saw \subseteq {worker'.id}
      BY <2>1, <2>5, <2>6 DEF IInv, ReadFromOne, Working
    <2>8. wpc' = "verify" /\ proc' = worker'.id => worker'.saw \subseteq {worker'.id}
      BY <2>1, <2>5 DEF IInv, ReadFromOne, Working
    <2>9. wpc' = "complete" => worker'.saw \subseteq {worker'.id}
      BY <2>1 DEF IInv, ReadFromOne, Working
    <2>10. \A r \in late' : r.op = "complete" /\ r.lease = api'.lease /\ api'.lease # 0
                              => r.saw \subseteq {api'.leaseProc}
      BY <2>6, <1>1 DEF IInv, ReadFromOne, QuietRemote
    <2> QED
      BY <2>3, <2>4, <2>7, <2>8, <2>9, <2>10 DEF ReadFromOne
  <1>7. CollectedFromOneProcess'
    BY <1>1 DEF IInv, CollectedFromOneProcess, QuietRemote
  <1> QED
    BY <1>2, <1>3, <1>4, <1>5, <1>6, <1>7 DEF IInv

\* The ways a request can change the API's row.
Kept == /\ api'.gen = api.gen /\ api'.reg = api.reg /\ api'.fence = api.fence
        /\ api'.lease = api.lease /\ api'.leaseProc = api.leaseProc
Opened(r) ==
    /\ api'.gen = r.gen /\ api'.reg = r.proc /\ api'.fence = api.fence
    /\ api'.lease = api.lease /\ api'.leaseProc = api.leaseProc
    /\ api.lease # 0 => r.proc = api.reg
Granted(r) ==
    /\ api'.gen = api.gen /\ api'.reg = api.reg /\ r.gen = api.gen
    /\ api.lease = 0 /\ api'.fence = api.fence + 1
    /\ api'.lease = api.fence + 1 /\ api'.leaseProc = api.reg
Ended(r) ==
    /\ api'.gen = api.gen /\ api'.reg = api.reg /\ api'.fence = api.fence
    /\ api.lease # 0 /\ r.lease = api.lease /\ api'.lease = 0

\* Which of them it is, by operation.
LEMMA ProcessEffect ==
    ASSUME TypeOK, LeasesUnique, NEW r \in Requests, Process(r)
    PROVE  /\ api'.lease # 0 => api'.quar = 0
           /\ ~Accepts(r) => Kept
           /\ r.op \notin {"session", "claim", "complete", "fail"} => Kept
           /\ Accepts(r) /\ r.op = "session" => Opened(r)
           /\ Accepts(r) /\ r.op = "claim" => Granted(r)
           /\ Accepts(r) /\ r.op \in {"complete", "fail"} => Ended(r)
           /\ \/ collected' = collected
              \/ /\ r.op = "complete" /\ Accepts(r)
                 /\ collected' = collected \cup {[proc |-> api.leaseProc, saw |-> r.saw]}
  <1>1. api \in Rows
    BY DEF TypeOK
  <1>2. api.lease # 0 => api.quar = 0
    BY DEF LeasesUnique
  <1>3. IF Accepts(r) THEN api' = After(r) ELSE api' = api
    BY DEF Process
  <1>4. CASE ~Accepts(r)
    BY <1>2, <1>3, <1>4 DEF Kept, Process
  <1>5. CASE Accepts(r) /\ r.op \in {"config", "credentials", "heartbeat"}
    BY <1>2, <1>3, <1>5 DEF Kept, Process, After
  <1>6. CASE Accepts(r) /\ r.op = "report"
    <2>1. api' = [api EXCEPT !.status = r.status]
      BY <1>3, <1>6 DEF After
    <2> QED
      BY <1>1, <1>2, <1>6, <2>1 DEF Kept, Process, Rows
  <1>7. CASE Accepts(r) /\ r.op = "prepare"
    <2>1. api' = [api EXCEPT !.quar = api.reg] /\ api.lease = 0
      BY <1>3, <1>7 DEF After, Accepts
    <2> QED
      BY <1>1, <1>2, <1>7, <2>1 DEF Kept, Process, Rows
  <1>8. CASE Accepts(r) /\ r.op = "session"
    <2>1. /\ api' = [api EXCEPT !.gen = r.gen, !.reg = r.proc, !.status = "OFFLINE",
                                !.quar = IF r.proc = api.quar THEN api.quar ELSE 0]
          /\ api.lease # 0 => r.proc = api.reg
      BY <1>3, <1>8 DEF After, Accepts
    <2> QED
      BY <1>1, <1>2, <1>8, <2>1 DEF Opened, Process, Rows
  <1>9. CASE Accepts(r) /\ r.op = "claim"
    <2>1. /\ api' = [api EXCEPT !.fence = @ + 1, !.lease = api.fence + 1,
                                !.leaseGen = r.gen, !.leaseProc = api.reg]
          /\ api.lease = 0 /\ api.quar = 0 /\ r.gen = api.gen
      BY <1>3, <1>9 DEF After, Accepts
    <2> QED
      BY <1>1, <1>9, <2>1 DEF Granted, Process, Rows
  <1>10. CASE Accepts(r) /\ r.op \in {"complete", "fail"}
    <2>1. api.lease # 0 /\ r.lease = api.lease
      BY <1>10 DEF Accepts, LeaseValid
    <2>2. api'.gen = api.gen /\ api'.reg = api.reg /\ api'.fence = api.fence /\ api'.lease = 0
      BY <1>1, <1>3, <1>10 DEF After, Unleased, Rows
    <2> QED
      BY <1>10, <2>1, <2>2 DEF Ended, Process
  <1> QED
    BY <1>4, <1>5, <1>6, <1>7, <1>8, <1>9, <1>10 DEF Requests, Calls

\* Calls that only read, report a status or fence a free slot are quiet.
LEMMA QuietCall ==
    ASSUME TypeOK, LeasesUnique, NEW r \in Requests,
           r.op \in {"config", "credentials", "heartbeat", "report", "prepare"},
           Answered(r) \/ Unanswered(r)
    PROVE  QuietRemote
  <1>1. CASE Process(r)
    BY <1>1, ProcessEffect DEF QuietRemote, Kept, Answered, Unanswered
  <1>2. CASE UNCHANGED <<api, collected>>
    BY <1>2 DEF QuietRemote, LeasesUnique, Answered, Unanswered, Process
  <1> QED
    BY <1>1, <1>2 DEF Answered, Unanswered

\* Every step preserves the invariant.
LEMMA NextIInv == IInv /\ [Next]_vars => IInv'
  <1> SUFFICES ASSUME IInv, [Next]_vars PROVE IInv'
    OBVIOUS
  <1> USE DEF terminal, remote, wvars, dvars
  <1>1. /\ TypeOK /\ LeasesUnique /\ TypeOK'
    BY NextTypeOK DEF IInv
  <1>2. worker \in Workers /\ api \in Rows
    BY <1>1 DEF TypeOK
  <1>3. "idle" \notin Working
    BY DEF Working
  <1>4. ASSUME UNCHANGED remote PROVE QuietRemote
    BY <1>1, <1>4 DEF QuietRemote, LeasesUnique
  <1>5. ASSUME NEW w \in Workers, w.sessGen = worker.sessGen, w.sessProc = worker.sessProc,
               kids' \subseteq kids, UNCHANGED generations, Return(w)
        PROVE  QuietWorker
    BY <1>2, <1>3, <1>5 DEF Return, QuietWorker, SameSession, Workers
  <1>6. ASSUME Defer, kids' \subseteq kids, UNCHANGED generations PROVE QuietWorker
    <2> DEFINE v == [worker EXCEPT !.connected = FALSE, !.inspected = FALSE]
    <2>1. v \in Workers /\ v.sessGen = worker.sessGen /\ v.sessProc = worker.sessProc
      BY <1>2 DEF Workers
    <2>2. Return(v)
      BY <1>6 DEF Defer
    <2> HIDE DEF v
    <2> QED
      BY <1>5, <1>6, <2>1, <2>2
  <1>7. ASSUME UNCHANGED <<wvars, kids, generations>>, lock = "worker" => lock' = "worker"
        PROVE  QuietWorker
    BY <1>7 DEF QuietWorker, SameSession
  <1>8. ASSUME DReturn \/ (\E p \in WatchdogPcs : DGoto(p)) \/ UNCHANGED lock \/ Acquire("watchdog")
        PROVE  lock = "worker" => lock' = "worker"
    BY <1>8 DEF DReturn, DGoto, Released, Acquire
  <1>9. /\ UNCHANGED terminal => QuietTerminal
        /\ Terminate => QuietTerminal
        /\ Launch => QuietTerminal
    BY DEF QuietTerminal, Terminate, Launch
  <1>10. CASE WDispatch
    <2>1. QuietRemote
      BY <1>10, <1>1, <1>4, QuietCall, RequestType DEF WDispatch, Config,
         Blank, LeaseCall, ReportRequest, FenceRequest, Calls
    <2>2. QuietWorker
      BY <1>10, <1>2, <1>5, <1>6 DEF WDispatch, Goto, QuietWorker,
         SameSession, Working, Workers, Reconfigured, Snapshot, Status
    <2>3. QuietTerminal
      BY <1>10, <1>9 DEF WDispatch
    <2> QED
      BY <1>1, <2>1, <2>2, <2>3, QuietStep
  <1>11. CASE WRefresh
    <2>1. QuietRemote
      BY <1>11, <1>1, QuietCall, RequestType DEF WRefresh, Config, Blank,
         LeaseCall, ReportRequest, FenceRequest, Calls
    <2>2. QuietWorker
      BY <1>11, <1>2, <1>5, <1>6 DEF WRefresh, Goto, QuietWorker, SameSession,
         Working, Workers, Reconfigured, Snapshot, Status
    <2>3. QuietTerminal
      BY <1>11, <1>9 DEF WRefresh
    <2> QED
      BY <1>1, <2>1, <2>2, <2>3, QuietStep
  <1>12. CASE WRecover
    <2>1. QuietRemote
      BY <1>12, <1>4 DEF WRecover
    <2>2. QuietWorker
      BY <1>12, <1>2, <1>5, <1>6 DEF WRecover, Goto, QuietWorker, SameSession,
         Working, Workers, Reconfigured, Snapshot, Status
    <2>3. QuietTerminal
      BY <1>12, <1>9 DEF WRecover
    <2> QED
      BY <1>1, <2>1, <2>2, <2>3, QuietStep
  <1>13. CASE WRecFence
    <2>1. QuietRemote
      BY <1>13, <1>1, QuietCall, RequestType DEF WRecFence, Config, Blank,
         LeaseCall, ReportRequest, FenceRequest, Calls
    <2>2. QuietWorker
      BY <1>13, <1>2, <1>5, <1>6 DEF WRecFence, Goto, QuietWorker,
         SameSession, Working, Workers, Reconfigured, Snapshot, Status
    <2>3. QuietTerminal
      BY <1>13, <1>9 DEF WRecFence
    <2> QED
      BY <1>1, <2>1, <2>2, <2>3, QuietStep
  <1>14. CASE WRecStop
    <2>1. QuietRemote
      BY <1>14, <1>4 DEF WRecStop
    <2>2. QuietWorker
      BY <1>14, <1>2, <1>5, <1>6 DEF WRecStop, Goto, QuietWorker, SameSession,
         Working, Workers, Reconfigured, Snapshot, Status
    <2>3. QuietTerminal
      BY <1>14, <1>9 DEF WRecStop
    <2> QED
      BY <1>1, <2>1, <2>2, <2>3, QuietStep
  <1>15. CASE WRecStart
    <2>1. QuietRemote
      BY <1>15, <1>4 DEF WRecStart
    <2>2. QuietWorker
      BY <1>15, <1>2, <1>5, <1>6 DEF WRecStart, Goto, QuietWorker,
         SameSession, Working, Workers, Reconfigured, Snapshot, Status
    <2>3. QuietTerminal
      BY <1>15, <1>9 DEF WRecStart
    <2> QED
      BY <1>1, <2>1, <2>2, <2>3, QuietStep
  <1>16. CASE WPrepared
    <2>1. QuietRemote
      BY <1>16, <1>4 DEF WPrepared
    <2>2. QuietWorker
      BY <1>16, <1>2, <1>5, <1>6 DEF WPrepared, Goto, QuietWorker,
         SameSession, Working, Workers, Reconfigured, Snapshot, Status
    <2>3. QuietTerminal
      BY <1>16, <1>9 DEF WPrepared
    <2> QED
      BY <1>1, <2>1, <2>2, <2>3, QuietStep
  <1>17. CASE WSnapshot
    <2>1. QuietRemote
      BY <1>17, <1>4 DEF WSnapshot
    <2>2. QuietWorker
      BY <1>17, <1>2, <1>5, <1>6 DEF WSnapshot, Goto, QuietWorker,
         SameSession, Working, Workers, Reconfigured, Snapshot, Status
    <2>3. QuietTerminal
      BY <1>17, <1>9 DEF WSnapshot
    <2> QED
      BY <1>1, <2>1, <2>2, <2>3, QuietStep
  <1>18. CASE WInspect
    <2>1. QuietRemote
      BY <1>18, <1>4 DEF WInspect
    <2>2. QuietWorker
      BY <1>18, <1>2, <1>5, <1>6 DEF WInspect, Goto, QuietWorker, SameSession,
         Working, Workers, Reconfigured, Snapshot, Status
    <2>3. QuietTerminal
      BY <1>18, <1>9 DEF WInspect
    <2> QED
      BY <1>1, <2>1, <2>2, <2>3, QuietStep
  <1>19. CASE WInspectEnd
    <2>1. QuietRemote
      BY <1>19, <1>4 DEF WInspectEnd
    <2>2. QuietWorker
      BY <1>19, <1>2, <1>5, <1>6 DEF WInspectEnd, Goto, QuietWorker,
         SameSession, Working, Workers, Reconfigured, Snapshot, Status
    <2>3. QuietTerminal
      BY <1>19, <1>9 DEF WInspectEnd
    <2> QED
      BY <1>1, <2>1, <2>2, <2>3, QuietStep
  <1>20. CASE WSession
    <2> DEFINE s == SessionRequest
    <2>1. /\ s \in Requests /\ s.op = "session" /\ s.gen = generations + 1
          /\ wpc' \notin Working /\ UNCHANGED <<kids, proc, launched>>
          /\ generations' = generations + 1 /\ worker'.lease \in {0, worker.lease}
      <3>1. s \in Requests /\ generations' = generations + 1 /\ UNCHANGED <<kids, proc, launched>>
        BY <1>20, <1>1, RequestType DEF WSession
      <3>2. s.op = "session" /\ s.gen = generations + 1
        BY DEF SessionRequest, Blank
      <3>3. wpc' \notin Working /\ worker'.lease \in {0, worker.lease}
        BY <1>20, <1>2 DEF WSession, Goto, Defer, Return, Working, Workers
      <3> QED
        BY <3>1, <3>2, <3>3
    <2>2. CASE /\ Process(s) /\ Accepts(s) /\ UNCHANGED late
               /\ worker' = [worker EXCEPT !.sessGen = s.gen, !.sessProc = s.proc]
      <3>1. /\ worker'.sessGen = s.gen /\ worker'.sessProc = s.proc
            /\ Opened(s) /\ (api'.lease # 0 => api'.quar = 0) /\ collected' = collected /\ late' = late
        BY <1>1, <1>2, <2>1, <2>2, ProcessEffect DEF Workers
      <3> HIDE DEF s
      <3>2. MutexHeld'
        BY <2>1, <3>1, Numbers, <1>1 DEF MutexHeld, IInv, Opened, Leased, Working
      <3>3. SessionsUnique'
        BY <2>1, <3>1, Numbers, <1>1 DEF SessionsUnique, IInv, Opened,
           Leased, Working
      <3>4. LeasesUnique'
        BY <2>1, <3>1, Numbers, <1>1 DEF LeasesUnique, IInv, Opened, Leased, Working
      <3>5. LeaseOwned'
        BY <2>1, <3>1, Numbers, <1>1 DEF LeaseOwned, IInv, Opened, Leased, Working
      <3>6. ReadFromOne'
        BY <2>1, <3>1, Numbers, <1>1 DEF ReadFromOne, IInv, Opened, Leased, Working
      <3>7. CollectedFromOneProcess'
        BY <2>1, <3>1, Numbers, <1>1 DEF CollectedFromOneProcess, IInv,
           Opened, Leased, Working
      <3> QED
        BY <1>1, <3>2, <3>3, <3>4, <3>5, <3>6, <3>7 DEF IInv
    <2>3. CASE Defer /\ (UNCHANGED remote \/ Unanswered(s) \/ (Answered(s) /\ ~Accepts(s)))
      <3>1. worker'.sessGen = worker.sessGen /\ worker'.sessProc = worker.sessProc
        BY <1>2, <2>3 DEF Defer, Return, Workers
      <3>2. /\ Kept \/ (Opened(s) /\ late' = late)
            /\ api'.lease # 0 => api'.quar = 0
            /\ late' = late \/ late' = late \cup {s}
            /\ collected' = collected
        <4>1. CASE Process(s) /\ late' = late
          BY <1>1, <2>1, <4>1, ProcessEffect
        <4>2. CASE UNCHANGED <<api, collected>> /\ (late' = late \/ late' = late \cup {s})
          BY <1>1, <4>2 DEF Kept, LeasesUnique
        <4> QED
          BY <2>3, <4>1, <4>2 DEF Unanswered, Answered, Process
      <3> HIDE DEF s
      <3>3. MutexHeld'
        BY <2>1, <3>1, <3>2, Numbers, <1>1 DEF MutexHeld, IInv, Opened, Kept,
           Leased, Working
      <3>4. SessionsUnique'
        BY <2>1, <3>1, <3>2, Numbers, <1>1 DEF SessionsUnique, IInv, Opened,
           Kept, Leased, Working
      <3>5. LeasesUnique'
        BY <2>1, <3>1, <3>2, Numbers, <1>1 DEF LeasesUnique, IInv, Opened,
           Kept, Leased, Working
      <3>6. LeaseOwned'
        BY <2>1, <3>1, <3>2, Numbers, <1>1 DEF LeaseOwned, IInv, Opened,
           Kept, Leased, Working
      <3>7. ReadFromOne'
        BY <2>1, <3>1, <3>2, Numbers, <1>1 DEF ReadFromOne, IInv, Opened,
           Kept, Leased, Working
      <3>8. CollectedFromOneProcess'
        BY <2>1, <3>1, <3>2, Numbers, <1>1 DEF CollectedFromOneProcess, IInv,
           Opened, Kept, Leased, Working
      <3> QED
        BY <1>1, <3>3, <3>4, <3>5, <3>6, <3>7, <3>8 DEF IInv
    <2> QED
      BY <1>20, <2>2, <2>3 DEF WSession, Goto, Answered
  <1>21. CASE WReport
    <2>1. QuietRemote
      BY <1>21, <1>1, QuietCall, RequestType DEF WReport, Config, Blank,
         LeaseCall, ReportRequest, FenceRequest, Calls
    <2>2. QuietWorker
      <3>1. ASSUME Reported, UNCHANGED <<kids, generations>> PROVE QuietWorker
        <4>1. ASSUME NEW p \in WorkerPcs \ Working, NEW w \in Workers, Goto(p, w),
                     w.sessGen = worker.sessGen, w.sessProc = worker.sessProc,
                     w.lease = worker.lease
              PROVE  QuietWorker
          BY <3>1, <4>1 DEF Goto, QuietWorker, SameSession
        <4> QED
          BY <1>2, <1>5, <3>1, <4>1 DEF Reported, Workers, WorkerPcs, Working
      <3> QED
        BY <1>21, <1>6, <3>1 DEF WReport
    <2>3. QuietTerminal
      BY <1>21, <1>9 DEF WReport
    <2> QED
      BY <1>1, <2>1, <2>2, <2>3, QuietStep
  <1>22. CASE WOffline
    <2>1. QuietRemote
      BY <1>22, <1>4 DEF WOffline
    <2>2. QuietWorker
      BY <1>22, <1>2, <1>5, <1>6 DEF WOffline, Goto, QuietWorker,
         SameSession, Working, Workers, Reconfigured, Snapshot, Status
    <2>3. QuietTerminal
      BY <1>22, <1>9 DEF WOffline
    <2> QED
      BY <1>1, <2>1, <2>2, <2>3, QuietStep
  <1>23. CASE WOnce
    <2>1. CASE /\ Acquire("worker") /\ proc # 0 /\ proc = worker.sessProc
               /\ wpc' = "claim" /\ worker' = [worker EXCEPT !.id = proc]
      <3>1. /\ UNCHANGED <<api, kids, generations, proc, launched, late, collected>>
            /\ lock' = "worker" /\ wpc' = "claim" /\ proc # 0 /\ proc = worker.sessProc
            /\ worker'.id = proc /\ worker'.sessGen = worker.sessGen
            /\ worker'.sessProc = worker.sessProc /\ worker'.lease = worker.lease
        BY <1>23, <1>2, <2>1 DEF WOnce, Acquire, Workers
      <3>2. MutexHeld'
        BY <3>1 DEF MutexHeld, IInv, Leased, Working
      <3>3. SessionsUnique'
        BY <3>1 DEF SessionsUnique, IInv, Leased, Working
      <3>4. LeasesUnique'
        BY <3>1 DEF LeasesUnique, IInv, Leased, Working
      <3>5. LeaseOwned'
        BY <3>1 DEF LeaseOwned, SessionsUnique, IInv, Leased, Working
      <3>6. ReadFromOne'
        BY <3>1 DEF ReadFromOne, IInv, Leased, Working
      <3>7. CollectedFromOneProcess'
        BY <3>1 DEF CollectedFromOneProcess, IInv, Leased, Working
      <3> QED
        BY <1>1, <3>2, <3>3, <3>4, <3>5, <3>6, <3>7 DEF IInv
    <2>2. CASE Defer \/ Return([worker EXCEPT !.inspected = FALSE])
      <3>1. [worker EXCEPT !.inspected = FALSE] \in Workers
        BY <1>2 DEF Workers
      <3>2. QuietWorker
        BY <1>23, <1>2, <1>5, <1>6, <2>2, <3>1 DEF WOnce, Workers
      <3> QED
        BY <1>23, <1>1, <1>4, <1>9, <3>2, QuietStep DEF WOnce
    <2> QED
      BY <1>23, <2>1, <2>2 DEF WOnce
  <1>24. CASE WClaim
    <2> DEFINE c == ClaimRequest
    <2>1. c \in Requests /\ c.op = "claim" /\ c.gen = worker.sessGen
      <3>1. c \in Requests
        BY <1>1, RequestType
      <3> QED
        BY <3>1, <1>2 DEF ClaimRequest, Blank
    <2>2. UNCHANGED <<kids, proc, launched, generations>> /\ wpc = "claim"
      BY <1>24 DEF WClaim
    <2>3. /\ \A k \in kids : k.lease # api.fence + 1
          /\ \A r \in late : r.op \in {"complete", "fail"} => r.lease # api.fence + 1
      BY <1>1, Numbers DEF LeasesUnique
    <2>4. /\ worker.sessGen # 0 /\ worker.id = worker.sessProc
          /\ worker.sessGen = api.gen => api.reg = worker.id
      BY <2>2 DEF IInv, LeaseOwned, SessionsUnique, Working
    <2>5. CASE /\ Process(c) /\ Accepts(c) /\ UNCHANGED late
               /\ Goto("credentials", [worker EXCEPT !.lease = api.fence + 1])
      <3>1. /\ worker'.sessGen = worker.sessGen /\ worker'.sessProc = worker.sessProc
            /\ worker'.id = worker.id /\ worker'.lease = api.fence + 1
            /\ wpc' = "credentials" /\ lock' = lock /\ late' = late
            /\ Granted(c) /\ (api'.lease # 0 => api'.quar = 0) /\ collected' = collected
        BY <1>1, <1>2, <2>1, <2>5, ProcessEffect DEF Workers, Goto
      <3> HIDE DEF c
      <3>2. MutexHeld'
        BY <2>1, <2>2, <2>3, <2>4, <3>1, Numbers, <1>1 DEF MutexHeld, IInv,
           Granted, Leased, Working
      <3>3. SessionsUnique'
        BY <2>1, <2>2, <2>3, <2>4, <3>1, Numbers, <1>1 DEF SessionsUnique,
           IInv, Granted, Leased, Working
      <3>4. LeasesUnique'
        BY <2>1, <2>2, <2>3, <2>4, <3>1, Numbers, <1>1 DEF LeasesUnique,
           IInv, Granted, Leased, Working
      <3>5. LeaseOwned'
        BY <2>1, <2>2, <2>3, <2>4, <3>1, Numbers, <1>1 DEF LeaseOwned,
           IInv, Granted, Leased, Working
      <3>6. ReadFromOne'
        BY <2>1, <2>2, <2>3, <2>4, <3>1, Numbers, <1>1 DEF ReadFromOne,
           IInv, Granted, Leased, Working
      <3>7. CollectedFromOneProcess'
        BY <2>1, <2>2, <2>3, <2>4, <3>1, Numbers, <1>1 DEF
           CollectedFromOneProcess, IInv, Granted, Leased, Working
      <3> QED
        BY <1>1, <3>2, <3>3, <3>4, <3>5, <3>6, <3>7 DEF IInv
    <2>6. CASE /\ Defer \/ Return(worker)
               /\ Answered(c) \/ Unanswered(c)
      <3>1. /\ worker'.sessGen = worker.sessGen /\ worker'.sessProc = worker.sessProc
            /\ wpc' \notin Working /\ worker'.lease = 0
        BY <1>2, <1>3, <2>6 DEF Defer, Return, Workers
      <3>2. /\ Kept \/ (Granted(c) /\ late' = late)
            /\ api'.lease # 0 => api'.quar = 0
            /\ late' = late \/ late' = late \cup {c}
            /\ collected' = collected
        <4>1. CASE Process(c) /\ late' = late
          BY <1>1, <2>1, <4>1, ProcessEffect
        <4>2. CASE UNCHANGED <<api, collected>> /\ (late' = late \/ late' = late \cup {c})
          BY <1>1, <4>2 DEF Kept, LeasesUnique
        <4> QED
          BY <2>6, <4>1, <4>2 DEF Unanswered, Answered
      <3> HIDE DEF c
      <3>3. MutexHeld'
        BY <2>1, <2>2, <2>3, <3>1, <3>2, Numbers, <1>1 DEF MutexHeld, IInv,
           Granted, Kept, Leased, Working
      <3>4. SessionsUnique'
        BY <2>1, <2>2, <2>3, <3>1, <3>2, Numbers, <1>1 DEF SessionsUnique,
           IInv, Granted, Kept, Leased, Working
      <3>5. LeasesUnique'
        BY <2>1, <2>2, <2>3, <3>1, <3>2, Numbers, <1>1 DEF LeasesUnique,
           IInv, Granted, Kept, Leased, Working
      <3>6. LeaseOwned'
        BY <2>1, <2>2, <2>3, <3>1, <3>2, Numbers, <1>1 DEF LeaseOwned, IInv,
           Granted, Kept, Leased, Working
      <3>7. ReadFromOne'
        BY <2>1, <2>2, <2>3, <3>1, <3>2, Numbers, <1>1 DEF ReadFromOne,
           IInv, Granted, Kept, Leased, Working
      <3>8. CollectedFromOneProcess'
        BY <2>1, <2>2, <2>3, <3>1, <3>2, Numbers, <1>1 DEF
           CollectedFromOneProcess, IInv, Granted, Kept, Leased, Working
      <3> QED
        BY <1>1, <3>3, <3>4, <3>5, <3>6, <3>7, <3>8 DEF IInv
    <2> QED
      BY <1>24, <2>5, <2>6 DEF WClaim, Answered
  <1>25. CASE WCredentials
    <2> DEFINE c == LeaseCall("credentials")
               n == [lease |-> worker.lease, proc |-> worker.id, saw |-> {}]
    <2>1. c \in Requests /\ c.op = "credentials" /\ c.lease = worker.lease
      <3>1. c \in Requests
        BY <1>1, RequestType DEF Calls
      <3> QED
        BY <3>1, <1>2 DEF LeaseCall, Blank
    <2>2. QuietRemote
      BY <1>25, <1>1, <2>1, QuietCall DEF WCredentials
    <2>3. CASE Defer /\ UNCHANGED kids
      BY <1>25, <1>1, <1>6, <1>9, <2>2, <2>3, QuietStep DEF WCredentials
    <2>4. CASE Accepts(c) /\ kids' = kids \cup {n} /\ Goto("child", worker)
      <3>1. api.lease = worker.lease /\ n.lease = worker.lease /\ n.proc = worker.id /\ n.saw = {}
        BY <2>1, <2>4 DEF Accepts, LeaseValid
      <3>2. /\ worker' = worker /\ wpc' = "child" /\ wpc = "credentials" /\ lock' = lock
            /\ kids' = kids \cup {n} /\ UNCHANGED <<proc, launched, generations>>
        BY <1>25, <2>4 DEF WCredentials, Goto
      <3> HIDE DEF n, c
      <3>3. MutexHeld'
        BY <2>2, <3>1, <3>2, Numbers, <1>1 DEF MutexHeld, IInv, QuietRemote,
           Leased, Working
      <3>4. SessionsUnique'
        BY <2>2, <3>1, <3>2, Numbers, <1>1 DEF SessionsUnique, IInv,
           QuietRemote, Leased, Working
      <3>5. LeasesUnique'
        BY <2>2, <3>1, <3>2, Numbers, <1>1 DEF LeasesUnique, IInv,
           QuietRemote, Leased, Working
      <3>6. LeaseOwned'
        BY <2>2, <3>1, <3>2, Numbers, <1>1 DEF LeaseOwned, IInv, QuietRemote,
           Leased, Working
      <3>7. ReadFromOne'
        <4>1. \A k \in kids : k.lease # worker.lease
          BY <3>2 DEF IInv, LeaseOwned
        <4>2. \A k \in kids' : k.lease = worker'.lease => k.saw \subseteq {worker'.id}
          BY <3>1, <3>2, <4>1
        <4>3. \A r \in late' : r.op = "complete" /\ r.lease = api'.lease /\ api'.lease # 0
                              => r.saw \subseteq {api'.leaseProc}
          BY <2>2 DEF IInv, ReadFromOne, QuietRemote
        <4> QED
          BY <3>2, <4>2, <4>3 DEF ReadFromOne, IInv, Working
      <3>8. CollectedFromOneProcess'
        BY <2>2, <3>1, <3>2, Numbers, <1>1 DEF CollectedFromOneProcess, IInv,
           QuietRemote, Leased, Working
      <3> QED
        BY <1>1, <3>3, <3>4, <3>5, <3>6, <3>7, <3>8 DEF IInv
    <2> QED
      BY <1>25, <2>3, <2>4 DEF WCredentials
  <1>26. CASE WChildEnds
    <2>1. PICK k \in kids :
            /\ Owned(k) /\ kids' = kids \ {k} /\ wpc = "child"
            /\ \/ Goto("verify", [worker EXCEPT !.saw = k.saw])
               \/ \E x \in BOOLEAN : Goto("fail", [worker EXCEPT !.quarantines = x])
      BY <1>26 DEF WChildEnds
    <2>2. /\ UNCHANGED <<api, generations, proc, launched, lock, late, collected>>
          /\ worker'.id = worker.id /\ worker'.sessGen = worker.sessGen
          /\ worker'.sessProc = worker.sessProc /\ worker'.lease = worker.lease
          /\ wpc' = "fail" \/ (wpc' = "verify" /\ worker'.saw = k.saw)
      BY <1>26, <1>2, <2>1 DEF WChildEnds, Goto, Workers
    <2>3. MutexHeld'
      BY <2>1, <2>2 DEF MutexHeld, IInv, Leased, Working, Owned
    <2>4. SessionsUnique'
      BY <2>1, <2>2 DEF SessionsUnique, IInv, Leased, Working, Owned
    <2>5. LeasesUnique'
      BY <2>1, <2>2 DEF LeasesUnique, IInv, Leased, Working, Owned
    <2>6. LeaseOwned'
      BY <2>1, <2>2 DEF LeaseOwned, IInv, Leased, Working, Owned
    <2>7. ReadFromOne'
      BY <2>1, <2>2 DEF ReadFromOne, IInv, Leased, Working, Owned
    <2>8. CollectedFromOneProcess'
      BY <2>1, <2>2 DEF CollectedFromOneProcess, IInv, Leased, Working, Owned
    <2> QED
      BY <1>1, <2>3, <2>4, <2>5, <2>6, <2>7, <2>8 DEF IInv
  <1>50. CASE WChildOutlives
    <2>1. QuietRemote
      BY <1>50, <1>4 DEF WChildOutlives
    <2>2. QuietWorker
      BY <1>50, <1>6 DEF WChildOutlives
    <2>3. QuietTerminal
      BY <1>50, <1>9 DEF WChildOutlives
    <2> QED
      BY <1>1, <2>1, <2>2, <2>3, QuietStep
  <1>27. CASE WHeartbeat
    <2>1. QuietRemote
      BY <1>27, <1>1, QuietCall, RequestType DEF WHeartbeat, Config, Blank,
         LeaseCall, ReportRequest, FenceRequest, Calls
    <2>2. QuietWorker
      BY <1>27, <1>6 DEF WHeartbeat
    <2>3. QuietTerminal
      BY <1>27, <1>9 DEF WHeartbeat
    <2> QED
      BY <1>1, <2>1, <2>2, <2>3, QuietStep
  <1>28. CASE WVerify
    <2>1. /\ UNCHANGED <<api, kids, generations, proc, launched, lock, late, collected>>
          /\ wpc = "verify" /\ worker'.id = worker.id /\ worker'.sessGen = worker.sessGen
          /\ worker'.sessProc = worker.sessProc /\ worker'.lease = worker.lease
          /\ worker'.saw = worker.saw
          /\ wpc' = "fail" \/ (wpc' = "complete" /\ proc = worker.id)
      BY <1>28, <1>2 DEF WVerify, Goto, Workers
    <2>2. MutexHeld'
      BY <2>1 DEF MutexHeld, IInv, Leased, Working
    <2>3. SessionsUnique'
      BY <2>1 DEF SessionsUnique, IInv, Leased, Working
    <2>4. LeasesUnique'
      BY <2>1 DEF LeasesUnique, IInv, Leased, Working
    <2>5. LeaseOwned'
      BY <2>1 DEF LeaseOwned, IInv, Leased, Working
    <2>6. ReadFromOne'
      BY <2>1 DEF ReadFromOne, IInv, Leased, Working
    <2>7. CollectedFromOneProcess'
      BY <2>1 DEF CollectedFromOneProcess, IInv, Leased, Working
    <2> QED
      BY <1>1, <2>2, <2>3, <2>4, <2>5, <2>6, <2>7 DEF IInv
  <1>29. CASE WComplete
    <2> DEFINE c == LeaseCall("complete")
    <2>1. c \in Requests /\ c.op = "complete" /\ c.lease = worker.lease /\ c.saw = worker.saw
      <3>1. c \in Requests
        BY <1>1, RequestType DEF Calls
      <3> QED
        BY <3>1, <1>2 DEF LeaseCall, Blank
    <2>2. /\ UNCHANGED <<kids, proc, launched, generations>> /\ wpc = "complete"
          /\ worker'.sessGen = worker.sessGen /\ worker'.sessProc = worker.sessProc
          /\ wpc' \notin Working /\ worker'.lease = 0
      BY <1>29, <1>2, <1>3 DEF WComplete, Defer, Return, Workers
    <2>3. /\ api'.lease # 0 => api'.quar = 0
          /\ Kept \/ Ended(c)
          /\ late' = late \/ late' = late \cup {c}
      <3>1. CASE Process(c) /\ late' = late
        BY <1>1, <2>1, <3>1, ProcessEffect
      <3>2. CASE UNCHANGED <<api, collected>> /\ (late' = late \/ late' = late \cup {c})
        BY <1>1, <3>2 DEF Kept, LeasesUnique
      <3> QED
        BY <1>29, <3>1, <3>2 DEF WComplete, Unanswered, Answered
    <2>4. \/ collected' = collected
          \/ /\ c.op = "complete" /\ Ended(c)
             /\ collected' = collected \cup {[proc |-> api.leaseProc, saw |-> worker.saw]}
      <3>1. CASE Process(c)
        BY <1>1, <2>1, <3>1, ProcessEffect
      <3> QED
        BY <1>29, <3>1 DEF WComplete, Unanswered, Answered
    <2>5. worker.lease # 0 /\ (api.lease = worker.lease => api.leaseProc = worker.id)
      BY <2>2 DEF IInv, LeaseOwned, Working
    <2>6. worker.saw \subseteq {worker.id}
      BY <2>2 DEF IInv, ReadFromOne
    <2> HIDE DEF c
    <2>7. MutexHeld'
      BY <2>1, <2>5, <2>2, <2>3, Numbers, <1>1, <2>6 DEF MutexHeld, IInv,
         Ended, Kept, Leased, Working
    <2>8. SessionsUnique'
      BY <2>1, <2>5, <2>2, <2>3, Numbers, <1>1, <2>6 DEF SessionsUnique,
         IInv, Ended, Kept, Leased, Working
    <2>9. LeasesUnique'
      BY <2>1, <2>5, <2>2, <2>3, Numbers, <1>1, <2>6 DEF LeasesUnique, IInv,
         Ended, Kept, Leased, Working
    <2>10. LeaseOwned'
      BY <2>1, <2>5, <2>2, <2>3, Numbers, <1>1, <2>6 DEF LeaseOwned, IInv,
         Ended, Kept, Leased, Working
    <2>11. ReadFromOne'
      BY <2>1, <2>5, <2>2, <2>3, Numbers, <1>1, <2>6 DEF ReadFromOne, IInv,
         Ended, Kept, Leased, Working
    <2>12. CollectedFromOneProcess'
      <3> DEFINE x == [proc |-> api.leaseProc, saw |-> worker.saw]
      <3>1. \/ collected' = collected
            \/ /\ c.op = "complete" /\ api.leaseProc = worker.id
               /\ collected' = collected \cup {x}
        BY <2>1, <2>5, <2>4 DEF Ended
      <3>2. x.proc = api.leaseProc /\ x.saw = worker.saw
        OBVIOUS
      <3> HIDE DEF x, c
      <3> QED
        BY <2>1, <3>1, <3>2, <2>6 DEF CollectedFromOneProcess, IInv
    <2> QED
      BY <1>1, <2>7, <2>8, <2>9, <2>10, <2>11, <2>12 DEF IInv
  <1>30. CASE WFail
    <2> DEFINE c == LeaseCall("fail")
    <2>1. c \in Requests /\ c.op = "fail" /\ c.lease = worker.lease /\ c.saw = worker.saw
      <3>1. c \in Requests
        BY <1>1, RequestType DEF Calls
      <3> QED
        BY <3>1, <1>2 DEF LeaseCall, Blank
    <2>2. /\ UNCHANGED <<kids, proc, launched, generations>> /\ wpc = "fail"
          /\ worker'.sessGen = worker.sessGen /\ worker'.sessProc = worker.sessProc
          /\ wpc' \notin Working /\ worker'.lease = 0
      BY <1>30, <1>2, <1>3 DEF WFail, Defer, Return, Workers
    <2>3. /\ api'.lease # 0 => api'.quar = 0
          /\ Kept \/ Ended(c)
          /\ late' = late \/ late' = late \cup {c}
      <3>1. CASE Process(c) /\ late' = late
        BY <1>1, <2>1, <3>1, ProcessEffect
      <3>2. CASE UNCHANGED <<api, collected>> /\ (late' = late \/ late' = late \cup {c})
        BY <1>1, <3>2 DEF Kept, LeasesUnique
      <3> QED
        BY <1>30, <3>1, <3>2 DEF WFail, Unanswered, Answered
    <2>4. \/ collected' = collected
          \/ /\ c.op = "complete" /\ Ended(c)
             /\ collected' = collected \cup {[proc |-> api.leaseProc, saw |-> worker.saw]}
      <3>1. CASE Process(c)
        BY <1>1, <2>1, <3>1, ProcessEffect
      <3> QED
        BY <1>30, <3>1 DEF WFail, Unanswered, Answered
    <2>5. worker.lease # 0 /\ (api.lease = worker.lease => api.leaseProc = worker.id)
      BY <2>2 DEF IInv, LeaseOwned, Working
    <2> HIDE DEF c
    <2>6. MutexHeld'
      BY <2>1, <2>5, <2>2, <2>3, Numbers, <1>1 DEF MutexHeld, IInv, Ended,
         Kept, Leased, Working
    <2>7. SessionsUnique'
      BY <2>1, <2>5, <2>2, <2>3, Numbers, <1>1 DEF SessionsUnique, IInv,
         Ended, Kept, Leased, Working
    <2>8. LeasesUnique'
      BY <2>1, <2>5, <2>2, <2>3, Numbers, <1>1 DEF LeasesUnique, IInv, Ended,
         Kept, Leased, Working
    <2>9. LeaseOwned'
      BY <2>1, <2>5, <2>2, <2>3, Numbers, <1>1 DEF LeaseOwned, IInv, Ended,
         Kept, Leased, Working
    <2>10. ReadFromOne'
      BY <2>1, <2>5, <2>2, <2>3, Numbers, <1>1 DEF ReadFromOne, IInv, Ended,
         Kept, Leased, Working
    <2>11. CollectedFromOneProcess'
      <3> DEFINE x == [proc |-> api.leaseProc, saw |-> worker.saw]
      <3>1. \/ collected' = collected
            \/ /\ c.op = "complete" /\ api.leaseProc = worker.id
               /\ collected' = collected \cup {x}
        BY <2>1, <2>5, <2>4 DEF Ended
      <3>2. x.proc = api.leaseProc /\ x.saw = worker.saw
        OBVIOUS
      <3> HIDE DEF x, c
      <3> QED
        BY <2>1, <3>1, <3>2 DEF CollectedFromOneProcess, IInv
    <2> QED
      BY <1>1, <2>6, <2>7, <2>8, <2>9, <2>10, <2>11 DEF IInv
  <1>31. CASE DPoll
    <2>1. QuietRemote
      BY <1>31, <1>1, QuietCall, RequestType DEF DPoll, Config, Blank,
         LeaseCall, ReportRequest, FenceRequest, Calls
    <2>2. QuietWorker
      BY <1>31, <1>7, <1>8 DEF DPoll, DGoto
    <2>3. QuietTerminal
      BY <1>31, <1>9 DEF DPoll
    <2> QED
      BY <1>1, <2>1, <2>2, <2>3, QuietStep
  <1>32. CASE DLock
    <2>1. QuietRemote
      BY <1>32, <1>4 DEF DLock
    <2>2. QuietWorker
      BY <1>32, <1>7, <1>8 DEF DLock, DGoto
    <2>3. QuietTerminal
      BY <1>32, <1>9 DEF DLock
    <2> QED
      BY <1>1, <2>1, <2>2, <2>3, QuietStep
  <1>33. CASE DFenceCheck
    <2>1. QuietRemote
      BY <1>33, <1>1, QuietCall, RequestType DEF DFenceCheck, Config, Blank,
         LeaseCall, ReportRequest, FenceRequest, Calls
    <2>2. QuietWorker
      BY <1>33, <1>7, <1>8 DEF DFenceCheck, DGoto
    <2>3. QuietTerminal
      BY <1>33, <1>9 DEF DFenceCheck
    <2> QED
      BY <1>1, <2>1, <2>2, <2>3, QuietStep
  <1>34. CASE DFenceCall
    <2>1. QuietRemote
      BY <1>34, <1>1, QuietCall, RequestType DEF DFenceCall, Config, Blank,
         LeaseCall, ReportRequest, FenceRequest, Calls
    <2>2. QuietWorker
      BY <1>34, <1>7, <1>8 DEF DFenceCall, DGoto
    <2>3. QuietTerminal
      BY <1>34, <1>9 DEF DFenceCall
    <2> QED
      BY <1>1, <2>1, <2>2, <2>3, QuietStep
  <1>35. CASE DRecConfig
    <2>1. QuietRemote
      BY <1>35, <1>1, QuietCall, RequestType DEF DRecConfig, Config, Blank,
         LeaseCall, ReportRequest, FenceRequest, Calls
    <2>2. QuietWorker
      BY <1>35, <1>7, <1>8 DEF DRecConfig, DGoto
    <2>3. QuietTerminal
      BY <1>35, <1>9 DEF DRecConfig
    <2> QED
      BY <1>1, <2>1, <2>2, <2>3, QuietStep
  <1>36. CASE DRecFence
    <2>1. QuietRemote
      BY <1>36, <1>1, QuietCall, RequestType DEF DRecFence, Config, Blank,
         LeaseCall, ReportRequest, FenceRequest, Calls
    <2>2. QuietWorker
      BY <1>36, <1>7, <1>8 DEF DRecFence, DGoto
    <2>3. QuietTerminal
      BY <1>36, <1>9 DEF DRecFence
    <2> QED
      BY <1>1, <2>1, <2>2, <2>3, QuietStep
  <1>37. CASE DRecStop
    <2>1. QuietRemote
      BY <1>37, <1>4 DEF DRecStop
    <2>2. QuietWorker
      BY <1>37, <1>7, <1>8 DEF DRecStop, DGoto
    <2>3. QuietTerminal
      BY <1>37, <1>9 DEF DRecStop
    <2> QED
      BY <1>1, <2>1, <2>2, <2>3, QuietStep
  <1>38. CASE DRecStart
    <2>1. QuietRemote
      BY <1>38, <1>4 DEF DRecStart
    <2>2. QuietWorker
      BY <1>38, <1>7, <1>8 DEF DRecStart, DGoto
    <2>3. QuietTerminal
      BY <1>38, <1>9 DEF DRecStart
    <2> QED
      BY <1>1, <2>1, <2>2, <2>3, QuietStep
  <1>39. CASE LateDelivery
    <2>1. PICK r \in late : Process(r) /\ late' = late \ {r}
      BY <1>39 DEF LateDelivery
    <2>2. /\ UNCHANGED <<wpc, worker, kids, generations, proc, launched, lock>>
          /\ IInv /\ r \in Requests
      BY <1>39, <1>1 DEF LateDelivery, TypeOK
    <2>3. /\ api'.lease # 0 => api'.quar = 0
          /\ Kept \/ (r.op = "session" /\ Opened(r)) \/ (r.op = "claim" /\ Granted(r))
             \/ (r.op \in {"complete", "fail"} /\ Ended(r))
          /\ \/ collected' = collected
             \/ /\ r.op = "complete" /\ Ended(r)
                /\ collected' = collected \cup {[proc |-> api.leaseProc, saw |-> r.saw]}
      BY <1>1, <2>1, <2>2, ProcessEffect
    <2>4. MutexHeld'
      BY <2>2 DEF MutexHeld, IInv
    <2>5. SessionsUnique'
      BY <2>1, <2>2, <2>3 DEF SessionsUnique, IInv, Kept, Opened, Granted, Ended
    <2>6. LeasesUnique'
      BY <2>1, <2>2, <2>3, Numbers, <1>1 DEF LeasesUnique, IInv, Kept,
         Opened, Granted, Ended
    <2>7. LeaseOwned'
      <3>1. worker.lease # 0 /\ api'.lease = worker.lease =>
              api.lease = worker.lease /\ api'.reg = api.reg /\ api'.leaseProc = api.leaseProc
        BY <2>2, <2>3, Numbers, <1>1 DEF IInv, LeasesUnique, Kept, Opened,
           Granted, Ended
      <3>2. wpc = "child" => api'.lease = worker.lease
        BY <2>1, <2>2, <2>3 DEF IInv, LeaseOwned, Working, Leased, Kept,
           Opened, Granted, Ended
      <3> QED
        BY <2>1, <2>2, <3>1, <3>2 DEF LeaseOwned, IInv, Working, Leased
    <2>8. ReadFromOne'
      <3>1. \A x \in late : x.op = "complete" /\ x.lease = api'.lease /\ api'.lease # 0
                              => api.lease = api'.lease /\ api.leaseProc = api'.leaseProc
        BY <2>2, <2>3, Numbers, <1>1 DEF IInv, LeasesUnique, Kept, Opened,
           Granted, Ended
      <3> QED
        BY <2>1, <2>2, <3>1 DEF ReadFromOne, IInv
    <2>9. CollectedFromOneProcess'
      <3>1. ASSUME r.op = "complete", Ended(r) PROVE r.saw \subseteq {api.leaseProc}
        BY <2>2, <3>1 DEF IInv, ReadFromOne, Ended
      <3> DEFINE c == [proc |-> api.leaseProc, saw |-> r.saw]
      <3>2. r.op = "complete" /\ Ended(r) => c.saw \subseteq {c.proc}
        BY <3>1
      <3>3. collected' = collected \/ (r.op = "complete" /\ Ended(r) /\ collected' = collected \cup {c})
        BY <2>3
      <3> HIDE DEF c
      <3> QED
        BY <2>2, <3>2, <3>3 DEF CollectedFromOneProcess, IInv
    <2> QED
      BY <1>1, <2>4, <2>5, <2>6, <2>7, <2>8, <2>9 DEF IInv
  <1>40. CASE LeaseExpires
    <2>1. /\ UNCHANGED <<wpc, worker, kids, generations, proc, launched, lock, late, collected>>
          /\ \A k \in kids : ~Owned(k)
          /\ api'.gen = api.gen /\ api'.reg = api.reg /\ api'.fence = api.fence /\ api'.lease = 0
      BY <1>40, <1>2 DEF LeaseExpires, Unleased, Rows
    <2>2. MutexHeld'
      BY <2>1, Numbers, <1>1 DEF MutexHeld, IInv, Working, Leased, Owned
    <2>3. SessionsUnique'
      BY <2>1, Numbers, <1>1 DEF SessionsUnique, IInv, Working, Leased, Owned
    <2>4. LeasesUnique'
      BY <2>1, Numbers, <1>1 DEF LeasesUnique, IInv, Working, Leased, Owned
    <2>5. LeaseOwned'
      BY <2>1, Numbers, <1>1 DEF LeaseOwned, IInv, Working, Leased, Owned
    <2>6. ReadFromOne'
      BY <2>1, Numbers, <1>1 DEF ReadFromOne, IInv, Working, Leased, Owned
    <2>7. CollectedFromOneProcess'
      BY <2>1, Numbers, <1>1 DEF CollectedFromOneProcess, IInv, Working,
         Leased, Owned
    <2> QED
      BY <1>1, <2>2, <2>3, <2>4, <2>5, <2>6, <2>7 DEF IInv
  <1>41. CASE ConfigAges
    <2>1. QuietRemote
      BY <1>41, <1>4 DEF ConfigAges
    <2>2. QuietWorker
      BY <1>41, <1>2 DEF ConfigAges, QuietWorker, SameSession, Workers
    <2>3. QuietTerminal
      BY <1>41, <1>9 DEF ConfigAges
    <2> QED
      BY <1>1, <2>1, <2>2, <2>3, QuietStep
  <1>42. CASE InspectionAges
    <2>1. QuietRemote
      BY <1>42, <1>4 DEF InspectionAges
    <2>2. QuietWorker
      BY <1>42, <1>2 DEF InspectionAges, QuietWorker, SameSession, Workers
    <2>3. QuietTerminal
      BY <1>42, <1>9 DEF InspectionAges
    <2> QED
      BY <1>1, <2>1, <2>2, <2>3, QuietStep
  <1>43. CASE WCrash
    <2>1. QuietRemote
      BY <1>43, <1>4 DEF WCrash
    <2>2. QuietWorker
      BY <1>43, <1>3 DEF WCrash, QuietWorker, NewWorker
    <2>3. QuietTerminal
      BY <1>43, <1>9 DEF WCrash
    <2> QED
      BY <1>1, <2>1, <2>2, <2>3, QuietStep
  <1>44. CASE DCrash
    <2>1. QuietRemote
      BY <1>44, <1>4 DEF DCrash
    <2>2. QuietWorker
      BY <1>44, <1>7, <1>8 DEF DCrash, DGoto
    <2>3. QuietTerminal
      BY <1>44, <1>9 DEF DCrash
    <2> QED
      BY <1>1, <2>1, <2>2, <2>3, QuietStep
  <1>45. CASE TerminalExits
    <2>1. QuietRemote
      BY <1>45, <1>4 DEF TerminalExits
    <2>2. QuietWorker
      BY <1>45, <1>7, <1>8 DEF TerminalExits, DGoto
    <2>3. QuietTerminal
      BY <1>45, <1>9 DEF TerminalExits, QuietTerminal
    <2> QED
      BY <1>1, <2>1, <2>2, <2>3, QuietStep
  <1>46. CASE TerminalAppears
    <2>1. QuietRemote
      BY <1>46, <1>4 DEF TerminalAppears
    <2>2. QuietWorker
      BY <1>46, <1>7, <1>8 DEF TerminalAppears, DGoto
    <2>3. QuietTerminal
      BY <1>46, <1>9 DEF TerminalAppears, QuietTerminal
    <2> QED
      BY <1>1, <2>1, <2>2, <2>3, QuietStep
  <1>47. CASE ChildReads
    <2>1. PICK k \in kids : /\ Owned(k) /\ proc # 0
                            /\ kids' = (kids \ {k}) \cup {[k EXCEPT !.saw = @ \cup {proc}]}
      BY <1>47 DEF ChildReads
    <2> DEFINE n == [k EXCEPT !.saw = @ \cup {proc}]
    <2>2. n.lease = k.lease /\ n.proc = k.proc /\ n.saw = k.saw \cup {proc}
      BY <1>1 DEF TypeOK, Children
    <2>3. /\ UNCHANGED <<api, wpc, worker, generations, proc, launched, lock, late, collected>>
          /\ kids' = (kids \ {k}) \cup {n} /\ Owned(k)
      BY <1>47, <2>1 DEF ChildReads
    <2> HIDE DEF n
    <2>4. MutexHeld'
      BY <2>2, <2>3 DEF MutexHeld, IInv, Owned
    <2>5. SessionsUnique'
      BY <2>2, <2>3 DEF SessionsUnique, IInv, Owned
    <2>6. LeasesUnique'
      BY <2>2, <2>3 DEF LeasesUnique, IInv, Owned
    <2>7. LeaseOwned'
      BY <2>2, <2>3 DEF LeaseOwned, IInv, Owned
    <2>8. ReadFromOne'
      BY <2>2, <2>3 DEF ReadFromOne, IInv, Owned
    <2>9. CollectedFromOneProcess'
      BY <2>2, <2>3 DEF CollectedFromOneProcess, IInv, Owned
    <2> QED
      BY <1>1, <2>4, <2>5, <2>6, <2>7, <2>8, <2>9 DEF IInv
  <1>48. CASE OrphanEnds
    <2>1. QuietRemote
      BY <1>48, <1>4 DEF OrphanEnds
    <2>2. QuietWorker
      BY <1>48 DEF OrphanEnds, QuietWorker, SameSession
    <2>3. QuietTerminal
      BY <1>48, <1>9 DEF OrphanEnds
    <2> QED
      BY <1>1, <2>1, <2>2, <2>3, QuietStep
  <1>49. CASE UNCHANGED vars
    <2>1. QuietRemote /\ QuietWorker /\ QuietTerminal
      BY <1>49, <1>4, <1>7, <1>9 DEF vars
    <2> QED
      BY <1>1, <2>1, QuietStep
  <1> QED
    BY <1>10, <1>11, <1>12, <1>13, <1>14, <1>15, <1>16, <1>17, <1>18, <1>19,
       <1>20, <1>21, <1>22, <1>23, <1>24, <1>25, <1>26, <1>27, <1>28,
       <1>29, <1>30, <1>31, <1>32, <1>33, <1>34, <1>35, <1>36, <1>37,
       <1>38, <1>39, <1>40, <1>41, <1>42, <1>43, <1>44, <1>45, <1>46,
       <1>47, <1>48, <1>49, <1>50
       DEF Next, WorkerStep, WatchdogStep, Environment

\* The invariant holds at first.
LEMMA InitIInv == Init => IInv
  <1> SUFFICES ASSUME Init PROVE IInv
    OBVIOUS
  <1>1. TypeOK
    BY InitTypeOK
  <1>2. /\ kids = {} /\ late = {} /\ collected = {} /\ generations = 0
        /\ api.gen = 0 /\ api.lease = 0 /\ api.fence = 0 /\ wpc = "idle"
        /\ worker.sessGen = 0 /\ worker.sessProc = 0 /\ worker.lease = 0
        /\ proc \in {0, 1} /\ launched = proc
    BY DEF Init, NewWorker
  <1> QED
    BY <1>1, <1>2 DEF IInv, MutexHeld, SessionsUnique, LeasesUnique, LeaseOwned,
       ReadFromOne, CollectedFromOneProcess, Working, Leased

\* The invariant is an invariant.
LEMMA Invariance == Spec => []IInv
  BY InitIInv, NextIInv, PTL DEF Spec

\* The child the worker watches keeps the mutex, the active lease and the
\* registered, unfenced process it was claimed for.
THEOREM ChildIsProtected == Spec => []ChildProtected
  <1>1. IInv => ChildProtected
    <2> SUFFICES ASSUME IInv, NEW k \in kids, Owned(k)
                 PROVE  lock = "worker" /\ api.lease = k.lease /\ api.quar = 0 /\ api.reg = k.proc
      BY DEF ChildProtected
    <2>1. /\ wpc = "child" /\ wpc \in Working /\ wpc \in Working \ {"claim"}
          /\ k.lease = worker.lease
      BY DEF Owned, Working
    <2>2. lock = "worker"
      BY <2>1 DEF IInv, MutexHeld
    <2>3. api.lease = worker.lease /\ worker.lease # 0 /\ api.reg = worker.id /\ k.proc = worker.id
      BY <2>1 DEF IInv, LeaseOwned
    <2> QED
      BY <2>1, <2>2, <2>3 DEF IInv, LeasesUnique
  <1> QED
    BY <1>1, Invariance, PTL

\* Whatever answers are lost and whoever crashes, a committed result was read
\* from the one process its lease was granted for.
THEOREM ResultsFromOneProcess == Spec => []CollectedFromOneProcess
  <1>1. IInv => CollectedFromOneProcess
    BY DEF IInv
  <1> QED
    BY <1>1, Invariance, PTL

-------------------------------------------------------------------------------
(***************************************************************************)
(* OnlyFencedKilled and OneChildPerProcess.  Both rest on the order in      *)
(* which identities and generations come into being: what a session given   *)
(* up long ago may still do when it arrives is bounded by both.             *)
(***************************************************************************)

\* A generation is proposed once and processed at most once, and the one a
\* session expects to replace has been processed before it was proposed.
GenerationsUnique ==
    /\ worker.cfgGen <= generations
    /\ \A r \in late : r.op = "session" =>
         /\ r.gen # api.gen /\ r.gen # worker.cfgGen
         /\ r.expected <= generations
         /\ \A s \in late : s.op = "session" => /\ s.gen = r.gen => s = r
                                                /\ s.gen # r.expected

\* The live process is the last one launched, and a session that can still be
\* accepted names no older process than the one registered.
IdentitiesOrdered ==
    /\ proc \in {0, launched}
    /\ api.reg <= launched /\ worker.restart <= launched /\ watchdog.quar <= launched
    /\ \A r \in late : r.op = "session" =>
         /\ r.proc <= launched
         /\ r.expected = api.gen /\ r.proc # 0 => api.reg <= r.proc
    /\ wpc = "session" =>
         /\ worker.snap <= launched
         /\ worker.snap # 0 =>
              /\ api.reg <= worker.snap
              /\ \A r \in late : r.op = "session" => r.proc <= worker.snap

\* Only the registered process is fenced or leased.
FenceIsRegistered ==
    /\ api.quar # 0 => api.quar = api.reg
    /\ api.lease # 0 => api.leaseProc = api.reg

\* Between the /config of stop_fenced_terminal and its kill the fence stands,
\* as long as the process it names is there to be killed.
StopIsFenced ==
    /\ wpc = "recStop" /\ proc # 0 /\ proc = worker.restart => api.quar = proc
    /\ dpc = "recStop" /\ proc # 0 /\ proc = watchdog.quar => api.quar = proc

\* A process replaced for good: it is gone, and a worker that still means it
\* speaks for a generation that has been replaced.
Superseded(k) ==
    /\ k.proc < launched
    /\ wpc \in Working /\ worker.id = k.proc => worker.sessGen # api.gen

AfterChild == {"verify", "complete", "fail"}

\* A child, watched or left behind, is bound to its lease, then to the fence
\* the end of that lease leaves, then to a process that is gone.
ChildrenBound ==
    \A k \in kids :
        /\ k.proc # 0 /\ k.lease # 0
        /\ \A r \in late : r.op \in {"complete", "fail"} => r.lease # k.lease
        /\ wpc \in AfterChild => k.lease # worker.lease
        /\ \/ api.lease = k.lease /\ api.leaseProc = k.proc
           \/ api.quar = k.proc
           \/ Superseded(k)

JInv == /\ GenerationsUnique /\ IdentitiesOrdered /\ FenceIsRegistered
        /\ StopIsFenced /\ ChildrenBound /\ OneChildPerProcess

\* The requests a step leaves on their way: those that were, and new ones of
\* the worker's own job.
CalmLate ==
    \A r \in late' : \/ r \in late
                     \/ r.op \notin {"session", "complete", "fail"}
                     \/ /\ r.op \in {"complete", "fail"} /\ wpc \in AfterChild
                        /\ r.lease = worker.lease

CalmWorker ==
    /\ kids' \subseteq kids /\ generations' = generations
    /\ worker'.cfgGen \in {0, worker.cfgGen, api.gen}
    /\ \/ worker'.restart \in {0, worker.restart, api.quar}
       \/ wpc \in Working /\ worker'.restart = worker.id
    /\ wpc' = "session" =>
         \/ wpc = "session" /\ worker'.snap = worker.snap
         \/ worker'.snap \in {0, proc}
    /\ wpc' \in Working =>
         \/ wpc \in Working /\ worker'.id = worker.id /\ worker'.sessGen = worker.sessGen
         \/ worker'.id = proc /\ proc # 0
    /\ wpc' \in AfterChild =>
         \/ wpc \in AfterChild /\ worker'.lease = worker.lease
         \/ \A k \in kids' : k.lease # worker'.lease
    /\ wpc' = "recStop" =>
         \/ wpc = "recStop" /\ worker'.restart = worker.restart
         \/ worker'.restart = api.quar /\ api'.quar = api.quar

CalmWatchdog ==
    /\ watchdog'.quar \in {0, watchdog.quar, api.quar}
    /\ dpc' = "recStop" =>
         \/ dpc = "recStop" /\ watchdog'.quar = watchdog.quar
         \/ watchdog'.quar = api.quar /\ api'.quar = api.quar

Calm == CalmLate /\ CalmWorker /\ CalmWatchdog /\ QuietTerminal

\* What the API's row goes through in a step: nothing, a fence on a free slot,
\* a claim, the end of a lease, or a session that arrives late.
KeptOrFenced ==
    /\ Kept
    /\ api'.quar = api.quar \/ (api.quar = 0 /\ api.lease = 0 /\ api'.quar = api.reg)
Claimed ==
    /\ api'.gen = api.gen /\ api'.reg = api.reg /\ api.lease = 0
    /\ api'.leaseProc = api.reg /\ api.quar = 0 /\ api'.quar = 0
LeaseOver ==
    /\ api'.gen = api.gen /\ api'.reg = api.reg /\ api.lease # 0 /\ api'.lease = 0
    /\ \/ api'.quar = api.leaseProc
       \/ api'.quar = 0 /\ \A k \in kids : k.lease # api.lease
OpenedFor(r) ==
    /\ Opened(r) /\ r.op = "session" /\ r.expected = api.gen
    /\ api.quar # 0 => r.proc # 0
    /\ api'.quar = IF r.proc = api.quar THEN api.quar ELSE 0

\* The numbers this invariant compares are naturals, too.
LEMMA MoreNumbers ==
    ASSUME TypeOK
    PROVE  /\ api.reg \in Nat /\ api.quar \in Nat /\ api.leaseProc \in Nat
           /\ worker.cfgGen \in Nat /\ worker.restart \in Nat /\ worker.snap \in Nat
           /\ watchdog.quar \in Nat
           /\ \A r \in late : r.expected \in Nat /\ r.proc \in Nat
           /\ \A k \in kids : k.proc \in Nat
  <1>1. /\ Gens \subseteq Nat /\ Leases \subseteq Nat /\ Identities \subseteq Nat
    BY DEF Gens, Leases, Identities
  <1>2. /\ api.reg \in Nat /\ api.quar \in Nat /\ api.leaseProc \in Nat
    BY <1>1 DEF TypeOK, Rows
  <1>3. worker.cfgGen \in Nat /\ worker.restart \in Nat /\ worker.snap \in Nat
    BY <1>1 DEF TypeOK, Workers
  <1>4. watchdog.quar \in Nat
    BY <1>1 DEF TypeOK, Watchdogs
  <1>5. \A r \in late : r.expected \in Nat /\ r.proc \in Nat
    BY <1>1 DEF TypeOK, Requests
  <1>6. \A k \in kids : k.proc \in Nat
    BY <1>1 DEF TypeOK, Children
  <1> QED
    BY <1>2, <1>3, <1>4, <1>5, <1>6

\* Terminals come and go in the order of their identities.
LEMMA TerminalOrder ==
    ASSUME TypeOK, IdentitiesOrdered, QuietTerminal
    PROVE  /\ proc' \in {0, launched'} /\ launched <= launched'
           /\ launched' \in Nat
           /\ proc' # 0 => proc' = proc \/ proc' > launched
           /\ proc # 0 => proc = launched
  BY Numbers DEF IdentitiesOrdered, QuietTerminal

\* A step that proposes no session, spawns no child and replaces no session
\* preserves it, whatever it does to the fence and the lease.
LEMMA CalmStep ==
    ASSUME IInv, JInv, TypeOK', Calm, KeptOrFenced \/ Claimed \/ LeaseOver
    PROVE  JInv'
  <1>1. TypeOK /\ SessionsUnique /\ LeasesUnique /\ ReadFromOne
    BY DEF IInv
  <1>2. /\ GenerationsUnique /\ IdentitiesOrdered /\ FenceIsRegistered
        /\ StopIsFenced /\ ChildrenBound /\ OneChildPerProcess
    BY DEF JInv
  <1>3. CalmLate /\ CalmWorker /\ CalmWatchdog /\ QuietTerminal
    BY DEF Calm
  <1>4. api'.gen = api.gen /\ api'.reg = api.reg
    BY DEF KeptOrFenced, Kept, Claimed, LeaseOver
  <1>5. /\ proc' \in {0, launched'} /\ launched <= launched' /\ launched' \in Nat
        /\ proc' # 0 => proc' = proc \/ proc' > launched
        /\ proc # 0 => proc = launched
    BY <1>1, <1>2, <1>3, TerminalOrder
  <1>6. \A r \in late' : r.op = "session" => r \in late
    BY <1>3 DEF CalmLate
  <1>7. api.quar <= launched /\ (wpc \in Working => worker.id <= launched)
    <2>1. api.quar = 0 \/ api.quar = api.reg
      BY <1>2 DEF FenceIsRegistered
    <2> QED
      BY <1>1, <1>2, <2>1, Numbers DEF IdentitiesOrdered, ReadFromOne
  <1>8. GenerationsUnique'
    <2>1. generations' = generations /\ worker'.cfgGen \in {0, worker.cfgGen, api.gen}
      BY <1>3 DEF CalmWorker
    <2>2. worker'.cfgGen <= generations
      BY <1>1, <1>2, <2>1, Numbers DEF GenerationsUnique, SessionsUnique
    <2>3. \A r \in late : r.op = "session" => r.gen # worker'.cfgGen
      BY <1>1, <1>2, <2>1 DEF GenerationsUnique, SessionsUnique
    <2> QED
      BY <1>2, <1>4, <1>6, <2>1, <2>2, <2>3 DEF GenerationsUnique
  <1>9. IdentitiesOrdered'
    <2>1. worker'.restart <= launched'
      <3>1. worker'.restart \in {0, worker.restart, api.quar}
            \/ (wpc \in Working /\ worker'.restart = worker.id)
        BY <1>3 DEF CalmWorker
      <3>2. worker'.restart <= launched
        BY <1>1, <1>2, <1>7, <3>1, Numbers DEF IdentitiesOrdered
      <3>3. worker'.restart \in Nat
        BY <1>1, <3>1, Numbers, MoreNumbers
      <3> QED
        BY <1>1, <1>5, <3>2, <3>3, Numbers
    <2>2. watchdog'.quar <= launched'
      <3>1. watchdog'.quar \in {0, watchdog.quar, api.quar}
        BY <1>3 DEF CalmWatchdog
      <3>2. watchdog'.quar <= launched /\ watchdog'.quar \in Nat
        BY <1>1, <1>2, <1>7, <3>1, Numbers, MoreNumbers DEF IdentitiesOrdered
      <3> QED
        BY <1>1, <1>5, <3>2, Numbers
    <2>3. \A r \in late' : r.op = "session" =>
            /\ r.proc <= launched'
            /\ r.expected = api'.gen /\ r.proc # 0 => api'.reg <= r.proc
      <3> SUFFICES ASSUME NEW r \in late', r.op = "session"
                   PROVE  /\ r.proc <= launched'
                          /\ r.expected = api'.gen /\ r.proc # 0 => api'.reg <= r.proc
        OBVIOUS
      <3>1. r \in late /\ r.proc <= launched /\ r.proc \in Nat
        BY <1>1, <1>2, <1>6, MoreNumbers DEF IdentitiesOrdered
      <3>2. r.proc <= launched'
        BY <1>1, <1>5, <3>1, Numbers
      <3> QED
        BY <1>2, <1>4, <3>1, <3>2 DEF IdentitiesOrdered
    <2>4. api'.reg <= launched'
      BY <1>1, <1>2, <1>4, <1>5, Numbers, MoreNumbers DEF IdentitiesOrdered
    <2>5. ASSUME wpc' = "session"
          PROVE  /\ worker'.snap <= launched'
                 /\ worker'.snap # 0 =>
                      /\ api'.reg <= worker'.snap
                      /\ \A r \in late' : r.op = "session" => r.proc <= worker'.snap
      <3>1. \/ wpc = "session" /\ worker'.snap = worker.snap
            \/ worker'.snap \in {0, proc}
        BY <1>3, <2>5 DEF CalmWorker
      <3>2. CASE wpc = "session" /\ worker'.snap = worker.snap
        BY <1>1, <1>2, <1>4, <1>5, <1>6, <3>2, Numbers, MoreNumbers DEF
           IdentitiesOrdered
      <3>3. CASE worker'.snap \in {0, proc}
        <4>1. worker'.snap = 0 \/ worker'.snap = launched
          BY <1>5, <3>3
        <4> QED
          BY <1>1, <1>2, <1>4, <1>5, <1>6, <4>1, Numbers DEF IdentitiesOrdered
      <3> QED
        BY <3>1, <3>2, <3>3
    <2> QED
      BY <1>5, <2>1, <2>2, <2>3, <2>4, <2>5 DEF IdentitiesOrdered
  <1>10. FenceIsRegistered'
    <2>1. CASE KeptOrFenced
      BY <1>2, <2>1 DEF FenceIsRegistered, KeptOrFenced, Kept
    <2>2. CASE Claimed
      BY <2>2 DEF FenceIsRegistered, Claimed
    <2>3. CASE LeaseOver
      BY <1>2, <2>3 DEF FenceIsRegistered, LeaseOver
    <2> QED
      BY <2>1, <2>2, <2>3
  <1>11. api.quar # 0 => api'.quar = api.quar /\ api.lease = 0
    BY <1>1 DEF KeptOrFenced, Claimed, LeaseOver, LeasesUnique
  <1>12. StopIsFenced'
    <2>1. ASSUME wpc' = "recStop", proc' # 0, proc' = worker'.restart PROVE api'.quar = proc'
      <3>1. \/ wpc = "recStop" /\ worker'.restart = worker.restart
            \/ worker'.restart = api.quar /\ api'.quar = api.quar
        BY <1>3, <2>1 DEF CalmWorker
      <3>2. CASE wpc = "recStop" /\ worker'.restart = worker.restart
        <4>1. proc' = proc
          BY <1>1, <1>2, <1>5, <2>1, <3>2, Numbers, MoreNumbers DEF
             IdentitiesOrdered
        <4> QED
          BY <1>2, <1>11, <2>1, <3>2, <4>1 DEF StopIsFenced
      <3> QED
        BY <2>1, <3>1, <3>2
    <2>2. ASSUME dpc' = "recStop", proc' # 0, proc' = watchdog'.quar PROVE api'.quar = proc'
      <3>1. \/ dpc = "recStop" /\ watchdog'.quar = watchdog.quar
            \/ watchdog'.quar = api.quar /\ api'.quar = api.quar
        BY <1>3, <2>2 DEF CalmWatchdog
      <3>2. CASE dpc = "recStop" /\ watchdog'.quar = watchdog.quar
        <4>1. proc' = proc
          BY <1>1, <1>2, <1>5, <2>2, <3>2, Numbers, MoreNumbers DEF
             IdentitiesOrdered
        <4> QED
          BY <1>2, <1>11, <2>2, <3>2, <4>1 DEF StopIsFenced
      <3> QED
        BY <2>2, <3>1, <3>2
    <2> QED
      BY <2>1, <2>2 DEF StopIsFenced
  <1>13. ChildrenBound'
    <2> SUFFICES ASSUME NEW k \in kids'
                 PROVE  /\ k.proc # 0 /\ k.lease # 0
                        /\ \A r \in late' : r.op \in {"complete", "fail"} => r.lease # k.lease
                        /\ wpc' \in AfterChild => k.lease # worker'.lease
                        /\ \/ api'.lease = k.lease /\ api'.leaseProc = k.proc
                           \/ api'.quar = k.proc
                           \/ Superseded(k)'
      BY DEF ChildrenBound
    <2>1. /\ k \in kids /\ k.proc # 0 /\ k.lease # 0
          /\ \A r \in late : r.op \in {"complete", "fail"} => r.lease # k.lease
          /\ wpc \in AfterChild => k.lease # worker.lease
          /\ \/ api.lease = k.lease /\ api.leaseProc = k.proc
             \/ api.quar = k.proc
             \/ Superseded(k)
      BY <1>2, <1>3 DEF ChildrenBound, CalmWorker
    <2>2. \A r \in late' : r.op \in {"complete", "fail"} => r.lease # k.lease
      BY <1>3, <2>1 DEF CalmLate
    <2>3. wpc' \in AfterChild => k.lease # worker'.lease
      BY <1>3, <2>1 DEF CalmWorker
    <2>4. CASE Superseded(k)
      <3>1. k.proc < launched' /\ k.proc \in Nat /\ k.proc < launched
        BY <1>1, <1>5, <2>1, <2>4, Numbers, MoreNumbers DEF Superseded
      <3>2. wpc' \in Working /\ worker'.id = k.proc => worker'.sessGen # api.gen
        <4> SUFFICES ASSUME wpc' \in Working, worker'.id = k.proc PROVE worker'.sessGen # api.gen
          OBVIOUS
        <4>1. worker'.id # launched
          BY <1>1, <3>1, Numbers
        <4>2. wpc \in Working /\ worker'.id = worker.id /\ worker'.sessGen = worker.sessGen
          BY <1>3, <1>5, <4>1 DEF CalmWorker
        <4> QED
          BY <2>4, <4>2 DEF Superseded
      <3>3. Superseded(k)'
        BY <1>4, <3>1, <3>2 DEF Superseded
      <3> QED
        BY <2>1, <2>2, <2>3, <3>3
    <2>5. CASE api.quar = k.proc
      BY <1>11, <2>1, <2>2, <2>3, <2>5
    <2>6. CASE api.lease = k.lease /\ api.leaseProc = k.proc
      <3>1. \/ api'.lease = k.lease /\ api'.leaseProc = k.proc
            \/ api'.quar = k.proc
        BY <2>1, <2>6 DEF KeptOrFenced, Kept, Claimed, LeaseOver
      <3> QED
        BY <2>1, <2>2, <2>3, <3>1
    <2> QED
      BY <2>1, <2>4, <2>5, <2>6
  <1>14. OneChildPerProcess'
    BY <1>2, <1>3 DEF OneChildPerProcess, CalmWorker
  <1> QED
    BY <1>8, <1>9, <1>10, <1>12, <1>13, <1>14 DEF JInv

\* What a session leaves of a fence, and what it makes of those who meant it:
\* one the API accepts under a fence names a newer process, so the fenced one
\* is gone.
LEMMA FenceLifted ==
    ASSUME TypeOK, SessionsUnique, LeasesUnique, IdentitiesOrdered, FenceIsRegistered,
           NEW r \in Requests, OpenedFor(r), r.proc <= launched,
           r.proc # 0 => api.reg <= r.proc, api.quar # 0, api'.quar # api.quar
    PROVE  api.quar < launched /\ proc # api.quar
  <1>1. r.proc # 0 /\ r.proc # api.quar /\ api.quar = api.reg
    BY DEF OpenedFor, FenceIsRegistered
  <1>2. r.proc \in Nat /\ Identities \subseteq Nat
    BY DEF Requests, Identities
  <1>3. api.quar < r.proc /\ api.quar < launched
    BY <1>1, <1>2, Numbers, MoreNumbers
  <1> QED
    BY <1>3, Numbers, MoreNumbers DEF IdentitiesOrdered

\* A session that arrives late preserves it.
LEMMA LateSession ==
    ASSUME IInv, JInv, TypeOK', NEW r \in late, OpenedFor(r), late' = late \ {r},
           UNCHANGED <<proc, launched, kids, generations, wvars, dvars>>
    PROVE  JInv'
  <1>1. TypeOK /\ SessionsUnique /\ LeasesUnique /\ r \in Requests
    BY DEF IInv, TypeOK
  <1>2. /\ GenerationsUnique /\ IdentitiesOrdered /\ FenceIsRegistered
        /\ StopIsFenced /\ ChildrenBound /\ OneChildPerProcess
    BY DEF JInv
  <1>3. /\ api'.gen = r.gen /\ api'.reg = r.proc /\ api'.lease = api.lease
        /\ api'.leaseProc = api.leaseProc /\ (api.lease # 0 => r.proc = api.reg)
        /\ r.op = "session" /\ r.expected = api.gen /\ (api.quar # 0 => r.proc # 0)
        /\ api'.quar = IF r.proc = api.quar THEN api.quar ELSE 0
    BY DEF OpenedFor, Opened
  <1>4. /\ r.proc <= launched /\ (r.proc # 0 => api.reg <= r.proc)
        /\ r.gen # worker.sessGen
    BY <1>1, <1>2, <1>3 DEF IdentitiesOrdered, SessionsUnique
  <1>5. api.quar # 0 /\ api'.quar # api.quar => api.quar < launched /\ proc # api.quar
    BY <1>1, <1>2, <1>4, FenceLifted
  <1>6. GenerationsUnique'
    BY <1>2, <1>3 DEF GenerationsUnique, wvars
  <1>7. IdentitiesOrdered'
    BY <1>2, <1>3, <1>4 DEF IdentitiesOrdered, GenerationsUnique, wvars, dvars
  <1>8. FenceIsRegistered'
    BY <1>2, <1>3 DEF FenceIsRegistered
  <1>9. StopIsFenced'
    BY <1>2, <1>5 DEF StopIsFenced, wvars, dvars
  <1>10. ChildrenBound'
    <2> SUFFICES ASSUME NEW k \in kids
                 PROVE  \/ api'.lease = k.lease /\ api'.leaseProc = k.proc
                        \/ api'.quar = k.proc
                        \/ Superseded(k)'
      BY <1>2 DEF ChildrenBound, wvars
    <2>1. /\ k.proc # 0
          /\ \/ api.lease = k.lease /\ api.leaseProc = k.proc
             \/ api.quar = k.proc
             \/ Superseded(k)
      BY <1>2 DEF ChildrenBound
    <2>2. k.proc < launched => Superseded(k)'
      BY <1>3, <1>4 DEF Superseded, wvars
    <2> QED
      BY <1>3, <1>5, <2>1, <2>2 DEF Superseded
  <1>11. OneChildPerProcess'
    BY <1>2 DEF OneChildPerProcess
  <1> QED
    BY <1>6, <1>7, <1>8, <1>9, <1>10, <1>11 DEF JInv

\* The worker's own proposal, accepted, lost or still on its way, preserves it.
LEMMA OwnSession ==
    ASSUME IInv, JInv, TypeOK', NEW r \in Requests, r.op = "session",
           r.gen = generations + 1, r.proc = worker.snap,
           r.expected \in {worker.sessGen, worker.cfgGen},
           wpc = "session", wpc' \notin Working \cup {"session", "recStop"},
           worker'.cfgGen = worker.cfgGen, worker'.restart = worker.restart,
           generations' = generations + 1,
           \/ OpenedFor(r) /\ late' = late
           \/ UNCHANGED api /\ (late' = late \/ late' = late \cup {r}),
           UNCHANGED <<proc, launched, kids, dvars>>
    PROVE  JInv'
  <1>1. TypeOK /\ SessionsUnique /\ LeasesUnique
    BY DEF IInv
  <1>2. /\ GenerationsUnique /\ IdentitiesOrdered /\ FenceIsRegistered
        /\ StopIsFenced /\ ChildrenBound /\ OneChildPerProcess
    BY DEF JInv
  <1>3. r.proc <= launched /\ (r.proc # 0 => api.reg <= r.proc)
    BY <1>2 DEF IdentitiesOrdered
  <1>4. r.expected <= generations /\ r.expected # r.gen /\ r.gen > generations
    BY <1>1, <1>2, Numbers, MoreNumbers DEF GenerationsUnique, SessionsUnique
  <1>5. \A x \in late : x.op = "session" =>
          /\ x.gen <= generations /\ x.gen # r.gen /\ x.expected # r.gen
          /\ x.gen # r.expected
    BY <1>1, <1>2, Numbers, MoreNumbers DEF GenerationsUnique, SessionsUnique
  <1>6. \A n \in Nat : n <= generations => n <= generations'
    BY <1>1, Numbers
  <1>7. worker.cfgGen <= generations /\ r.gen # worker.cfgGen
    BY <1>1, <1>2, <1>4, Numbers, MoreNumbers DEF GenerationsUnique
  <1>8. CASE OpenedFor(r) /\ late' = late
    <2>1. /\ api'.gen = r.gen /\ api'.reg = r.proc /\ api'.lease = api.lease
          /\ api'.leaseProc = api.leaseProc /\ (api.lease # 0 => r.proc = api.reg)
          /\ (api.quar # 0 => r.proc # 0)
          /\ api'.quar = IF r.proc = api.quar THEN api.quar ELSE 0
      BY <1>8 DEF OpenedFor, Opened
    <2>2. api.quar # 0 /\ api'.quar # api.quar => api.quar < launched /\ proc # api.quar
      BY <1>1, <1>2, <1>3, <1>8, FenceLifted
    <2>3. GenerationsUnique'
      <3>1. \A x \in late : x.op = "session" => x.expected <= generations'
        BY <1>1, <1>2, <1>6, MoreNumbers DEF GenerationsUnique
      <3> QED
        BY <1>1, <1>2, <1>5, <1>6, <1>7, <1>8, <2>1, <3>1, MoreNumbers
           DEF GenerationsUnique
    <2>4. IdentitiesOrdered'
      BY <1>2, <1>3, <1>5, <1>8, <2>1 DEF IdentitiesOrdered, dvars
    <2>5. FenceIsRegistered'
      BY <1>2, <2>1 DEF FenceIsRegistered
    <2>6. StopIsFenced'
      BY <1>2, <2>2 DEF StopIsFenced, dvars
    <2>7. ChildrenBound'
      <3> SUFFICES ASSUME NEW k \in kids
                   PROVE  \/ api'.lease = k.lease /\ api'.leaseProc = k.proc
                          \/ api'.quar = k.proc
                          \/ Superseded(k)'
        BY <1>2, <1>8 DEF ChildrenBound, Working, AfterChild
      <3>1. /\ k.proc # 0
            /\ \/ api.lease = k.lease /\ api.leaseProc = k.proc
               \/ api.quar = k.proc
               \/ Superseded(k)
        BY <1>2 DEF ChildrenBound
      <3> QED
        BY <2>1, <2>2, <3>1 DEF Superseded
    <2> QED
      BY <1>2, <2>3, <2>4, <2>5, <2>6, <2>7 DEF JInv, OneChildPerProcess
  <1>9. CASE UNCHANGED api /\ (late' = late \/ late' = late \cup {r})
    <2>1. api' = api /\ \A x \in late' : x \in late \/ x = r
      BY <1>9
    <2>2. r.gen # api.gen
      BY <1>1, <1>4, Numbers DEF SessionsUnique
    <2>3. GenerationsUnique'
      <3>1. \A x \in late' : x.op = "session" =>
              x.expected <= generations' /\ x.gen # api.gen /\ x.gen # worker.cfgGen
        <4>1. r.expected <= generations'
          BY <1>1, <1>4, <1>6, Numbers, MoreNumbers
        <4> QED
          BY <1>1, <1>2, <1>6, <1>7, <2>1, <2>2, <4>1, MoreNumbers DEF
             GenerationsUnique
      <3>2. \A x, y \in late' : x.op = "session" /\ y.op = "session" =>
              (y.gen = x.gen => y = x) /\ y.gen # x.expected
        BY <1>2, <1>4, <1>5, <2>1 DEF GenerationsUnique
      <3> QED
        BY <1>1, <1>6, <1>7, <2>1, <3>1, <3>2, MoreNumbers DEF GenerationsUnique
    <2>4. IdentitiesOrdered'
      BY <1>2, <1>3, <2>1 DEF IdentitiesOrdered, dvars
    <2>5. FenceIsRegistered' /\ StopIsFenced' /\ OneChildPerProcess'
      BY <1>2, <2>1 DEF FenceIsRegistered, StopIsFenced, OneChildPerProcess, dvars
    <2>6. ChildrenBound'
      <3> SUFFICES ASSUME NEW k \in kids
                   PROVE  /\ \A x \in late' : x.op \in {"complete", "fail"} => x.lease # k.lease
                          /\ \/ api'.lease = k.lease /\ api'.leaseProc = k.proc
                             \/ api'.quar = k.proc
                             \/ Superseded(k)'
        BY <1>2 DEF ChildrenBound, Working, AfterChild
      <3> QED
        BY <1>2, <2>1 DEF ChildrenBound, Superseded
    <2> QED
      BY <2>3, <2>4, <2>5, <2>6 DEF JInv
  <1> QED
    BY <1>8, <1>9

\* What processing a request does to the fence.
LEMMA RowEffect ==
    ASSUME TypeOK, LeasesUnique, NEW r \in Requests, Process(r)
    PROVE  /\ ~Accepts(r) \/ r.op \in Reads => api' = api
           /\ r.op \in {"report", "prepare"} => KeptOrFenced
           /\ Accepts(r) /\ r.op = "session" => OpenedFor(r)
           /\ Accepts(r) /\ r.op = "claim" => Claimed
           /\ Accepts(r) /\ r.op \in {"complete", "fail"} =>
                /\ api'.gen = api.gen /\ api'.reg = api.reg /\ api.lease # 0
                /\ api'.lease = 0 /\ r.lease = api.lease
                /\ api'.quar \in {0, api.leaseProc}
  <1>1. api \in Rows /\ (api.lease # 0 => api.quar = 0)
    BY DEF TypeOK, LeasesUnique
  <1>2. IF Accepts(r) THEN api' = After(r) ELSE api' = api
    BY DEF Process
  <1>3. CASE ~Accepts(r)
    BY <1>2, <1>3 DEF KeptOrFenced, Kept
  <1>4. CASE Accepts(r) /\ r.op \in Reads
    BY <1>2, <1>4 DEF After, Reads
  <1>5. CASE Accepts(r) /\ r.op = "report"
    <2>1. api' = [api EXCEPT !.status = r.status]
      BY <1>2, <1>5 DEF After
    <2> QED
      BY <1>1, <1>5, <2>1 DEF KeptOrFenced, Kept, Rows, Reads
  <1>6. CASE Accepts(r) /\ r.op = "prepare"
    <2>1. api' = [api EXCEPT !.quar = api.reg] /\ api.lease = 0 /\ api.quar = 0
      BY <1>2, <1>6 DEF After, Accepts
    <2> QED
      BY <1>1, <1>6, <2>1 DEF KeptOrFenced, Kept, Rows, Reads
  <1>7. CASE Accepts(r) /\ r.op = "session"
    <2>1. /\ api' = [api EXCEPT !.gen = r.gen, !.reg = r.proc, !.status = "OFFLINE",
                                !.quar = IF r.proc = api.quar THEN api.quar ELSE 0]
          /\ api.lease # 0 => r.proc = api.reg
          /\ r.expected = api.gen /\ (api.quar # 0 => r.proc # 0)
      BY <1>2, <1>7 DEF After, Accepts
    <2>2. /\ api'.gen = r.gen /\ api'.reg = r.proc /\ api'.fence = api.fence
          /\ api'.lease = api.lease /\ api'.leaseProc = api.leaseProc
          /\ api'.quar = IF r.proc = api.quar THEN api.quar ELSE 0
      BY <1>1, <2>1 DEF Rows
    <2> QED
      BY <1>7, <2>1, <2>2 DEF OpenedFor, Opened, Reads
  <1>8. CASE Accepts(r) /\ r.op = "claim"
    <2>1. /\ api' = [api EXCEPT !.fence = @ + 1, !.lease = api.fence + 1,
                                !.leaseGen = r.gen, !.leaseProc = api.reg]
          /\ api.lease = 0 /\ api.quar = 0
      BY <1>2, <1>8 DEF After, Accepts
    <2> QED
      BY <1>1, <1>8, <2>1 DEF Claimed, Rows, Reads
  <1>9. CASE Accepts(r) /\ r.op \in {"complete", "fail"}
    <2>1. api.lease # 0 /\ r.lease = api.lease
      BY <1>9 DEF Accepts, LeaseValid
    <2>2. CASE r.op = "complete"
      <3>1. api' = [api EXCEPT !.lease = 0, !.leaseGen = 0, !.leaseProc = 0]
        BY <1>2, <1>9, <2>2 DEF After, Unleased
      <3> QED
        BY <1>1, <1>9, <2>1, <2>2, <3>1 DEF Rows, Reads
    <2>3. CASE r.op = "fail"
      <3> DEFINE q == IF r.quarantines THEN api.leaseProc ELSE 0
      <3>1. api' = [[api EXCEPT !.lease = 0, !.leaseGen = 0, !.leaseProc = 0]
                      EXCEPT !.quar = q]
        BY <1>2, <1>9, <2>3 DEF After, Unleased
      <3>2. q \in {0, api.leaseProc}
        OBVIOUS
      <3> HIDE DEF q
      <3> QED
        BY <1>1, <1>9, <2>1, <2>3, <3>1, <3>2 DEF Rows, Reads
    <2> QED
      BY <1>9, <2>2, <2>3
  <1> QED
    BY <1>3, <1>4, <1>5, <1>6, <1>7, <1>8, <1>9 DEF Requests, Calls, Reads

\* Calls that only read, report a status or fence a free slot are calm.
LEMMA CalmCall ==
    ASSUME TypeOK, LeasesUnique, NEW r \in Requests,
           r.op \in Reads \cup {"report", "prepare"}, Answered(r) \/ Unanswered(r)
    PROVE  CalmLate /\ KeptOrFenced /\ (r.op \in Reads => api' = api)
  <1>1. r.op \notin {"session", "complete", "fail"} /\ r.op \in Calls
    BY DEF Reads, Requests
  <1>2. CalmLate
    BY <1>1 DEF CalmLate, Answered, Unanswered
  <1>3. CASE Process(r)
    <2>1. r.op \in Reads => api' = api
      BY <1>3, RowEffect
    <2>2. KeptOrFenced
      BY <1>3, <2>1, RowEffect DEF KeptOrFenced, Kept
    <2> QED
      BY <1>2, <2>1, <2>2
  <1>4. CASE UNCHANGED api
    BY <1>2, <1>4 DEF KeptOrFenced, Kept
  <1> QED
    BY <1>3, <1>4 DEF Answered, Unanswered

\* The worker's ways back are calm.
LEMMA CalmReturn ==
    ASSUME TypeOK, kids' \subseteq kids, UNCHANGED generations
    PROVE  /\ \A w \in Workers :
                /\ Return(w) /\ w.cfgGen \in {0, worker.cfgGen, api.gen}
                /\ \/ w.restart \in {0, worker.restart, api.quar}
                   \/ wpc \in Working /\ w.restart = worker.id
                => CalmWorker
           /\ Defer => CalmWorker
  <1>1. worker \in Workers
    BY DEF TypeOK
  <1>2. ASSUME NEW w \in Workers, Return(w), w.cfgGen \in {0, worker.cfgGen, api.gen},
               \/ w.restart \in {0, worker.restart, api.quar}
               \/ wpc \in Working /\ w.restart = worker.id
        PROVE  CalmWorker
    <2>1. wpc' = "idle" /\ worker'.cfgGen = w.cfgGen /\ worker'.restart = w.restart
      BY <1>2 DEF Return, Workers
    <2> QED
      BY <1>2, <2>1 DEF CalmWorker, Working, AfterChild
  <1>3. ASSUME Defer PROVE CalmWorker
    <2> DEFINE v == [worker EXCEPT !.connected = FALSE, !.inspected = FALSE]
    <2>1. v \in Workers /\ v.cfgGen = worker.cfgGen /\ v.restart = worker.restart
      BY <1>1 DEF Workers
    <2>2. Return(v)
      BY <1>3 DEF Defer
    <2> HIDE DEF v
    <2> QED
      BY <1>2, <2>1, <2>2
  <1> QED
    BY <1>2, <1>3

\* Every step preserves it.
LEMMA NextJInv == IInv /\ JInv /\ [Next]_vars => JInv'
  <1> SUFFICES ASSUME IInv, JInv, [Next]_vars PROVE JInv'
    OBVIOUS
  <1> USE DEF terminal, remote, wvars, dvars
  <1>1. /\ TypeOK /\ LeasesUnique /\ TypeOK' /\ SessionsUnique
    BY NextTypeOK DEF IInv
  <1>2. worker \in Workers /\ watchdog \in Watchdogs /\ api \in Rows
    BY <1>1 DEF TypeOK
  <1>3. UNCHANGED remote => CalmLate /\ KeptOrFenced
    BY DEF CalmLate, KeptOrFenced, Kept
  <1>4. UNCHANGED dvars => CalmWatchdog
    BY DEF CalmWatchdog
  <1>5. UNCHANGED <<wvars, kids, generations>> => CalmWorker
    BY DEF CalmWorker
  <1>6. /\ UNCHANGED terminal => QuietTerminal
        /\ Terminate => QuietTerminal
        /\ Launch => QuietTerminal
    BY DEF QuietTerminal, Terminate, Launch
  <1>7. DReturn => CalmWatchdog
    BY <1>2 DEF DReturn, NewWatchdog, CalmWatchdog
  <1>8. kids' \subseteq kids /\ UNCHANGED generations =>
          /\ \A w \in Workers :
               /\ Return(w) /\ w.cfgGen \in {0, worker.cfgGen, api.gen}
               /\ \/ w.restart \in {0, worker.restart, api.quar}
                  \/ wpc \in Working /\ w.restart = worker.id
               => CalmWorker
          /\ Defer => CalmWorker
    BY <1>1, CalmReturn
  <1>9. ASSUME NEW q \in WorkerPcs \ (Working \cup {"session", "recStop"}), NEW w \in Workers,
               Goto(q, w), w.cfgGen \in {worker.cfgGen, api.gen},
               w.restart \in {0, worker.restart, api.quar},
               UNCHANGED <<kids, generations>>
        PROVE  CalmWorker
    <2>1. wpc' = q /\ worker' = w
      BY <1>9 DEF Goto
    <2> QED
      BY <1>9, <2>1 DEF CalmWorker, Working, AfterChild
  <1>10. CASE WDispatch
    <2>1. CalmLate /\ KeptOrFenced
      BY <1>10, <1>1, <1>3, CalmCall, RequestType DEF WDispatch, Config,
         Blank, ReportRequest, FenceRequest, LeaseCall, Reads, Calls
    <2>2. CalmWorker
      BY <1>10, <1>2, <1>8, <1>9 DEF WDispatch, Goto, CalmWorker, Working,
         AfterChild, Workers, WorkerPcs, Reconfigured, Snapshot, Status
    <2>3. QuietTerminal /\ CalmWatchdog
      BY <1>10, <1>4, <1>6 DEF WDispatch
    <2> QED
      BY <1>1, <2>1, <2>2, <2>3, CalmStep DEF Calm
  <1>11. CASE WRefresh
    <2>1. CalmLate /\ KeptOrFenced
      BY <1>11, <1>1, <1>3, CalmCall, RequestType DEF WRefresh, Config,
         Blank, ReportRequest, FenceRequest, LeaseCall, Reads, Calls
    <2>2. CalmWorker
      BY <1>11, <1>2, <1>8, <1>9 DEF WRefresh, Goto, CalmWorker, Working,
         AfterChild, Workers, WorkerPcs, Reconfigured, Snapshot, Status
    <2>3. QuietTerminal /\ CalmWatchdog
      BY <1>11, <1>4, <1>6 DEF WRefresh
    <2> QED
      BY <1>1, <2>1, <2>2, <2>3, CalmStep DEF Calm
  <1>12. CASE WRecover
    <2>1. CalmLate /\ KeptOrFenced
      BY <1>12, <1>3 DEF WRecover
    <2>2. CalmWorker
      BY <1>12, <1>2, <1>8, <1>9 DEF WRecover, Goto, CalmWorker, Working,
         AfterChild, Workers, WorkerPcs, Reconfigured, Snapshot, Status
    <2>3. QuietTerminal /\ CalmWatchdog
      BY <1>12, <1>4, <1>6 DEF WRecover
    <2> QED
      BY <1>1, <2>1, <2>2, <2>3, CalmStep DEF Calm
  <1>13. CASE WRecFence
    <2>1. CalmLate /\ KeptOrFenced
      BY <1>13, <1>1, <1>3, CalmCall, RequestType DEF WRecFence, Config,
         Blank, ReportRequest, FenceRequest, LeaseCall, Reads, Calls
    <2>2. CalmWorker
      <3>1. api' = api
        BY <1>13, <1>1, CalmCall, RequestType DEF WRecFence, Config,
           Blank, ReportRequest, FenceRequest, LeaseCall, Reads, Calls
      <3>2. CASE Defer
        BY <1>13, <1>8, <3>2 DEF WRecFence
      <3>3. CASE api.quar = worker.restart /\ wpc' = "recStop" /\ worker' = worker
        BY <1>13, <3>1, <3>3 DEF WRecFence, CalmWorker, Working, AfterChild
      <3> QED
        BY <1>13, <3>2, <3>3 DEF WRecFence, Goto
    <2>3. QuietTerminal /\ CalmWatchdog
      BY <1>13, <1>4, <1>6 DEF WRecFence
    <2> QED
      BY <1>1, <2>1, <2>2, <2>3, CalmStep DEF Calm
  <1>14. CASE WRecStop
    <2>1. CalmLate /\ KeptOrFenced
      BY <1>14, <1>3 DEF WRecStop
    <2>2. CalmWorker
      BY <1>14, <1>2, <1>8, <1>9 DEF WRecStop, Goto, CalmWorker, Working,
         AfterChild, Workers, WorkerPcs, Reconfigured, Snapshot, Status
    <2>3. QuietTerminal /\ CalmWatchdog
      BY <1>14, <1>4, <1>6 DEF WRecStop
    <2> QED
      BY <1>1, <2>1, <2>2, <2>3, CalmStep DEF Calm
  <1>15. CASE WRecStart
    <2>1. CalmLate /\ KeptOrFenced
      BY <1>15, <1>3 DEF WRecStart
    <2>2. CalmWorker
      BY <1>15, <1>2, <1>8, <1>9 DEF WRecStart, Goto, CalmWorker, Working,
         AfterChild, Workers, WorkerPcs, Reconfigured, Snapshot, Status
    <2>3. QuietTerminal /\ CalmWatchdog
      BY <1>15, <1>4, <1>6 DEF WRecStart
    <2> QED
      BY <1>1, <2>1, <2>2, <2>3, CalmStep DEF Calm
  <1>16. CASE WPrepared
    <2>1. CalmLate /\ KeptOrFenced
      BY <1>16, <1>3 DEF WPrepared
    <2>2. CalmWorker
      BY <1>16, <1>2, <1>8, <1>9 DEF WPrepared, Goto, CalmWorker, Working,
         AfterChild, Workers, WorkerPcs, Reconfigured, Snapshot, Status
    <2>3. QuietTerminal /\ CalmWatchdog
      BY <1>16, <1>4, <1>6 DEF WPrepared
    <2> QED
      BY <1>1, <2>1, <2>2, <2>3, CalmStep DEF Calm
  <1>17. CASE WSnapshot
    <2>1. CalmLate /\ KeptOrFenced
      BY <1>17, <1>3 DEF WSnapshot
    <2>2. CalmWorker
      BY <1>17, <1>2, <1>8, <1>9 DEF WSnapshot, Goto, CalmWorker, Working,
         AfterChild, Workers, WorkerPcs, Reconfigured, Snapshot, Status
    <2>3. QuietTerminal /\ CalmWatchdog
      BY <1>17, <1>4, <1>6 DEF WSnapshot
    <2> QED
      BY <1>1, <2>1, <2>2, <2>3, CalmStep DEF Calm
  <1>18. CASE WInspect
    <2>1. CalmLate /\ KeptOrFenced
      BY <1>18, <1>3 DEF WInspect
    <2>2. CalmWorker
      BY <1>18, <1>2, <1>8, <1>9 DEF WInspect, Goto, CalmWorker, Working,
         AfterChild, Workers, WorkerPcs, Reconfigured, Snapshot, Status
    <2>3. QuietTerminal /\ CalmWatchdog
      BY <1>18, <1>4, <1>6 DEF WInspect
    <2> QED
      BY <1>1, <2>1, <2>2, <2>3, CalmStep DEF Calm
  <1>19. CASE WInspectEnd
    <2>1. CalmLate /\ KeptOrFenced
      BY <1>19, <1>3 DEF WInspectEnd
    <2>2. CalmWorker
      BY <1>19, <1>2, <1>8, <1>9 DEF WInspectEnd, Goto, CalmWorker,
         Working, AfterChild, Workers, WorkerPcs, Reconfigured, Snapshot,
         Status
    <2>3. QuietTerminal /\ CalmWatchdog
      BY <1>19, <1>4, <1>6 DEF WInspectEnd
    <2> QED
      BY <1>1, <2>1, <2>2, <2>3, CalmStep DEF Calm
  <1>20. CASE WReport
    <2>1. CalmLate /\ KeptOrFenced
      BY <1>20, <1>1, <1>3, CalmCall, RequestType DEF WReport, Config,
         Blank, ReportRequest, FenceRequest, LeaseCall, Reads, Calls
    <2>2. CalmWorker
      <3>1. kids' \subseteq kids /\ UNCHANGED <<kids, generations>>
        BY <1>20 DEF WReport
      <3>2. CASE Reported
        <4>1. CASE worker.recovering
          <5> DEFINE w == [worker EXCEPT !.restart = 0, !.inspected = FALSE]
          <5>1. w \in Workers /\ w.cfgGen = worker.cfgGen /\ w.restart = 0 /\ Return(w)
            BY <1>2, <3>2, <4>1 DEF Reported, Workers
          <5> HIDE DEF w
          <5> QED
            BY <1>8, <3>1, <5>1
        <4>2. CASE ~worker.recovering
          <5>1. /\ [worker EXCEPT !.inspected = TRUE] \in Workers
                /\ [worker EXCEPT !.inspected = TRUE].cfgGen = worker.cfgGen
                /\ [worker EXCEPT !.inspected = TRUE].restart = worker.restart
            BY <1>2 DEF Workers
          <5>2. /\ [worker EXCEPT !.inspected = FALSE] \in Workers
                /\ [worker EXCEPT !.inspected = FALSE].cfgGen = worker.cfgGen
                /\ [worker EXCEPT !.inspected = FALSE].restart = worker.restart
            BY <1>2 DEF Workers
          <5>3. \/ Goto("once", [worker EXCEPT !.inspected = TRUE])
                \/ Goto("offline", worker)
                \/ Return([worker EXCEPT !.inspected = FALSE])
            BY <3>2, <4>2 DEF Reported
          <5>4. "once" \in WorkerPcs \ (Working \cup {"session", "recStop"})
                /\ "offline" \in WorkerPcs \ (Working \cup {"session", "recStop"})
            BY DEF WorkerPcs, Working
          <5> QED
            BY <1>2, <1>8, <1>9, <3>1, <5>1, <5>2, <5>3, <5>4
        <4> QED
          BY <4>1, <4>2
      <3> QED
        BY <1>20, <1>8, <3>1, <3>2 DEF WReport
    <2>3. QuietTerminal /\ CalmWatchdog
      BY <1>20, <1>4, <1>6 DEF WReport
    <2> QED
      BY <1>1, <2>1, <2>2, <2>3, CalmStep DEF Calm
  <1>21. CASE WOffline
    <2>1. CalmLate /\ KeptOrFenced
      BY <1>21, <1>3 DEF WOffline
    <2>2. CalmWorker
      BY <1>21, <1>2, <1>8, <1>9 DEF WOffline, Goto, CalmWorker, Working,
         AfterChild, Workers, WorkerPcs, Reconfigured, Snapshot, Status
    <2>3. QuietTerminal /\ CalmWatchdog
      BY <1>21, <1>4, <1>6 DEF WOffline
    <2> QED
      BY <1>1, <2>1, <2>2, <2>3, CalmStep DEF Calm
  <1>22. CASE WOnce
    <2>1. CalmLate /\ KeptOrFenced
      BY <1>22, <1>3 DEF WOnce
    <2>2. CalmWorker
      BY <1>22, <1>2, <1>8, <1>9 DEF WOnce, Goto, CalmWorker, Working,
         AfterChild, Workers, WorkerPcs, Reconfigured, Snapshot, Status
    <2>3. QuietTerminal /\ CalmWatchdog
      BY <1>22, <1>4, <1>6 DEF WOnce
    <2> QED
      BY <1>1, <2>1, <2>2, <2>3, CalmStep DEF Calm
  <1>51. CASE WChildOutlives
    <2>1. CalmLate /\ KeptOrFenced
      BY <1>51, <1>3 DEF WChildOutlives
    <2>2. CalmWorker
      BY <1>51, <1>2, <1>8, <1>9 DEF WChildOutlives, Goto, CalmWorker,
         Working, AfterChild, Workers, WorkerPcs, Reconfigured, Snapshot, Status
    <2>3. QuietTerminal /\ CalmWatchdog
      BY <1>51, <1>4, <1>6 DEF WChildOutlives
    <2> QED
      BY <1>1, <2>1, <2>2, <2>3, CalmStep DEF Calm
  <1>23. CASE WHeartbeat
    <2>1. CalmLate /\ KeptOrFenced
      BY <1>23, <1>1, <1>3, CalmCall, RequestType DEF WHeartbeat, Config,
         Blank, ReportRequest, FenceRequest, LeaseCall, Reads, Calls
    <2>2. CalmWorker
      BY <1>23, <1>2, <1>8, <1>9 DEF WHeartbeat, Goto, CalmWorker,
         Working, AfterChild, Workers, WorkerPcs, Reconfigured, Snapshot,
         Status
    <2>3. QuietTerminal /\ CalmWatchdog
      BY <1>23, <1>4, <1>6 DEF WHeartbeat
    <2> QED
      BY <1>1, <2>1, <2>2, <2>3, CalmStep DEF Calm
  <1>24. CASE WVerify
    <2>1. CalmLate /\ KeptOrFenced
      BY <1>24, <1>3 DEF WVerify
    <2>2. CalmWorker
      BY <1>24, <1>2, <1>8, <1>9 DEF WVerify, Goto, CalmWorker, Working,
         AfterChild, Workers, WorkerPcs, Reconfigured, Snapshot, Status
    <2>3. QuietTerminal /\ CalmWatchdog
      BY <1>24, <1>4, <1>6 DEF WVerify
    <2> QED
      BY <1>1, <2>1, <2>2, <2>3, CalmStep DEF Calm
  <1>25. CASE DPoll
    <2>1. CalmLate /\ KeptOrFenced
      BY <1>25, <1>1, <1>3, CalmCall, RequestType DEF DPoll, Config,
         Blank, ReportRequest, FenceRequest, LeaseCall, Reads, Calls
    <2>2. CalmWorker
      BY <1>25, <1>5 DEF DPoll
    <2>3. QuietTerminal /\ CalmWatchdog
      BY <1>25, <1>2, <1>6, <1>7 DEF DPoll, DGoto, CalmWatchdog, Watchdogs
    <2> QED
      BY <1>1, <2>1, <2>2, <2>3, CalmStep DEF Calm
  <1>26. CASE DLock
    <2>1. CalmLate /\ KeptOrFenced
      BY <1>26, <1>3 DEF DLock
    <2>2. CalmWorker
      BY <1>26, <1>5 DEF DLock
    <2>3. QuietTerminal /\ CalmWatchdog
      BY <1>26, <1>2, <1>6, <1>7 DEF DLock, DGoto, CalmWatchdog, Watchdogs
    <2> QED
      BY <1>1, <2>1, <2>2, <2>3, CalmStep DEF Calm
  <1>27. CASE DFenceCheck
    <2>1. CalmLate /\ KeptOrFenced
      BY <1>27, <1>1, <1>3, CalmCall, RequestType DEF DFenceCheck, Config,
         Blank, ReportRequest, FenceRequest, LeaseCall, Reads, Calls
    <2>2. CalmWorker
      BY <1>27, <1>5 DEF DFenceCheck
    <2>3. QuietTerminal /\ CalmWatchdog
      BY <1>27, <1>2, <1>6, <1>7 DEF DFenceCheck, DGoto, CalmWatchdog, Watchdogs
    <2> QED
      BY <1>1, <2>1, <2>2, <2>3, CalmStep DEF Calm
  <1>28. CASE DFenceCall
    <2>1. CalmLate /\ KeptOrFenced
      BY <1>28, <1>1, <1>3, CalmCall, RequestType DEF DFenceCall, Config,
         Blank, ReportRequest, FenceRequest, LeaseCall, Reads, Calls
    <2>2. CalmWorker
      BY <1>28, <1>5 DEF DFenceCall
    <2>3. QuietTerminal /\ CalmWatchdog
      BY <1>28, <1>2, <1>6, <1>7 DEF DFenceCall, DGoto, CalmWatchdog, Watchdogs
    <2> QED
      BY <1>1, <2>1, <2>2, <2>3, CalmStep DEF Calm
  <1>29. CASE DRecConfig
    <2>1. CalmLate /\ KeptOrFenced
      BY <1>29, <1>1, <1>3, CalmCall, RequestType DEF DRecConfig, Config,
         Blank, ReportRequest, FenceRequest, LeaseCall, Reads, Calls
    <2>2. CalmWorker
      BY <1>29, <1>5 DEF DRecConfig
    <2>3. QuietTerminal /\ CalmWatchdog
      BY <1>29, <1>2, <1>6, <1>7 DEF DRecConfig, DGoto, CalmWatchdog, Watchdogs
    <2> QED
      BY <1>1, <2>1, <2>2, <2>3, CalmStep DEF Calm
  <1>30. CASE DRecFence
    <2>1. CalmLate /\ KeptOrFenced
      BY <1>30, <1>1, <1>3, CalmCall, RequestType DEF DRecFence, Config,
         Blank, ReportRequest, FenceRequest, LeaseCall, Reads, Calls
    <2>2. CalmWorker
      BY <1>30, <1>5 DEF DRecFence
    <2>3. QuietTerminal /\ CalmWatchdog
      <3>1. api' = api
        BY <1>30, <1>1, CalmCall, RequestType DEF DRecFence, Config,
           Blank, ReportRequest, FenceRequest, LeaseCall, Reads, Calls
      <3> QED
        BY <1>30, <1>2, <1>6, <1>7, <3>1 DEF DRecFence, DGoto, CalmWatchdog
    <2> QED
      BY <1>1, <2>1, <2>2, <2>3, CalmStep DEF Calm
  <1>31. CASE DRecStop
    <2>1. CalmLate /\ KeptOrFenced
      BY <1>31, <1>3 DEF DRecStop
    <2>2. CalmWorker
      BY <1>31, <1>5 DEF DRecStop
    <2>3. QuietTerminal /\ CalmWatchdog
      BY <1>31, <1>2, <1>6, <1>7 DEF DRecStop, DGoto, CalmWatchdog, Watchdogs
    <2> QED
      BY <1>1, <2>1, <2>2, <2>3, CalmStep DEF Calm
  <1>32. CASE DRecStart
    <2>1. CalmLate /\ KeptOrFenced
      BY <1>32, <1>3 DEF DRecStart
    <2>2. CalmWorker
      BY <1>32, <1>5 DEF DRecStart
    <2>3. QuietTerminal /\ CalmWatchdog
      BY <1>32, <1>2, <1>6, <1>7 DEF DRecStart, DGoto, CalmWatchdog, Watchdogs
    <2> QED
      BY <1>1, <2>1, <2>2, <2>3, CalmStep DEF Calm
  <1>33. CASE DCrash
    <2>1. CalmLate /\ KeptOrFenced
      BY <1>33, <1>3 DEF DCrash
    <2>2. CalmWorker
      BY <1>33, <1>5 DEF DCrash
    <2>3. QuietTerminal /\ CalmWatchdog
      BY <1>33, <1>2, <1>6, <1>7 DEF DCrash, DGoto, CalmWatchdog, Watchdogs
    <2> QED
      BY <1>1, <2>1, <2>2, <2>3, CalmStep DEF Calm
  <1>34. CASE TerminalExits
    <2>1. CalmLate /\ KeptOrFenced
      BY <1>34, <1>3 DEF TerminalExits
    <2>2. CalmWorker
      BY <1>34, <1>5 DEF TerminalExits
    <2>3. QuietTerminal /\ CalmWatchdog
      BY <1>34, <1>4, <1>6 DEF TerminalExits, QuietTerminal
    <2> QED
      BY <1>1, <2>1, <2>2, <2>3, CalmStep DEF Calm
  <1>35. CASE TerminalAppears
    <2>1. CalmLate /\ KeptOrFenced
      BY <1>35, <1>3 DEF TerminalAppears
    <2>2. CalmWorker
      BY <1>35, <1>5 DEF TerminalAppears
    <2>3. QuietTerminal /\ CalmWatchdog
      BY <1>35, <1>4, <1>6 DEF TerminalAppears, QuietTerminal
    <2> QED
      BY <1>1, <2>1, <2>2, <2>3, CalmStep DEF Calm
  <1>36. CASE WCrash
    <2>1. CalmLate /\ KeptOrFenced
      BY <1>36, <1>3 DEF WCrash
    <2>2. CalmWorker
      BY <1>36, <1>2 DEF WCrash, NewWorker, CalmWorker, Working, AfterChild, Workers
    <2>3. QuietTerminal /\ CalmWatchdog
      BY <1>36, <1>4, <1>6 DEF WCrash, QuietTerminal
    <2> QED
      BY <1>1, <2>1, <2>2, <2>3, CalmStep DEF Calm
  <1>37. CASE ConfigAges
    <2>1. CalmLate /\ KeptOrFenced
      BY <1>37, <1>3 DEF ConfigAges
    <2>2. CalmWorker
      BY <1>37, <1>2 DEF ConfigAges, NewWorker, CalmWorker, Working,
         AfterChild, Workers
    <2>3. QuietTerminal /\ CalmWatchdog
      BY <1>37, <1>4, <1>6 DEF ConfigAges, QuietTerminal
    <2> QED
      BY <1>1, <2>1, <2>2, <2>3, CalmStep DEF Calm
  <1>38. CASE InspectionAges
    <2>1. CalmLate /\ KeptOrFenced
      BY <1>38, <1>3 DEF InspectionAges
    <2>2. CalmWorker
      BY <1>38, <1>2 DEF InspectionAges, NewWorker, CalmWorker, Working,
         AfterChild, Workers
    <2>3. QuietTerminal /\ CalmWatchdog
      BY <1>38, <1>4, <1>6 DEF InspectionAges, QuietTerminal
    <2> QED
      BY <1>1, <2>1, <2>2, <2>3, CalmStep DEF Calm
  <1>39. CASE OrphanEnds
    <2>1. CalmLate /\ KeptOrFenced
      BY <1>39, <1>3 DEF OrphanEnds
    <2>2. CalmWorker
      BY <1>39, <1>2 DEF OrphanEnds, NewWorker, CalmWorker, Working,
         AfterChild, Workers
    <2>3. QuietTerminal /\ CalmWatchdog
      BY <1>39, <1>4, <1>6 DEF OrphanEnds, QuietTerminal
    <2> QED
      BY <1>1, <2>1, <2>2, <2>3, CalmStep DEF Calm
  <1>40. CASE UNCHANGED vars
    <2>1. CalmLate /\ KeptOrFenced
      BY <1>40, <1>3 DEF vars
    <2>2. CalmWorker
      BY <1>40, <1>5 DEF vars
    <2>3. QuietTerminal /\ CalmWatchdog
      BY <1>40, <1>4, <1>6 DEF vars
    <2> QED
      BY <1>1, <2>1, <2>2, <2>3, CalmStep DEF Calm
  <1>41. CASE WSession
    <2> DEFINE r == SessionRequest
    <2>1. /\ r \in Requests /\ wpc = "session" /\ generations' = generations + 1
          /\ UNCHANGED <<proc, launched, kids, dvars>>
      BY <1>41, <1>1, RequestType DEF WSession
    <2>2. /\ r.op = "session" /\ r.gen = generations + 1 /\ r.proc = worker.snap
          /\ r.expected \in {worker.sessGen, worker.cfgGen}
      BY DEF SessionRequest, Blank
    <2>3. /\ wpc' \in {"report", "idle"}
          /\ worker'.cfgGen = worker.cfgGen /\ worker'.restart = worker.restart
      BY <1>41, <1>2 DEF WSession, Goto, Defer, Return, Workers
    <2>4. \/ OpenedFor(r) /\ late' = late
          \/ UNCHANGED api /\ (late' = late \/ late' = late \cup {r})
      <3>1. CASE Process(r) /\ late' = late
        BY <1>1, <2>1, <2>2, <3>1, RowEffect
      <3>2. CASE UNCHANGED <<api, collected>> /\ (late' = late \/ late' = late \cup {r})
        BY <3>2
      <3> QED
        BY <1>41, <3>1, <3>2 DEF WSession, Answered, Unanswered
    <2> HIDE DEF r
    <2>5. wpc' \notin Working \cup {"session", "recStop"}
      BY <2>3 DEF Working
    <2> QED
      BY <1>1, <2>1, <2>2, <2>3, <2>4, <2>5, OwnSession
  <1>42. CASE WClaim
    <2> DEFINE r == ClaimRequest
    <2>1. r \in Requests /\ r.op = "claim"
      BY <1>1, RequestType DEF ClaimRequest, Blank
    <2>2. CalmLate /\ (KeptOrFenced \/ Claimed)
      <3>1. CalmLate
        BY <1>42, <2>1 DEF WClaim, CalmLate, Answered, Unanswered
      <3>2. CASE Process(r)
        BY <1>1, <2>1, <3>1, <3>2, RowEffect DEF KeptOrFenced, Kept
      <3>3. CASE UNCHANGED api
        BY <3>1, <3>3 DEF KeptOrFenced, Kept
      <3> QED
        BY <1>42, <3>1, <3>2, <3>3 DEF WClaim, Answered, Unanswered
    <2>3. CalmWorker
      <3>1. CASE Goto("credentials", [worker EXCEPT !.lease = api.fence + 1])
        BY <1>42, <1>2, <3>1 DEF WClaim, Goto, CalmWorker, Working,
           AfterChild, Workers
      <3> QED
        BY <1>42, <1>2, <1>8, <3>1 DEF WClaim
    <2>4. QuietTerminal /\ CalmWatchdog
      BY <1>42, <1>4, <1>6 DEF WClaim
    <2> QED
      BY <1>1, <2>2, <2>3, <2>4, CalmStep DEF Calm
  <1>43. CASE WCredentials
    <2> DEFINE r == LeaseCall("credentials")
               n == [lease |-> worker.lease, proc |-> worker.id, saw |-> {}]
    <2>1. r \in Requests /\ r.op = "credentials" /\ r.lease = worker.lease
      <3>1. r \in Requests
        BY <1>1, RequestType DEF Calls
      <3> QED
        BY <3>1, <1>2 DEF LeaseCall, Blank
    <2>2. CalmLate /\ KeptOrFenced /\ api' = api
      BY <1>43, <1>1, <2>1, CalmCall DEF WCredentials, Reads
    <2>3. QuietTerminal /\ CalmWatchdog /\ UNCHANGED generations /\ wpc = "credentials"
      BY <1>43, <1>4, <1>6 DEF WCredentials
    <2>4. CASE Defer /\ UNCHANGED kids
      BY <1>1, <1>8, <2>2, <2>3, <2>4, CalmStep DEF Calm
    <2>5. CASE Accepts(r) /\ kids' = kids \cup {n} /\ Goto("child", worker)
      <3>1. /\ worker' = worker /\ wpc' = "child" /\ kids' = kids \cup {n}
            /\ n.lease = worker.lease /\ n.proc = worker.id
            /\ UNCHANGED <<proc, launched, dvars>>
        BY <1>43, <2>5 DEF WCredentials, Goto
      <3>2. api.lease = worker.lease /\ worker.lease # 0
        BY <2>1, <2>5 DEF Accepts, LeaseValid
      <3>3. /\ worker.id # 0 /\ worker.sessGen = api.gen /\ api.leaseProc = worker.id
            /\ \A x \in late : x.op \in {"complete", "fail"} => x.lease # worker.lease
            /\ \A k \in kids : k.lease # worker.lease
        <4>1. r.gen = worker.sessGen
          BY <1>2 DEF LeaseCall, Blank
        <4>2. worker.sessGen = api.gen
          BY <2>1, <2>5, <4>1 DEF Accepts, LeaseValid
        <4> QED
          BY <2>3, <3>2, <4>2 DEF IInv, LeaseOwned, ReadFromOne, Working, Leased
      <3> HIDE DEF n, r
      <3>4. \A k \in kids : k.proc # worker.id
        <4> SUFFICES ASSUME NEW k \in kids, k.proc = worker.id PROVE FALSE
          OBVIOUS
        <4>1. \/ api.lease = k.lease
              \/ api.quar = k.proc /\ k.proc # 0
              \/ worker.sessGen # api.gen
          BY <2>3 DEF JInv, ChildrenBound, Superseded, Working
        <4> QED
          BY <1>1, <3>2, <3>3, <4>1 DEF LeasesUnique
      <3>5. \A x \in late' : x \in late \/ x.op \notin {"session", "complete", "fail"}
        BY <2>2, <2>3 DEF CalmLate, AfterChild
      <3>6. GenerationsUnique' /\ IdentitiesOrdered' /\ FenceIsRegistered' /\ StopIsFenced'
        BY <2>2, <2>3, <3>1, <3>5 DEF JInv, GenerationsUnique, IdentitiesOrdered,
           FenceIsRegistered, StopIsFenced
      <3>7. ChildrenBound'
        <4>1. ASSUME NEW k \in kids
              PROVE  /\ k.proc # 0 /\ k.lease # 0
                     /\ \A x \in late' : x.op \in {"complete", "fail"} => x.lease # k.lease
                     /\ \/ api'.lease = k.lease /\ api'.leaseProc = k.proc
                        \/ api'.quar = k.proc
                        \/ Superseded(k)'
          BY <2>2, <2>3, <3>1, <3>5 DEF JInv, ChildrenBound, Superseded, Working
        <4>2. \A x \in late' : x.op \in {"complete", "fail"} => x.lease # n.lease
          BY <3>1, <3>3, <3>5
        <4> QED
          BY <2>2, <3>1, <3>2, <3>3, <4>1, <4>2 DEF ChildrenBound, AfterChild
      <3>8. OneChildPerProcess'
        BY <3>1, <3>4 DEF JInv, OneChildPerProcess
      <3> QED
        BY <3>6, <3>7, <3>8 DEF JInv
    <2> QED
      BY <1>43, <2>4, <2>5 DEF WCredentials
  <1>44. CASE ChildReads
    <2>1. PICK k \in kids : kids' = (kids \ {k}) \cup {[k EXCEPT !.saw = @ \cup {proc}]}
      BY <1>44 DEF ChildReads
    <2> DEFINE n == [k EXCEPT !.saw = @ \cup {proc}]
    <2>2. n.lease = k.lease /\ n.proc = k.proc /\ kids' = (kids \ {k}) \cup {n}
      BY <1>1, <2>1 DEF TypeOK, Children
    <2>3. UNCHANGED <<proc, launched, api, late, generations, wpc, worker, dpc, watchdog>>
      BY <1>44 DEF ChildReads
    <2> HIDE DEF n
    <2>4. GenerationsUnique' /\ IdentitiesOrdered' /\ FenceIsRegistered' /\ StopIsFenced'
      BY <2>3 DEF JInv, GenerationsUnique, IdentitiesOrdered,
         FenceIsRegistered, StopIsFenced
    <2>5. ChildrenBound'
      BY <2>2, <2>3 DEF JInv, ChildrenBound, Superseded
    <2>6. OneChildPerProcess'
      BY <2>2 DEF JInv, OneChildPerProcess
    <2> QED
      BY <2>4, <2>5, <2>6 DEF JInv
  <1>45. CASE WChildEnds
    <2>1. PICK k \in kids : /\ Owned(k) /\ kids' = kids \ {k}
                            /\ \/ Goto("verify", [worker EXCEPT !.saw = k.saw])
                               \/ \E q \in BOOLEAN : Goto("fail", [worker EXCEPT !.quarantines = q])
      BY <1>45 DEF WChildEnds
    <2>2. /\ wpc' \in {"verify", "fail"} /\ worker'.cfgGen = worker.cfgGen
          /\ worker'.restart = worker.restart /\ worker'.id = worker.id
          /\ worker'.sessGen = worker.sessGen /\ worker'.lease = worker.lease
      BY <1>2, <2>1 DEF Goto, Workers
    <2>3. wpc = "child" /\ UNCHANGED generations
      BY <1>45 DEF WChildEnds
    <2>4. \A j \in kids' : j.lease # worker.lease
      <3>1. \A j \in kids : j.lease = worker.lease => j.proc = worker.id
        BY <2>3 DEF IInv, LeaseOwned
      <3> QED
        BY <2>1, <3>1 DEF JInv, OneChildPerProcess, Owned
    <2>5. CalmWorker
      BY <2>1, <2>2, <2>3, <2>4 DEF CalmWorker, Working, AfterChild
    <2>6. CalmLate /\ KeptOrFenced /\ QuietTerminal /\ CalmWatchdog
      BY <1>45, <1>3, <1>4, <1>6 DEF WChildEnds
    <2> QED
      BY <1>1, <2>5, <2>6, CalmStep DEF Calm
  <1>46. ASSUME NEW op \in {"complete", "fail"}, wpc \in AfterChild,
              Answered(LeaseCall(op)) \/ Unanswered(LeaseCall(op))
       PROVE  CalmLate /\ (KeptOrFenced \/ LeaseOver)
    <2> DEFINE r == LeaseCall(op)
    <2>1. r \in Requests /\ r.op = op /\ r.lease = worker.lease
      <3>1. r \in Requests
        BY <1>1, RequestType DEF Calls
      <3> QED
        BY <3>1, <1>2 DEF LeaseCall, Blank
    <2>2. Answered(r) \/ Unanswered(r)
      BY <1>46
    <2> HIDE DEF r
    <2>3. CalmLate
      BY <2>1, <2>2, <1>46 DEF CalmLate, Answered, Unanswered
    <2>4. CASE Process(r)
      <3>1. api' = api \/ /\ api'.gen = api.gen /\ api'.reg = api.reg /\ api.lease # 0
                          /\ api'.lease = 0 /\ r.lease = api.lease
                          /\ api'.quar \in {0, api.leaseProc}
        BY <1>1, <2>1, <2>4, <1>46, RowEffect
      <3>2. \A k \in kids : k.lease # worker.lease
        BY <1>46 DEF JInv, ChildrenBound
      <3> QED
        BY <2>1, <2>3, <3>1, <3>2 DEF KeptOrFenced, Kept, LeaseOver
    <2>5. CASE UNCHANGED api
      BY <2>3, <2>5 DEF KeptOrFenced, Kept
    <2> QED
      BY <2>2, <2>4, <2>5 DEF Answered, Unanswered
  <1>47. CASE WComplete
    <2>1. CalmLate /\ (KeptOrFenced \/ LeaseOver)
      BY <1>47, <1>46 DEF WComplete, AfterChild
    <2>2. CalmWorker
      BY <1>47, <1>2, <1>8 DEF WComplete
    <2>3. QuietTerminal /\ CalmWatchdog
      BY <1>47, <1>4, <1>6 DEF WComplete
    <2> QED
      BY <1>1, <2>1, <2>2, <2>3, CalmStep DEF Calm
  <1>48. CASE WFail
    <2>1. CalmLate /\ (KeptOrFenced \/ LeaseOver)
      BY <1>48, <1>46 DEF WFail, AfterChild
    <2>2. CalmWorker
      <3> DEFINE w == [worker EXCEPT !.restart = worker.id, !.connected = FALSE,
                                     !.inspected = FALSE]
      <3>1. w \in Workers /\ w.cfgGen = worker.cfgGen /\ w.restart = worker.id
        BY <1>2 DEF Workers
      <3>2. Return(w) \/ Return(worker) \/ Defer
        BY <1>48 DEF WFail
      <3>3. wpc \in Working /\ kids' \subseteq kids /\ UNCHANGED generations
        BY <1>48 DEF WFail, Working
      <3> HIDE DEF w
      <3> QED
        BY <1>2, <1>8, <3>1, <3>2, <3>3
    <2>3. QuietTerminal /\ CalmWatchdog
      BY <1>48, <1>4, <1>6 DEF WFail
    <2> QED
      BY <1>1, <2>1, <2>2, <2>3, CalmStep DEF Calm
  <1>49. CASE LateDelivery
    <2>1. PICK r \in late : Process(r) /\ late' = late \ {r}
      BY <1>49 DEF LateDelivery
    <2>2. /\ UNCHANGED <<proc, launched, kids, generations, wvars, dvars>> /\ r \in Requests
          /\ CalmLate /\ CalmWorker /\ CalmWatchdog /\ QuietTerminal
      BY <1>49, <1>1, <1>4, <1>5, <1>6, <2>1 DEF LateDelivery, TypeOK, CalmLate
    <2>3. CASE Accepts(r) /\ r.op = "session"
      BY <1>1, <2>1, <2>2, <2>3, RowEffect, LateSession
    <2>4. CASE Accepts(r) /\ r.op = "claim"
      BY <1>1, <2>1, <2>2, <2>4, RowEffect, CalmStep DEF Calm
    <2>5. CASE Accepts(r) /\ r.op \in {"complete", "fail"}
      <3>1. /\ api'.gen = api.gen /\ api'.reg = api.reg /\ api.lease # 0
            /\ api'.lease = 0 /\ r.lease = api.lease
            /\ api'.quar \in {0, api.leaseProc}
        BY <1>1, <2>1, <2>2, <2>5, RowEffect
      <3>2. \A k \in kids : k.lease # r.lease
        BY <2>5 DEF JInv, ChildrenBound
      <3>3. LeaseOver
        BY <3>1, <3>2 DEF LeaseOver
      <3> QED
        BY <1>1, <2>2, <3>3, CalmStep DEF Calm
    <2>6. CASE ~Accepts(r) \/ r.op \notin {"session", "claim", "complete", "fail"}
      <3>1. r.op \in Reads \cup {"report", "prepare", "session", "claim", "complete", "fail"}
        BY <2>2 DEF Requests, Calls, Reads
      <3>2. KeptOrFenced
        BY <1>1, <2>1, <2>2, <2>6, <3>1, RowEffect DEF KeptOrFenced, Kept
      <3> QED
        BY <1>1, <2>2, <3>2, CalmStep DEF Calm
    <2> QED
      BY <2>3, <2>4, <2>5, <2>6
  <1>50. CASE LeaseExpires
    <2>1. LeaseOver
      <3>1. api' = [[api EXCEPT !.lease = 0, !.leaseGen = 0, !.leaseProc = 0]
                      EXCEPT !.quar = api.leaseProc] /\ api.lease # 0
        BY <1>50 DEF LeaseExpires, Unleased
      <3> QED
        BY <1>2, <3>1 DEF LeaseOver, Rows
    <2>2. CalmLate /\ CalmWorker /\ QuietTerminal /\ CalmWatchdog
      BY <1>50, <1>4, <1>5, <1>6 DEF LeaseExpires, CalmLate
    <2> QED
      BY <1>1, <2>1, <2>2, CalmStep DEF Calm
  <1> QED
    BY <1>10, <1>11, <1>12, <1>13, <1>14, <1>15, <1>16, <1>17, <1>18, <1>19,
       <1>20, <1>21, <1>22, <1>23, <1>24, <1>25, <1>26, <1>27, <1>28, <1>29,
       <1>30, <1>31, <1>32, <1>33, <1>34, <1>35, <1>36, <1>37, <1>38, <1>39,
       <1>40, <1>41, <1>42, <1>43, <1>44, <1>45, <1>46, <1>47, <1>48, <1>49,
       <1>50, <1>51 DEF Next, WorkerStep, WatchdogStep,
       Environment

LEMMA InitJInv == Init => JInv
  <1> SUFFICES ASSUME Init PROVE JInv
    OBVIOUS
  <1>1. /\ kids = {} /\ late = {} /\ generations = 0
        /\ api.gen = 0 /\ api.reg = 0 /\ api.quar = 0 /\ api.lease = 0
        /\ wpc = "idle" /\ dpc = "idle" /\ worker.cfgGen = 0 /\ worker.restart = 0
        /\ watchdog.quar = 0 /\ proc \in {0, 1} /\ launched = proc
    BY DEF Init, NewWorker, NewWatchdog
  <1> QED
    BY <1>1 DEF JInv, GenerationsUnique, IdentitiesOrdered, FenceIsRegistered,
       StopIsFenced, ChildrenBound, OneChildPerProcess

LEMMA JInvariance == Spec => [](IInv /\ JInv)
  BY InitIInv, NextIInv, InitJInv, NextJInv, PTL DEF Spec

\* No process ever has two children, whoever crashed and whatever was lost: the
\* orphan's lease has to end first, and its end fences the process.
THEOREM ChildrenApart == Spec => []OneChildPerProcess
  <1>1. JInv => OneChildPerProcess
    BY DEF JInv
  <1> QED
    BY <1>1, JInvariance, PTL

\* A kill, by the worker or the watchdog, hits the process the API fences at
\* that moment, without a lease and without a watched child, although the check
\* and the kill of stop_fenced_terminal are two steps and late sessions arrive
\* in between (server_preparation.py).
THEOREM KillsFencedOnly == Spec => OnlyFencedKilled
  <1>1. IInv /\ JInv /\ [Next]_vars =>
          [\A p \in 1 .. MaxProcesses : Kills(p) =>
              /\ api.quar = p
              /\ api.lease = 0
              /\ \A k \in kids : ~Owned(k)]_vars
    <2> SUFFICES ASSUME IInv, JInv, NEW p \in 1 .. MaxProcesses, Kills(p)
                 PROVE  /\ api.quar = p /\ api.lease = 0
                        /\ \A k \in kids : ~Owned(k)
      OBVIOUS
    <2>1. proc = p /\ p # 0 /\ proc' # proc
      BY DEF Kills
    <2>2. CASE WRecStop
      <3>1. wpc = "recStop" /\ proc = worker.restart
        BY <2>1, <2>2 DEF WRecStop, StopTarget, terminal
      <3> QED
        BY <2>1, <3>1 DEF IInv, LeasesUnique, JInv, StopIsFenced, Owned
    <2>3. CASE DRecStop
      <3>1. dpc = "recStop" /\ proc = watchdog.quar
        BY <2>1, <2>3 DEF DRecStop, StopTarget, terminal
      <3>2. api.quar = p /\ api.lease = 0
        BY <2>1, <3>1 DEF IInv, LeasesUnique, JInv, StopIsFenced
      <3>3. wpc # "child"
        BY <3>2 DEF IInv, LeaseOwned, Working
      <3> QED
        BY <3>2, <3>3 DEF Owned
    <2> QED
      BY <2>2, <2>3 DEF Kills
  <1> QED
    BY <1>1, JInvariance, PTL DEF Spec, OnlyFencedKilled

\* The worker drops its restart intent only where the API no longer fences the
\* process, or by crashing (prepare_inventory, connect).
THEOREM IntentSurvives == Spec => IntentKept
  <1>1. ASSUME IInv, TypeOK, [Next]_vars, worker.restart # 0, worker'.restart = 0
        PROVE  api'.quar = 0 \/ crashes' < crashes
    <2>1. worker \in Workers
      BY <1>1 DEF TypeOK
    <2>2. ASSUME NEW w \in Workers, Return(w) PROVE worker'.restart = w.restart
      BY <2>2 DEF Return, Workers
    <2>3. ~Defer
      <3>1. /\ [worker EXCEPT !.connected = FALSE, !.inspected = FALSE] \in Workers
            /\ [worker EXCEPT !.connected = FALSE, !.inspected = FALSE].restart = worker.restart
        BY <2>1 DEF Workers
      <3> QED
        BY <1>1, <2>2, <3>1 DEF Defer
    <2>4. ~Return(worker) /\ ~Return([worker EXCEPT !.inspected = FALSE])
      <3>1. /\ [worker EXCEPT !.inspected = FALSE] \in Workers
            /\ [worker EXCEPT !.inspected = FALSE].restart = worker.restart
        BY <2>1 DEF Workers
      <3> QED
        BY <1>1, <2>1, <2>2, <3>1
    <2>5. ASSUME NEW q, Snapshot(q, "OFFLINE") \/ (\E st \in Status : Snapshot(q, st)) PROVE FALSE
      BY <1>1, <2>1, <2>5 DEF Snapshot, Workers
    <2>6. ASSUME UNCHANGED worker PROVE FALSE
      BY <1>1, <2>6
    <2>7. CASE WDispatch
      <3>1. api' = api
        BY <1>1, <2>3, <2>7, CalmCall, RequestType DEF WDispatch, Goto, IInv, Config, Blank,
           Reads, Calls
      <3>2. worker' = Reconfigured
        BY <2>3, <2>6, <2>7 DEF WDispatch, Goto
      <3> QED
        BY <1>1, <2>1, <3>1, <3>2 DEF Reconfigured, Workers
    <2>8. CASE WRefresh \/ WPrepared \/ WCredentials \/ WChildOutlives \/ WHeartbeat \/ WVerify
      BY <1>1, <2>1, <2>3, <2>6, <2>8 DEF WRefresh, WPrepared, WCredentials, WChildOutlives,
         WHeartbeat, WVerify, Goto, Workers
    <2>9. CASE WRecover \/ WRecFence \/ WRecStop \/ WRecStart \/ WOffline \/ WOnce
      BY <1>1, <2>1, <2>3, <2>4, <2>9 DEF WRecover, WRecFence, WRecStop, WRecStart, WOffline,
         WOnce, Goto, Workers
    <2>10. CASE WSnapshot \/ WInspect \/ WInspectEnd
      BY <1>1, <2>1, <2>5, <2>10 DEF WSnapshot, WInspect, WInspectEnd, Workers, Status
    <2>11. CASE WSession \/ WClaim \/ WChildEnds \/ WComplete
      BY <1>1, <2>1, <2>3, <2>4, <2>11 DEF WSession, WClaim, WChildEnds, WComplete, Goto, Workers
    <2>12. CASE WReport
      <3> DEFINE r == ReportRequest
      <3>1. r \in Requests /\ r.op = "report"
        BY <1>1, RequestType DEF ReportRequest, Blank
      <3>2. Answered(r) /\ Accepts(r) /\ Reported
        BY <2>3, <2>12 DEF WReport
      <3>3. api.quar = 0 /\ api' = [api EXCEPT !.status = r.status]
        BY <3>1, <3>2 DEF Answered, Process, Accepts, After
      <3> HIDE DEF r
      <3> QED
        BY <1>1, <3>3 DEF TypeOK, Rows
    <2>13. CASE WFail
      <3> DEFINE w == [worker EXCEPT !.restart = worker.id, !.connected = FALSE,
                                     !.inspected = FALSE]
      <3>1. w \in Workers /\ w.restart = worker.id
        BY <2>1 DEF Workers
      <3>2. Return(w) /\ wpc = "fail"
        BY <2>3, <2>4, <2>13 DEF WFail
      <3> HIDE DEF w
      <3> QED
        BY <1>1, <2>2, <3>1, <3>2 DEF IInv, ReadFromOne, Working
    <2>14. CASE WCrash
      BY <1>1, <2>14 DEF WCrash, TypeOK
    <2>15. CASE ConfigAges \/ InspectionAges
      BY <1>1, <2>1, <2>15 DEF ConfigAges, InspectionAges, Workers
    <2>16. CASE WatchdogStep \/ LateDelivery \/ LeaseExpires \/ DCrash \/ TerminalExits
                \/ TerminalAppears \/ ChildReads \/ OrphanEnds \/ UNCHANGED vars
      BY <2>6, <2>16 DEF WatchdogStep, DPoll, DLock, DFenceCheck, DFenceCall, DRecConfig,
         DRecFence, DRecStop, DRecStart, LateDelivery, LeaseExpires, DCrash, TerminalExits,
         TerminalAppears, ChildReads, OrphanEnds, wvars, vars
    <2> QED
      BY <1>1, <2>7, <2>8, <2>9, <2>10, <2>11, <2>12, <2>13, <2>14, <2>15, <2>16
         DEF Next, WorkerStep, Environment
  <1>2. IInv /\ TypeOK /\ [Next]_vars =>
          [worker.restart # 0 /\ worker'.restart = 0 =>
              api'.quar = 0 \/ crashes' < crashes]_vars
    BY <1>1
  <1> QED
    BY <1>2, TypeCorrect, Invariance, PTL DEF Spec, IntentKept
===============================================================================
