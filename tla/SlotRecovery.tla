----------------------------- MODULE SlotRecovery -----------------------------
(***************************************************************************)
(* One managed MT5 terminal slot, and the three parties that act on it: the *)
(* controller's SlotWorker (app/collector/worker.py), the independent       *)
(* watchdog (scripts/watch_mt5_health.py, quarantine_recovery.py,           *)
(* ui_recovery.py) and the Nest API that owns sessions, leases and the      *)
(* quarantine.  Processes are identified by pid:creation-time, so a         *)
(* relaunched terminal is a new number; 0 is "no process".                  *)
(*                                                                          *)
(* Every HTTP call is one step at the moment the API processes it; what the *)
(* caller read before it, and what it does after it, are other steps.  The  *)
(* API itself is not in this repository: its handlers are the operators     *)
(* Accepts and After, taken from how the callers use it.                    *)
(***************************************************************************)
EXTENDS Naturals, FiniteSets

CONSTANTS
    MaxProcesses,    \* bound: terminal processes ever launched
    MaxGenerations,  \* bound: session generations (uuid4) ever proposed
    MaxLeases,       \* bound: jobs the queue hands out
    MaxFaults,       \* bound: calls that fail without a definite answer
    MaxCrashes,      \* bound: crashes of the worker or the watchdog
    FaultyCalls      \* operations whose answer may be lost

Calls == {"config", "session", "report", "claim", "credentials",
          "heartbeat", "complete", "fail", "prepare"}

Reads == {"config", "credentials", "heartbeat"}   \* change nothing at the API

ASSUME BoundsAssumption ==
    /\ MaxProcesses \in Nat \ {0} /\ MaxGenerations \in Nat /\ MaxLeases \in Nat
    /\ MaxFaults \in Nat /\ MaxCrashes \in Nat /\ FaultyCalls \subseteq Calls

VARIABLES
    proc,         \* identity of the live terminal process, 0 if none
    launched,     \* identities used so far
    lock,         \* owner of the slot's named mutex
    kids,         \* native children attached to the slot
    api,          \* the API's row for this slot
    late,         \* requests their caller gave up on, still on their way
    collected,    \* results the API committed
    generations,  \* session uuids proposed so far
    wpc, worker,  \* the SlotWorker: where it is, and its fields
    dpc, watchdog,\* the watchdog: where it is, and what it read
    faults, crashes

vars == <<proc, launched, lock, kids, api, late, collected, generations,
          wpc, worker, dpc, watchdog, faults, crashes>>

terminal == <<proc, launched>>
remote   == <<api, late, collected>>
wvars    == <<wpc, worker>>
dvars    == <<dpc, watchdog>>

Status == {"STARTING", "ERROR", "UI_ERROR", "OFFLINE"}

WorkerPcs == {"idle", "prepare", "recFence", "recStop", "recStart", "snapshot",
              "ui", "session", "report", "offline", "once", "claim",
              "credentials", "child", "verify", "fail", "complete"}

WatchdogPcs == {"idle", "fence", "fenceCheck", "fenceCall", "recover",
                "recConfig", "recFence", "recStop", "recStart"}

(***************************************************************************)
(* The API (external).                                                     *)
(***************************************************************************)
Blank == [op |-> "config", gen |-> 0, expected |-> 0, proc |-> 0, lease |-> 0,
          status |-> "OFFLINE", quarantines |-> FALSE, saw |-> {}]

\* A lease is the caller's only while it is the active one of the generation
\* the caller still speaks for.
LeaseValid(r) == /\ api.lease # 0
                 /\ r.lease = api.lease
                 /\ r.gen = api.gen
                 /\ r.gen = api.leaseGen

Accepts(r) ==
    \/ /\ r.op = "session"
       /\ r.expected = api.gen
       /\ api.quar # 0 => r.proc # 0
       /\ api.lease # 0 => r.proc = api.reg
    \/ /\ r.op = "report"
       /\ r.gen = api.gen
       /\ api.quar = 0
    \/ /\ r.op = "claim"
       /\ r.gen = api.gen
       /\ api.quar = 0 /\ api.lease = 0 /\ api.status = "STARTING"
       /\ api.fence < MaxLeases
    \/ /\ r.op \in {"credentials", "heartbeat", "complete", "fail"}
       /\ LeaseValid(r)
    \/ /\ r.op = "prepare"
       /\ r.gen = api.gen
       /\ api.lease = 0 /\ api.quar = 0

Unleased(a) == [a EXCEPT !.lease = 0, !.leaseGen = 0, !.leaseProc = 0]

After(r) ==
    CASE r.op = "session" ->
           [api EXCEPT !.gen = r.gen, !.reg = r.proc, !.status = "OFFLINE",
                       !.quar = IF r.proc = api.quar THEN api.quar ELSE 0]
      [] r.op = "report" -> [api EXCEPT !.status = r.status]
      [] r.op = "claim" ->
           [api EXCEPT !.fence = @ + 1, !.lease = api.fence + 1,
                       !.leaseGen = r.gen, !.leaseProc = api.reg]
      [] r.op = "complete" -> Unleased(api)
      [] r.op = "fail" ->
           [Unleased(api) EXCEPT !.quar = IF r.quarantines THEN api.leaseProc ELSE 0]
      [] r.op = "prepare" -> [api EXCEPT !.quar = api.reg]
      [] OTHER -> api

Process(r) ==
    /\ api' = IF Accepts(r) THEN After(r) ELSE api
    /\ collected' = IF r.op = "complete" /\ Accepts(r)
                    THEN collected \cup {[proc |-> api.leaseProc, saw |-> r.saw]}
                    ELSE collected

\* The caller receives the API's answer, an acceptance or a refusal.
Answered(r) == Process(r) /\ UNCHANGED <<late, faults>>

\* Every attempt of the call failed: the request was processed without the
\* answer arriving, or it is still under way and may be processed later.
Unanswered(r) ==
    /\ r.op \in FaultyCalls /\ faults > 0
    /\ faults' = faults - 1
    /\ \/ Process(r) /\ UNCHANGED late
       \/ /\ late' = IF r.op \in Reads THEN late ELSE late \cup {r}
          /\ UNCHANGED <<api, collected>>

LateDelivery ==
    /\ \E r \in late : Process(r) /\ late' = late \ {r}
    /\ UNCHANGED <<terminal, lock, kids, generations, wvars, dvars, faults, crashes>>

\* The worker kills its child 35 s before the lease ends, so a lease never
\* expires under a child the worker still watches; anything else may.  It reads
\* what remains of the lease off the host's clock (worker.py:180), which is taken
\* to agree with the API's within those seconds.
Owned(k) == wpc = "child" /\ k.lease = worker.lease

LeaseExpires ==
    /\ api.lease # 0
    /\ \A k \in kids : ~Owned(k)
    /\ api' = [Unleased(api) EXCEPT !.quar = api.leaseProc]
    /\ UNCHANGED <<terminal, lock, kids, late, collected, generations,
                   wvars, dvars, faults, crashes>>

(***************************************************************************)
(* Steps shared by the worker and the watchdog.                            *)
(***************************************************************************)
Released(a) == IF lock = a THEN "free" ELSE lock

\* Mutant: an abandoned or a held mutex is taken over.
AcquireAlways(a) == lock' = a

\* inventory_lock never waits: a mutex held elsewhere is SLOT_BUSY.
Acquire(a) == lock = "free" /\ lock' = a
Busy == lock # "free"

\* Mutant: the kill trusts the path.
StopAnything(identity) == TRUE

\* stop_fenced_terminal after its /config check: nothing to stop, or the
\* fenced process itself, pinned by a handle and killed.
StopTarget(identity) == proc \in {0, identity}
Terminate == proc' = 0 /\ UNCHANGED launched

\* Mutant: identities are handed out beyond the bound.
LaunchUnbounded == proc = 0 /\ proc' = launched + 1 /\ launched' = launched + 1

Launch == /\ proc = 0 /\ launched < MaxProcesses
          /\ proc' = launched + 1
          /\ launched' = launched + 1

(***************************************************************************)
(* The worker.                                                             *)
(***************************************************************************)
NewWorker == [connected |-> FALSE, inspected |-> FALSE, refreshDue |-> TRUE,
              cfgGen |-> 0, sessGen |-> 0, sessProc |-> 0, restart |-> 0,
              id |-> 0, snap |-> 0, status |-> "OFFLINE", recovering |-> FALSE,
              lease |-> 0, saw |-> {}, quarantines |-> FALSE]

\* Leaving prepare_inventory or once: locals are gone, the mutex is released.
Return(w) ==
    /\ wpc' = "idle"
    /\ worker' = [w EXCEPT !.id = 0, !.snap = 0, !.status = "OFFLINE",
                           !.recovering = FALSE, !.lease = 0, !.saw = {},
                           !.quarantines = FALSE]
    /\ lock' = Released("worker")

\* An exception reaches the scheduler, whose defer forgets the inspection and
\* the connection but keeps the session and the restart intent.
Defer == Return([worker EXCEPT !.connected = FALSE, !.inspected = FALSE])

Goto(pc, w) == wpc' = pc /\ worker' = w /\ UNCHANGED lock

Config == [Blank EXCEPT !.op = "config"]
Reconfigured == [worker EXCEPT !.cfgGen = api.gen, !.restart = api.quar,
                               !.connected = TRUE]

WDispatch ==
    /\ wpc = "idle"
    /\ IF worker.connected
       THEN /\ Goto("prepare", worker)
            /\ UNCHANGED <<remote, faults>>
       ELSE \/ Answered(Config) /\ Goto("prepare", Reconfigured)
            \/ Unanswered(Config) /\ Defer
    /\ UNCHANGED <<terminal, kids, generations, dvars, crashes>>

WRefresh ==
    /\ wpc = "prepare" /\ worker.restart = 0 /\ worker.refreshDue
    /\ \/ /\ Answered(Config)
          /\ Goto("prepare", [Reconfigured EXCEPT !.refreshDue = FALSE])
       \/ Unanswered(Config) /\ Defer
    /\ UNCHANGED <<terminal, kids, generations, dvars, crashes>>

\* Mutant: a live process is always taken for the fenced one.
WRecoverAnyLive ==
    /\ wpc = "prepare" /\ worker.restart # 0
    /\ \/ Busy /\ Defer
       \/ /\ Acquire("worker")
          /\ worker' = [worker EXCEPT !.id = proc]
          /\ wpc' = IF proc = 0 THEN "recStart" ELSE "recFence"
    /\ UNCHANGED <<terminal, kids, remote, generations, dvars, faults, crashes>>

WRecover ==
    /\ wpc = "prepare" /\ worker.restart # 0
    /\ \/ Busy /\ Defer
       \/ /\ Acquire("worker")
          /\ worker' = [worker EXCEPT !.id = proc,
                                      !.recovering = proc \notin {0, worker.restart}]
          /\ wpc' = CASE proc = worker.restart -> "recFence"
                      [] proc = 0 -> "recStart"
                      [] OTHER -> "snapshot"
    /\ UNCHANGED <<terminal, kids, remote, generations, dvars, faults, crashes>>

WRecFence ==
    /\ wpc = "recFence"
    /\ \/ /\ Answered(Config)
          /\ IF api.quar = worker.restart THEN Goto("recStop", worker) ELSE Defer
       \/ Unanswered(Config) /\ Defer
    /\ UNCHANGED <<terminal, kids, generations, dvars, crashes>>

\* The restart budget (module Restart) may refuse, and a kill may time out.
WRecStop ==
    /\ wpc = "recStop"
    /\ \/ Defer /\ UNCHANGED terminal
       \/ StopTarget(worker.restart) /\ Terminate /\ Goto("recStart", worker)
    /\ UNCHANGED <<kids, remote, generations, dvars, faults, crashes>>

\* Mutant: the intent is dropped with the launch, before the API knows.
WRecStartForgets ==
    /\ wpc = "recStart"
    /\ \/ Defer /\ UNCHANGED terminal
       \/ proc = 0 /\ Return(worker) /\ UNCHANGED terminal
       \/ /\ IF proc = 0 THEN Launch ELSE UNCHANGED terminal
          /\ Return([worker EXCEPT !.inspected = FALSE, !.restart = 0])
    /\ UNCHANGED <<kids, remote, generations, dvars, faults, crashes>>

\* start_terminal: already running, launched, or held back by a live updater
\* or by the launch grace.
WRecStart ==
    /\ wpc = "recStart"
    /\ \/ Defer /\ UNCHANGED terminal   \* the launch marker is unusable
       \/ proc = 0 /\ Return(worker) /\ UNCHANGED terminal
       \/ /\ IF proc = 0 THEN Launch ELSE UNCHANGED terminal
          /\ Return([worker EXCEPT !.inspected = FALSE])
    /\ UNCHANGED <<kids, remote, generations, dvars, faults, crashes>>

WPrepared ==
    /\ wpc = "prepare" /\ worker.restart = 0 /\ ~worker.refreshDue
    /\ Goto(IF worker.inspected THEN "once" ELSE "snapshot", worker)
    /\ UNCHANGED <<terminal, kids, remote, generations, dvars, faults, crashes>>

\* With this snapshot, report_slot opens a new session unless its own one
\* already names this process.
Snapshot(p, status) ==
    /\ worker' = [worker EXCEPT !.snap = p, !.status = status]
    /\ wpc' = IF worker.sessGen = 0 \/ worker.sessProc # p THEN "session" ELSE "report"

\* collect_inventory without dialogs: absent process, unreadable slot,
\* unsupported build, a fresh cached catalogue, or hash-only recovery report.
WSnapshot ==
    /\ wpc = "snapshot"
    /\ \/ proc = 0 /\ Snapshot(0, "OFFLINE")
       \/ Snapshot(0, "ERROR")
       \/ proc # 0 /\ \E s \in {"STARTING", "ERROR"} : Snapshot(proc, s)
    /\ UNCHANGED <<terminal, lock, kids, remote, generations, dvars, faults, crashes>>

\* visible_servers: dialogs are open from here to WInspectEnd, under the mutex.
WInspect ==
    /\ wpc = "snapshot" /\ ~worker.recovering /\ proc # 0
    /\ \/ Busy /\ Snapshot(proc, "ERROR") /\ UNCHANGED lock
       \/ /\ Acquire("worker")
          /\ wpc' = "ui" /\ worker' = [worker EXCEPT !.id = proc]
    /\ UNCHANGED <<terminal, kids, remote, generations, dvars, faults, crashes>>

WInspectEnd ==
    /\ wpc = "ui"
    /\ lock' = Released("worker")
    /\ IF proc = worker.id
       THEN \E s \in {"STARTING", "UI_ERROR"} : Snapshot(proc, s)
       ELSE Snapshot(0, "ERROR")
    /\ UNCHANGED <<terminal, kids, remote, generations, dvars, faults, crashes>>

\* The fresh uuid names a generation nobody has used; expected is the one the
\* worker believes current.
SessionRequest ==
    [Blank EXCEPT !.op = "session", !.gen = generations + 1, !.proc = worker.snap,
        !.expected = IF worker.sessGen # 0 THEN worker.sessGen ELSE worker.cfgGen]

WSession ==
    /\ wpc = "session" /\ generations < MaxGenerations
    /\ generations' = generations + 1
    /\ LET r == SessionRequest
       IN  \/ /\ Answered(r)
              /\ IF Accepts(r)
                 THEN Goto("report", [worker EXCEPT !.sessGen = r.gen, !.sessProc = r.proc])
                 ELSE Defer
           \/ /\ api.lease # 0 /\ Defer   \* an active job may refuse any session
              /\ UNCHANGED <<remote, faults>>
           \/ Unanswered(r) /\ Defer
    /\ UNCHANGED <<terminal, kids, dvars, crashes>>

Reported ==
    IF worker.recovering
    THEN Return([worker EXCEPT !.restart = 0, !.inspected = FALSE])
    ELSE CASE worker.status = "STARTING" ->
                Goto("once", [worker EXCEPT !.inspected = TRUE])
           [] worker.status = "OFFLINE" -> Goto("offline", worker)
           [] OTHER -> Return([worker EXCEPT !.inspected = FALSE])

ReportRequest == [Blank EXCEPT !.op = "report", !.gen = worker.sessGen,
                               !.proc = worker.snap, !.status = worker.status]

WReport ==
    /\ wpc = "report"
    /\ LET r == ReportRequest
       IN  \/ Answered(r) /\ IF Accepts(r) THEN Reported ELSE Defer
           \/ Unanswered(r) /\ Defer
    /\ UNCHANGED <<terminal, kids, generations, dvars, crashes>>

\* A reported absence: relaunch under the mutex, at most once a minute.
WOffline ==
    /\ wpc = "offline"
    /\ \/ Busy /\ Defer /\ UNCHANGED terminal
       \/ ~Busy /\ Launch /\ Return([worker EXCEPT !.inspected = FALSE])
       \/ Return([worker EXCEPT !.inspected = FALSE]) /\ UNCHANGED terminal
    /\ UNCHANGED <<kids, remote, generations, dvars, faults, crashes>>

WOnce ==
    /\ wpc = "once"
    /\ \/ Busy /\ Defer
       \/ /\ Acquire("worker")
          /\ proc # 0 /\ proc = worker.sessProc
          /\ wpc' = "claim" /\ worker' = [worker EXCEPT !.id = proc]
       \/ /\ ~Busy /\ (proc = 0 \/ proc # worker.sessProc) /\ Defer
       \* the catalogue was rewritten, or the inspection is too old by now
       \/ Return([worker EXCEPT !.inspected = FALSE])
    /\ UNCHANGED <<terminal, kids, remote, generations, dvars, faults, crashes>>

ClaimRequest == [Blank EXCEPT !.op = "claim", !.gen = worker.sessGen]

WClaim ==
    /\ wpc = "claim"
    /\ LET r == ClaimRequest
       IN  \/ /\ Answered(r) /\ Accepts(r)
              /\ Goto("credentials", [worker EXCEPT !.lease = api.fence + 1])
           \/ Answered(r) /\ ~Accepts(r) /\ r.gen = api.gen /\ Return(worker)
           \/ Answered(r) /\ ~Accepts(r) /\ Defer
           \/ Unanswered(r) /\ Defer
    /\ UNCHANGED <<terminal, kids, generations, dvars, crashes>>

LeaseCall(op) == [Blank EXCEPT !.op = op, !.gen = worker.sessGen,
                               !.lease = worker.lease, !.saw = worker.saw,
                               !.quarantines = worker.quarantines]

\* Credentials, the LEASE_DEADLINE_TOO_CLOSE check, and the spawn.
WCredentials ==
    /\ wpc = "credentials"
    /\ LET r == LeaseCall("credentials")
       IN  \/ /\ Answered(r) /\ Accepts(r)
              /\ kids' = kids \cup {[lease |-> worker.lease, proc |-> worker.id, saw |-> {}]}
              /\ Goto("child", worker)
           \/ Answered(r) /\ Defer /\ UNCHANGED kids
           \/ Unanswered(r) /\ Defer /\ UNCHANGED kids
    /\ UNCHANGED <<terminal, generations, dvars, crashes>>

\* The library attaches by path: the child reads whatever process is there.
ChildReads ==
    /\ proc # 0
    /\ \E k \in kids :
         /\ Owned(k)
         /\ kids' = (kids \ {k}) \cup {[k EXCEPT !.saw = @ \cup {proc}]}
    /\ UNCHANGED <<terminal, lock, remote, generations, wvars, dvars, faults, crashes>>

\* Mutant: run_child returns without waiting for its process to end.
WChildDetached ==
    /\ wpc = "child"
    /\ \E k \in kids :
         /\ Owned(k)
         /\ UNCHANGED kids
         /\ \/ Goto("verify", [worker EXCEPT !.saw = k.saw])
            \/ \E q \in BOOLEAN : Goto("fail", [worker EXCEPT !.quarantines = q])
    /\ UNCHANGED <<terminal, remote, generations, dvars, faults, crashes>>

\* A result, an error that quarantines, or an error that does not.
WChildEnds ==
    /\ wpc = "child"
    /\ \E k \in kids :
         /\ Owned(k)
         /\ kids' = kids \ {k}
         /\ \/ Goto("verify", [worker EXCEPT !.saw = k.saw])
            \/ \E q \in BOOLEAN : Goto("fail", [worker EXCEPT !.quarantines = q])
    /\ UNCHANGED <<terminal, remote, generations, dvars, faults, crashes>>

\* The child is killed and still not gone after five seconds: process.wait raises
\* in the finally of run_child, past whatever it had to return, and the lease is
\* left to expire.
WChildOutlives ==
    /\ wpc = "child" /\ Defer
    /\ UNCHANGED <<terminal, kids, remote, generations, dvars, faults, crashes>>

\* A heartbeat that fails ends run_child with its exception: the child is
\* killed, no /fail is sent and the lease is left to expire.
WHeartbeat ==
    /\ wpc = "child"
    /\ LET r == LeaseCall("heartbeat")
       IN  \/ ~Accepts(r) /\ Answered(r)
           \/ Unanswered(r)
    /\ kids' = {k \in kids : ~Owned(k)}
    /\ Defer
    /\ UNCHANGED <<terminal, generations, dvars, crashes>>

\* Mutant: the identity is not checked again after the child.
WVerifyNothing ==
    /\ wpc = "verify" /\ Goto("complete", worker)
    /\ UNCHANGED <<terminal, kids, remote, generations, dvars, faults, crashes>>

WVerify ==
    /\ wpc = "verify"
    /\ IF proc = worker.id
       THEN Goto("complete", worker)
       ELSE Goto("fail", [worker EXCEPT !.quarantines = TRUE])
    /\ UNCHANGED <<terminal, kids, remote, generations, dvars, faults, crashes>>

WComplete ==
    /\ wpc = "complete"
    /\ LET r == LeaseCall("complete")
       IN  \/ Answered(r) /\ IF Accepts(r) THEN Return(worker) ELSE Defer
           \/ Unanswered(r) /\ Defer
    /\ UNCHANGED <<terminal, kids, generations, dvars, crashes>>

\* Only an acknowledged /fail adopts the process as restart intent.
WFail ==
    /\ wpc = "fail"
    /\ LET r == LeaseCall("fail")
       IN  \/ /\ Answered(r)
              /\ CASE ~Accepts(r) -> Defer
                   [] worker.quarantines ->
                        Return([worker EXCEPT !.restart = worker.id,
                                  !.connected = FALSE, !.inspected = FALSE])
                   [] OTHER -> Return(worker)
           \/ Unanswered(r) /\ Defer
    /\ UNCHANGED <<terminal, kids, generations, dvars, crashes>>

\* The process ends; Windows abandons its mutex and leaves its child running.
WCrash ==
    /\ crashes > 0 /\ crashes' = crashes - 1
    /\ wpc' = "idle" /\ worker' = NewWorker
    /\ lock' = Released("worker")
    /\ UNCHANGED <<terminal, kids, remote, generations, dvars, faults>>

\* Sixty seconds without a refresh, ninety without an inspection.
ConfigAges ==
    /\ wpc = "idle" /\ ~worker.refreshDue
    /\ worker' = [worker EXCEPT !.refreshDue = TRUE]
    /\ UNCHANGED <<terminal, lock, kids, remote, generations, wpc, dvars, faults, crashes>>

InspectionAges ==
    /\ wpc = "idle" /\ worker.inspected
    /\ worker' = [worker EXCEPT !.inspected = FALSE]
    /\ UNCHANGED <<terminal, lock, kids, remote, generations, wpc, dvars, faults, crashes>>

(***************************************************************************)
(* The watchdog.                                                           *)
(***************************************************************************)
NewWatchdog == [gen |-> 0, proc |-> 0, quar |-> 0]

DGoto(pc) == dpc' = pc /\ UNCHANGED <<watchdog, lock>>
DReturn == dpc' = "idle" /\ watchdog' = NewWatchdog /\ lock' = Released("watchdog")

\* A pass over the slot.  A persistent UI error that the durable budget lets
\* through is fenced first; a quarantine not in back-off is recovered.
DPoll ==
    /\ dpc = "idle"
    /\ Answered(Config)
    /\ \/ /\ api.status = "UI_ERROR" /\ api.quar = 0 /\ api.reg # 0
          /\ dpc' = "fence"
          /\ watchdog' = [gen |-> api.gen, proc |-> api.reg, quar |-> 0]
       \/ api.quar # 0 /\ dpc' = "recover" /\ UNCHANGED watchdog
       \/ UNCHANGED dvars
    /\ UNCHANGED <<terminal, lock, kids, generations, wvars, crashes>>

DLock ==
    /\ dpc \in {"fence", "recover"}
    /\ \/ Busy /\ DReturn
       \/ /\ Acquire("watchdog")
          /\ dpc' = IF dpc = "fence" THEN "fenceCheck" ELSE "recConfig"
          /\ UNCHANGED watchdog
    /\ UNCHANGED <<terminal, kids, remote, generations, wvars, faults, crashes>>

\* fence_ui_failure: nothing may have changed since the observation, and the
\* registered process must be the live one.
DFenceCheck ==
    /\ dpc = "fenceCheck"
    /\ \/ /\ Answered(Config)
          /\ IF /\ api.quar = 0 /\ api.status = "UI_ERROR"
                /\ api.gen = watchdog.gen /\ api.reg = watchdog.proc
                /\ proc = api.reg
             THEN DGoto("fenceCall")
             ELSE DReturn
       \/ Unanswered(Config) /\ DReturn
    /\ UNCHANGED <<terminal, kids, generations, wvars, crashes>>

FenceRequest == [Blank EXCEPT !.op = "prepare", !.gen = watchdog.gen]

DFenceCall ==
    /\ dpc = "fenceCall"
    /\ Answered(FenceRequest) \/ Unanswered(FenceRequest)
    /\ DReturn
    /\ UNCHANGED <<terminal, kids, generations, wvars, crashes>>

\* recover_quarantined, under the lock: healthy, already replaced, still the
\* fenced process, or gone.
DRecConfig ==
    /\ dpc = "recConfig"
    /\ \/ /\ Answered(Config)
          /\ IF api.quar = 0 \/ proc \notin {0, api.quar}
             THEN DReturn
             ELSE /\ dpc' = IF proc = 0 THEN "recStart" ELSE "recFence"
                  /\ watchdog' = [watchdog EXCEPT !.quar = api.quar]
                  /\ UNCHANGED lock
       \/ Unanswered(Config) /\ DReturn
    /\ UNCHANGED <<terminal, kids, generations, wvars, crashes>>

DRecFence ==
    /\ dpc = "recFence"
    /\ \/ /\ Answered(Config)
          /\ IF api.quar = watchdog.quar THEN DGoto("recStop") ELSE DReturn
       \/ Unanswered(Config) /\ DReturn
    /\ UNCHANGED <<terminal, kids, generations, wvars, crashes>>

DRecStop ==
    /\ dpc = "recStop"
    /\ \/ DReturn /\ UNCHANGED terminal
       \/ StopTarget(watchdog.quar) /\ Terminate /\ DGoto("recStart")
    /\ UNCHANGED <<kids, remote, generations, wvars, faults, crashes>>

DRecStart ==
    /\ dpc = "recStart"
    /\ \/ UNCHANGED terminal
       \/ Launch
    /\ DReturn
    /\ UNCHANGED <<kids, remote, generations, wvars, faults, crashes>>

DCrash ==
    /\ crashes > 0 /\ crashes' = crashes - 1
    /\ dpc # "idle" /\ DReturn
    /\ UNCHANGED <<terminal, kids, remote, generations, wvars, faults>>

(***************************************************************************)
(* The machine.                                                            *)
(***************************************************************************)
\* MT5 exits on its own (crash, LiveUpdate), or somebody starts it (a user,
\* the supervisor, initialize() of the native library).
TerminalExits ==
    /\ proc # 0 /\ proc' = 0
    /\ UNCHANGED <<launched, lock, kids, remote, generations, wvars, dvars, faults, crashes>>

TerminalAppears ==
    /\ Launch
    /\ UNCHANGED <<lock, kids, remote, generations, wvars, dvars, faults, crashes>>

\* A child whose worker crashed, or gave up waiting for it, ends when its native
\* calls return.
OrphanEnds ==
    /\ \E k \in kids : ~Owned(k) /\ kids' = kids \ {k}
    /\ UNCHANGED <<terminal, lock, remote, generations, wvars, dvars, faults, crashes>>

Init ==
    /\ proc \in {0, 1} /\ launched = proc
    /\ lock = "free" /\ kids = {}
    /\ api = [gen |-> 0, reg |-> 0, quar |-> 0, status |-> "OFFLINE",
              fence |-> 0, lease |-> 0, leaseGen |-> 0, leaseProc |-> 0]
    /\ late = {} /\ collected = {} /\ generations = 0
    /\ wpc = "idle" /\ worker = NewWorker
    /\ dpc = "idle" /\ watchdog = NewWatchdog
    /\ faults = MaxFaults /\ crashes = MaxCrashes

WorkerStep ==
    \/ WDispatch \/ WRefresh \/ WRecover \/ WRecFence \/ WRecStop \/ WRecStart
    \/ WPrepared \/ WSnapshot \/ WInspect \/ WInspectEnd \/ WSession \/ WReport
    \/ WOffline \/ WOnce \/ WClaim \/ WCredentials \/ WChildEnds \/ WChildOutlives
    \/ WHeartbeat \/ WVerify \/ WComplete \/ WFail

WatchdogStep ==
    \/ DPoll \/ DLock \/ DFenceCheck \/ DFenceCall
    \/ DRecConfig \/ DRecFence \/ DRecStop \/ DRecStart

Environment ==
    \/ LateDelivery \/ LeaseExpires \/ ConfigAges \/ InspectionAges
    \/ WCrash \/ DCrash \/ TerminalExits \/ TerminalAppears
    \/ ChildReads \/ OrphanEnds

Next == WorkerStep \/ WatchdogStep \/ Environment

Spec == Init /\ [][Next]_vars

(***************************************************************************)
(* Fairness.  Both loops run for ever and every call and child is bounded,  *)
(* so both parties keep taking steps, leases run out and the refresh timer  *)
(* fires.  A step that is refused only for bounded times and retried for    *)
(* ever is granted in the end: the restart budget and a kill, a relaunch    *)
(* held back by its grace or an updater, an inventory that fails.  The two  *)
(* loops are not synchronised: a worker that keeps being dispatched is      *)
(* dispatched, and finds the mutex, at a moment when it is free.            *)
(***************************************************************************)
Loops == WF_vars(WorkerStep) /\ WF_vars(WatchdogStep) /\ SF_vars(ConfigAges)

Killed   == (WRecStop \/ DRecStop) /\ proc' # proc
Started  == (WRecStart \/ DRecStart) /\ proc' # 0
Listed   == WSnapshot /\ worker'.snap = proc /\ wpc' = "session"

RecoverySpec ==
    /\ Spec /\ Loops /\ WF_vars(LeaseExpires)
    /\ SF_vars(Killed) /\ SF_vars(Started) /\ SF_vars(Listed)
    /\ SF_vars(WDispatch /\ lock = "free") /\ SF_vars(WRecover /\ lock' = "worker")

-------------------------------------------------------------------------------
Identities == 0 .. MaxProcesses
Gens == 0 .. MaxGenerations
Leases == 0 .. MaxLeases
Requests == [op : Calls, gen : Gens, expected : Gens, proc : Identities,
             lease : Leases, status : Status, quarantines : BOOLEAN,
             saw : SUBSET Identities]

Children == [lease : Leases, proc : Identities, saw : SUBSET Identities]
Results == [proc : Identities, saw : SUBSET Identities]
Rows == [gen : Gens, reg : Identities, quar : Identities, status : Status,
         fence : Leases, lease : Leases, leaseGen : Gens, leaseProc : Identities]
Workers == [connected : BOOLEAN, inspected : BOOLEAN, refreshDue : BOOLEAN,
            cfgGen : Gens, sessGen : Gens, sessProc : Identities,
            restart : Identities, id : Identities, snap : Identities,
            status : Status, recovering : BOOLEAN, lease : Leases,
            saw : SUBSET Identities, quarantines : BOOLEAN]
Watchdogs == [gen : Gens, proc : Identities, quar : Identities]

\* The type of every variable.
TypeOK ==
    /\ proc \in Identities /\ launched \in Identities
    /\ lock \in {"free", "worker", "watchdog"}
    /\ kids \subseteq Children /\ api \in Rows
    /\ late \subseteq Requests /\ collected \subseteq Results
    /\ generations \in Gens
    /\ wpc \in WorkerPcs /\ worker \in Workers
    /\ dpc \in WatchdogPcs /\ watchdog \in Watchdogs
    /\ faults \in 0 .. MaxFaults /\ crashes \in 0 .. MaxCrashes

\* The child the worker watches runs on the registered, unfenced process of
\* the active lease, and the worker holds the slot's mutex all the while
\* (worker.py once).
ChildProtected ==
    \A k \in kids : Owned(k) =>
        /\ lock = "worker"
        /\ api.lease = k.lease
        /\ api.quar = 0
        /\ api.reg = k.proc

\* Recovery kills only the process the API has fenced, never a replacement of
\* it, never one with an active lease, never one the worker's child is reading
\* (stop_fenced_terminal, recover_quarantined: "without interrupting a
\* collection or replacement PID").
Kills(p) == (WRecStop \/ DRecStop) /\ proc = p /\ proc' # p
OnlyFencedKilled ==
    [][\A p \in 1 .. MaxProcesses : Kills(p) =>
          /\ api.quar = p
          /\ api.lease = 0
          /\ \A k \in kids : ~Owned(k)]_vars

\* Every committed result was read from one process only, the one its lease
\* was granted for, although the library attaches by path (the identity checks
\* of worker.py once).
CollectedFromOneProcess == \A c \in collected : c.saw \subseteq {c.proc}

\* A process never has two children attached, not even one a crashed worker
\* left behind, or one that outlives its kill, and one of the next job: the
\* orphan's lease must expire, which fences the process.
OneChildPerProcess ==
    \A j, k \in kids : j.proc = k.proc => j = k

\* "Maintenance between jobs only; no dialogs while a native child holds the
\* slot." (worker.py:128)
NoDialogsDuringChild == wpc = "ui" => kids = {}

\* The worker gives up a restart intent only when the API no longer fences the
\* process, or by losing its memory; a terminal still fenced is not forgotten.
IntentKept ==
    [][worker.restart # 0 /\ worker'.restart = 0 =>
          api'.quar = 0 \/ crashes' < crashes]_vars

\* A quarantine ends: the fenced terminal is restarted, by whichever of the
\* worker and the watchdog gets there, and its replacement, whoever started it,
\* is published ("Publish the replacement before refreshing /config again",
\* worker.py:122), unless the bounds of the model are used up.
Exhausted == \/ proc = 0 /\ launched = MaxProcesses
             \/ wpc = "session" /\ generations = MaxGenerations
QuarantineEnds == (api.quar # 0) ~> (api.quar = 0 \/ Exhausted)
===============================================================================
