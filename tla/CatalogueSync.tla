----------------------------- MODULE CatalogueSync -----------------------------
(***************************************************************************)
(* How a server name reaches every slot: app/collector/catalogue_sync.py    *)
(* copies the catalogue of the slot that knows most to one that knows less, *)
(* ServerPreparation.once (server_preparation.py) copies the builder's.     *)
(* The target is fenced at the API, stopped, given the new file and         *)
(* started; everything the decision rests on was read earlier, while the    *)
(* terminals kept running and rewriting their own files.                    *)
(*                                                                          *)
(* A catalogue is the set of its names; a rewrite that changes none only    *)
(* makes a hash comparison fail, which Abort stands for.                    *)
(***************************************************************************)
EXTENDS Naturals, FiniteSets

CONSTANTS
    Slots, Servers,
    MaxProcesses,   \* bound: terminal processes of a slot
    MaxRewrites,    \* bound: names discovered by slots and the builder
    MaxFaults       \* bound: steps that fail or come late, exits and crashes

ASSUME CatalogueAssumption ==
    /\ Slots # {}
    /\ MaxProcesses \in Nat \ {0} /\ MaxRewrites \in Nat /\ MaxFaults \in Nat

VARIABLES
    late,           \* MT5 also acts on a slot whose mutex is held; never changed
    live, used,     \* each slot's terminal process, identities used so far
    memory, file,   \* the catalogue the terminal has loaded; servers.dat
    builder,        \* the builder's catalogue
    backups,        \* all names in the backups of each slot
    left,           \* temporary files and marker beside servers.dat
    reg, quar,      \* the API's registered and quarantined process
    view,           \* last_snapshots, while inspected_at is recent
    pc, job,        \* the installation under way
    rewrites, faults

vars == <<late, live, used, memory, file, builder, backups, left, reg, quar, view,
          pc, job, rewrites, faults>>
terminals == <<late, live, used, memory>>
files     == <<file, builder, backups, left>>
remote    == <<reg, quar>>

NoView == [proc |-> 0, names |-> {}, hash |-> {}]
NoJob == [kind |-> "none", target |-> CHOOSE s \in Slots : TRUE, proc |-> 0,
          names |-> {}, data |-> {}, rest |-> {}]
Target == job.target

Init ==
    /\ late \in BOOLEAN
    /\ live = [s \in Slots |-> 1] /\ used = live
    /\ file \in [Slots -> SUBSET Servers] /\ memory = file
    /\ builder = {} /\ backups = [s \in Slots |-> {}]
    /\ left = [s \in Slots |-> {}]
    /\ reg = live /\ quar = [s \in Slots |-> 0]
    /\ view = [s \in Slots |-> NoView]
    /\ pc = "idle" /\ job = NoJob
    /\ rewrites = MaxRewrites /\ faults = MaxFaults

Verified(s) == view[s] # NoView

\* choose_pair: a strict superset, from the slot that knows most.
Pairs == {p \in Slots \X Slots :
            /\ Verified(p[1]) /\ Verified(p[2])
            /\ view[p[2]].names \subseteq view[p[1]].names
            /\ view[p[2]].names # view[p[1]].names}
Names(p) == Cardinality(view[p[1]].names)

Begin(kind, t, names, data, rest) ==
    /\ pc' = "check"
    /\ job' = [kind |-> kind, target |-> t, proc |-> view[t].proc,
               names |-> names, data |-> data, rest |-> rest]

\* synchronize_once: the source's file is read under its mutex, and is still
\* the one its report was about.
Choose ==
    /\ pc = "idle"
    /\ \E p \in Pairs :
         /\ \A q \in Pairs : Names(q) <= Names(p)
         /\ live[p[1]] = view[p[1]].proc /\ file[p[1]] = view[p[1]].hash
         /\ Begin("sync", p[2], view[p[1]].names, file[p[1]], {})
    /\ UNCHANGED <<terminals, files, remote, view, rewrites, faults>>

\* ServerBuilder.search, for a request: the builder's terminal adds a server to
\* those it knows; a search that finds none changes nothing.
BuilderFinds ==
    /\ pc = "idle" /\ rewrites > 0 /\ rewrites' = rewrites - 1
    /\ \E n \in Servers : builder' = builder \cup {n}
    /\ UNCHANGED <<terminals, file, backups, left, remote, view, pc, job, faults>>

\* Without such a pair, what the builder has found for a request goes to the
\* slots that lack the server and would lose nothing, one after the other.
Eligible(server) == {t \in Slots : /\ Verified(t) /\ server \notin view[t].names
                                   /\ view[t].names \subseteq builder}
ChooseBuilt ==
    /\ pc = "idle" /\ Pairs = {}
    /\ \E server \in builder : \E t \in Eligible(server) :
         Begin("preparing", t, builder, builder, Eligible(server) \ {t})
    /\ UNCHANGED <<terminals, files, remote, view, rewrites, faults>>

Stay(where) == pc' = where /\ UNCHANGED job
Leave == pc' = "idle" /\ job' = NoJob
GoOn == IF job.rest = {} THEN Leave
        ELSE \E t \in job.rest : Begin(job.kind, t, job.names, job.data, job.rest \ {t})

\* Mutant: the target's file is not compared with its report.
CheckProcess ==
    /\ pc = "check"
    /\ IF live[Target] = job.proc
       THEN Stay("fence") /\ UNCHANGED left
       ELSE Leave /\ UNCHANGED left
    /\ UNCHANGED <<terminals, file, builder, backups, remote, view, rewrites, faults>>

\* Mutant: the target's file is compared with the source's hash.
CheckSource ==
    /\ pc = "check"
    /\ IF live[Target] = job.proc /\ file[Target] = job.data
       THEN Stay("fence") /\ UNCHANGED left
       ELSE Leave /\ UNCHANGED left
    /\ UNCHANGED <<terminals, file, builder, backups, remote, view, rewrites, faults>>

\* Under the target's mutex from here to Start: process and file are still those
\* of its report.  A preparation leaves a marker first.
Check ==
    /\ pc = "check"
    /\ IF /\ job.kind = "sync" => Verified(Target) /\ view[Target].names \subseteq job.names
          /\ live[Target] = job.proc /\ file[Target] = view[Target].hash
          /\ job.kind = "preparing" => "marker" \notin left[Target]
       THEN /\ Stay("fence")
            /\ left' = IF job.kind = "preparing"
                       THEN [left EXCEPT ![Target] = @ \cup {"marker"}] ELSE left
       ELSE Leave /\ UNCHANGED left
    /\ UNCHANGED <<terminals, file, builder, backups, remote, view, rewrites, faults>>

\* /prepare; no job runs, so the API fences the registered process.
Fence ==
    /\ pc = "fence"
    /\ quar' = [quar EXCEPT ![Target] = reg[Target]]
    /\ Stay("stop")
    /\ UNCHANGED <<terminals, files, reg, view, rewrites, faults>>

\* finally: the marker goes, whatever happened.
Unmarked == [left EXCEPT ![Target] = @ \ {"marker"}]

\* stop_fenced_terminal.
Stop ==
    /\ pc = "stop"
    /\ IF quar[Target] = job.proc /\ live[Target] \in {0, job.proc}
       THEN /\ live' = [live EXCEPT ![Target] = 0]
            /\ Stay("install") /\ UNCHANGED left
       ELSE Leave /\ left' = Unmarked /\ UNCHANGED live
    /\ UNCHANGED <<late, used, memory, file, builder, backups, remote, view, rewrites, faults>>

\* Mutant: no backup.
InstallOnly ==
    /\ pc = "install"
    /\ IF live[Target] = 0 /\ job.kind \notin left[Target]
       THEN /\ left' = [left EXCEPT ![Target] = @ \cup {job.kind}]
            /\ Stay("replace")
       ELSE Leave /\ left' = Unmarked
    /\ UNCHANGED <<terminals, file, backups, builder, remote, view, rewrites, faults>>

\* SLOT_MUST_BE_STOPPED, the backup, and the temporary file, which must be new.
Install ==
    /\ pc = "install"
    /\ IF live[Target] = 0 /\ job.kind \notin left[Target]
       THEN /\ backups' = [backups EXCEPT ![Target] = @ \cup file[Target]]
            /\ left' = [left EXCEPT ![Target] = @ \cup {job.kind}]
            /\ Stay("replace")
       ELSE /\ Leave /\ left' = Unmarked
            /\ backups' = IF live[Target] # 0 THEN backups
                          ELSE [backups EXCEPT ![Target] = @ \cup file[Target]]
    /\ UNCHANGED <<terminals, file, builder, remote, view, rewrites, faults>>

Replace ==
    /\ pc = "replace"
    /\ IF job.kind = "preparing" /\ live[Target] # 0
       THEN Leave /\ left' = Unmarked /\ UNCHANGED file
       ELSE /\ file' = [file EXCEPT ![Target] = job.data]
            /\ left' = [left EXCEPT ![Target] = @ \ {job.kind}]
            /\ Stay("start")
    /\ UNCHANGED <<terminals, builder, backups, remote, view, rewrites, faults>>

Launched(s) ==
    /\ live[s] = 0 /\ used[s] < MaxProcesses
    /\ used' = [used EXCEPT ![s] = @ + 1]
    /\ live' = [live EXCEPT ![s] = used'[s]]
    /\ memory' = [memory EXCEPT ![s] = file[s]]

\* start_terminal, which an updater or the grace may hold back.
Start ==
    /\ pc = "start"
    /\ Launched(Target) \/ UNCHANGED terminals
    /\ view' = [view EXCEPT ![Target] = NoView]
    /\ GoOn /\ left' = Unmarked
    /\ UNCHANGED <<late, file, builder, backups, remote, rewrites, faults>>

\* Any step may raise: a refused or unanswered call (which may still have
\* fenced), the restart budget, another build, a file that cannot be written.
Abort ==
    /\ pc # "idle" /\ faults > 0 /\ faults' = faults - 1
    /\ quar' \in {quar} \cup (IF pc = "fence" THEN {[quar EXCEPT ![Target] = reg[Target]]} ELSE {})
    /\ Leave /\ left' = Unmarked
    /\ UNCHANGED <<terminals, file, builder, backups, reg, view, rewrites>>

Crash ==
    /\ faults > 0 /\ faults' = faults - 1
    /\ view' = [s \in Slots |-> NoView] /\ Leave
    /\ UNCHANGED <<terminals, files, remote, rewrites>>

(***************************************************************************)
(* The controller between installations, and the watchdog.                 *)
(***************************************************************************)
\* A report with dialogs: a process other than the fenced one is registered.
Inspect(s) ==
    /\ pc = "idle" /\ live[s] # 0 /\ live[s] # quar[s]
    /\ view' = [view EXCEPT ![s] = [proc |-> live[s], names |-> memory[s], hash |-> file[s]]]
    /\ reg' = [reg EXCEPT ![s] = live[s]] /\ quar' = [quar EXCEPT ![s] = 0]
    /\ UNCHANGED <<terminals, files, pc, job, rewrites, faults>>

\* Ninety seconds without a new report, because the process is gone or the report
\* is late; a preparation asks only at its start.
Gone(s) == live[s] # view[s].proc
Ages(s) ==
    /\ Verified(s) /\ job.kind # "preparing"
    /\ Gone(s) \/ faults > 0
    /\ faults' = IF Gone(s) THEN faults ELSE faults - 1
    /\ view' = [view EXCEPT ![s] = NoView]
    /\ UNCHANGED <<terminals, files, remote, pc, job, rewrites>>

Locked(s) == pc \notin {"idle", "check"} /\ Target = s

\* Whoever holds the slot's mutex kills the fenced process, or starts an absent one.
KillFenced(s) ==
    /\ ~Locked(s) /\ live[s] # 0 /\ live[s] = quar[s]
    /\ live' = [live EXCEPT ![s] = 0]
    /\ UNCHANGED <<late, used, memory, files, remote, view, pc, job, rewrites, faults>>

Restart(s) ==
    /\ ~Locked(s) /\ Launched(s)
    /\ UNCHANGED <<late, files, remote, view, pc, job, rewrites, faults>>

(***************************************************************************)
(* MT5 (external).                                                         *)
(***************************************************************************)
Exits(s) ==
    /\ live[s] # 0 /\ faults > 0 /\ faults' = faults - 1
    /\ live' = [live EXCEPT ![s] = 0]
    /\ UNCHANGED <<late, used, memory, files, remote, view, pc, job, rewrites>>

\* Somebody starts it by hand.
Appears(s) ==
    /\ Locked(s) => late
    /\ faults > 0 /\ faults' = faults - 1 /\ Launched(s)
    /\ UNCHANGED <<late, files, remote, view, pc, job, rewrites>>

\* A terminal learns of a server and writes what it has loaded, unless it is only
\* starting: that takes longer than the file operations between Install and Start.
Rewrites(s) ==
    /\ live[s] # 0 /\ rewrites > 0 /\ rewrites' = rewrites - 1
    /\ Locked(s) => late /\ pc \in {"fence", "stop"}
    /\ \E n \in Servers : memory' = [memory EXCEPT ![s] = @ \cup {n}]
    /\ file' = [file EXCEPT ![s] = memory'[s]]
    /\ UNCHANGED <<late, live, used, builder, backups, left, remote, view, pc, job, faults>>

Controller == Choose \/ ChooseBuilt \/ Check \/ Fence \/ Stop \/ Install \/ Replace \/ Start

Next == \/ Controller \/ Abort \/ Crash \/ BuilderFinds
        \/ \E s \in Slots : \/ Inspect(s) \/ Ages(s) \/ KillFenced(s) \/ Restart(s)
                            \/ Exits(s) \/ Appears(s) \/ Rewrites(s)

Spec == Init /\ [][Next]_vars

\* The controller takes its steps, inspects each slot again and again, and an
\* absent or fenced terminal is dealt with; time passes.
FairSpec ==
    /\ Spec /\ WF_vars(Controller)
    /\ \A s \in Slots : WF_vars(KillFenced(s)) /\ WF_vars(Restart(s)) /\ SF_vars(Inspect(s))
                        /\ WF_vars(Gone(s) /\ Ages(s))

-----------------------------------------------------------------------------
Left == {"marker", "sync", "preparing"}
Process == 0 .. MaxProcesses
Views == [proc : Process, names : SUBSET Servers, hash : SUBSET Servers]
Jobs == [kind : {"none", "sync", "preparing"}, target : Slots, proc : Process,
         names : SUBSET Servers, data : SUBSET Servers, rest : SUBSET Slots]

\* The type of every variable (the slots, sessions and snapshots of
\* catalogue_sync.py and server_preparation.py).
TypeOK ==
    /\ late \in BOOLEAN
    /\ live \in [Slots -> Process] /\ used \in [Slots -> Process]
    /\ {memory, file, backups} \subseteq [Slots -> SUBSET Servers]
    /\ builder \in SUBSET Servers /\ left \in [Slots -> SUBSET Left]
    /\ {reg, quar} \subseteq [Slots -> Process] /\ view \in [Slots -> Views]
    /\ pc \in {"idle", "check", "fence", "stop", "install", "replace", "start"}
    /\ job \in Jobs /\ rewrites \in 0 .. MaxRewrites /\ faults \in 0 .. MaxFaults

\* "A strict superset adds names and cannot remove a target's servers"
\* (catalogue_sync.py:32): whatever the terminals, the controller and the
\* watchdog do in between, no slot's servers.dat ever loses a name, as long as
\* MT5 leaves the slot alone whose mutex is held.
NothingLost == [][late \/ \A s \in Slots : file[s] \subseteq file'[s]]_vars

\* A name that does go, because MT5 acted behind the mutex, is still in another
\* slot's catalogue or in a backup (catalogue_sync.py:75).
NamesKept ==
    [][\A s \in Slots :
         file[s] \ file'[s] \subseteq UNION {backups'[t] \cup file'[t] : t \in Slots}]_vars

\* Names reach everybody: in the end no running slot knows less than a running
\* slot, or the builder with a request for it, that has all its names
\* (synchronize_once, ServerPreparation.once).  The file an interrupted
\* installation leaves in one slot holds all of them up: the same pair is chosen
\* and the same exception ends each round (open('xb'), catalogue_sync.py:78;
\* marker.open('x'), server_preparation.py:224).
Settled == \A t \in Slots : live[t] # 0 =>
    /\ \A s \in Slots : live[s] # 0 /\ file[t] \subseteq file[s] => file[t] = file[s]
    /\ file[t] \subseteq builder => file[t] = builder
Spread == <>[](left = [s \in Slots |-> {}] => Settled)
=============================================================================
