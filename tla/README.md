# A verification of the TradeTrack MT5 server

The collector of this repository (`src/app/collector`, with its entry points in
`src/scripts`) runs a pool of MetaTrader 5 terminals on a Windows host. Each
terminal is a *slot*. A controller claims jobs from an HTTP API, lets a short-lived
native child read a trading account's history through the slot's terminal, and
reports the result. A second, independent process, the health watchdog, recovers
terminals that got stuck. This directory holds TLA+ modules of that machinery,
TLC configurations that check them on small instances, and proofs, for all sizes, of the
safety properties of every module that has state.

Contents: 1 inventory, 2 modules, 3 runs, 4 bounds, 5 fairness, 6 assumptions about
what is outside, 7 proofs, 8 what the runs found, 9 what is not modelled, 10 plan,
11 how to run.

## 1. The system

### 1.1 Components, their state and operations

| Component | Source | State it keeps | Operations |
|---|---|---|---|
| Slot worker | `worker.py` | `inspected_at`, `restart_terminal`, `last_snapshot`; the agent's session | `prepare_inventory` (inventory, session, report, recovery of a fenced terminal), `once` (claim, credentials, child, complete / fail), `run_child` (deadline, heartbeats) |
| Health watchdog | `watch_mt5_health.py`, `quarantine_recovery.py` | UI observations; the open maintenance cycle of each slot | read the log summary, fence on UI evidence, restart the quarantined, report the replacement |
| Restart budget and start | `restart_budget.py`, `server_preparation.py` | sqlite table of attempts; `.terminal-launch.json` per slot | `reserve_restart`, `stop_fenced_terminal`, `start_terminal` |
| UI recovery budget | `ui_recovery.py` | sightings per slot in memory; a JSON file of the last grants | `observe`, `reserve`, `fence_ui_failure` |
| Node agent and client | `node_agent.py` | session generation, sequence numbers, claim identifier | `/config`, `/session`, `/report`, `/claim`, `/complete`, `/fail`, three attempts each |
| Scheduler | `scheduler.py` | per slot: future, due time, finished; preparation's due time | `run_slots`: reap, plan, prepare, maintain, dispatch, drain, `--once` |
| LiveUpdate recovery | `update_recovery.py` | what each process remembers of the package and the updater | stop a stalled updater, archive an orphaned package |
| Catalogue synchronisation | `catalogue_sync.py`, `server_preparation.py` | snapshots of every slot; temporary files, backups, a marker | copy the fuller `servers.dat` to a slot, install the builder's |
| History collection | `gateway.py`, `history.py`, `contracts.py` | none; cursors are the API's | plan a window, halve, count, read twice, count what is older |
| Normalisation | `normalization.py` | none | window filter, record limits, validation of fields |
| Windows inventory | `windows_inventory.py` | named mutex per executable | `inventory_lock`, find a process, inspect, close dialogs |
| Telemetry | `telemetry.py`, `diagnostics.py` | sqlite table of sent events, shared by controller and watchdog; the memory and the failure counts of each process | `report`: count a transient failure until it persists, then one event per code and six hours (`reserve_event`) |
| Clock observation | `clock_observation.py` | an append-only file | compare two samples |
| Entry point, supervisor | `run_mt5_worker.py`, `supervise_production.py` | drain file, preparation marker, a mutex for the supervisor and one for the controller | check, start terminals, start the controller, wait, again after 30 s; run, drain, log |
| Server builder | `server_builder.py` | none | drive the search dialog of a builder terminal |
| Broker directory, build check | `broker_directory.py`, `terminal_build.py` | none | decode public files and versions |
| Capacity model | `model_mt5_capacity.py` | none | offline simulation |
| Legacy service | `app/main.py`, `app/queue.py`, `app/mt5_client.py`, ... | Redis queue, per-process native session | HTTP endpoints and queue workers of the earlier design |
| Scripts run by hand | `probe_mt5.py`, `report_mt5_inventory.py`, `prepare_mt5_server.py` | none | one pass each |

### 1.2 How they interact

* **One mutex per executable.** `inventory_lock` is never waited for: the loser
  raises and comes back. Windows hands an *abandoned* mutex to the next caller at
  once (`WAIT_ABANDONED` is accepted), so a crash frees it immediately, although a
  native child of the crashed worker may still be attached to the terminal.
* **The API** keeps the registered session of a slot (generation and process),
  the process it has quarantined, and the active lease. Worker and watchdog speak
  to it with different views, read at different times; every call may be retried,
  lost after it was applied, or applied late.
* **Files.** The restart budget (sqlite, `BEGIN IMMEDIATE`), the launch marker, the
  UI budget file, `servers.dat` with its temporary files and backups, the
  `liveupdate` directory, the drain file.
* **MT5 itself**: the terminal may exit, appear by itself, update itself through a
  second process, rewrite `servers.dat`, and go on downloading history during a read.
* **Two loops around the controller.** The supervisor starts it as a child and starts another
  when it ends; the scheduled task starts the supervisor when that ends. A supervisor that
  dies leaves its child behind, so two controllers may be on their way at once.
* **The controller's main thread** maintains the idle slots one after another, while
  pool threads, one per busy slot, run the jobs.

### 1.3 What is hard, and what makes each part correct

* *Slot worker and watchdog.* Interleaving of two recoveries over a mutex nobody
  waits for; decisions on stale answers; crashes with an orphan child left behind.
  Correct when a child that is being read is left alone, a result is read from one
  process only, only the fenced process is killed, an owed restart is not forgotten,
  and a quarantine ends.
* *Restart and UI budgets.* Several processes, a wall clock that may be set back,
  crashes between a durable write and the action it pays for. Correct when attempts
  keep their distances, one per process, and nothing is stopped without its row.
* *Agent.* Lost, repeated, late calls. Correct when published news never goes back and
  every process is published in the end.
* *Scheduler, its process and its supervisor.* Choice made before minutes of preparation;
  drain at any moment; a disk that is full at any report; a crash of either process.
  Correct when a busy slot is never touched, no job vanishes with its result, no controller
  works over an unfinished preparation, a drain ends the controller quietly and for good,
  and no slot starves.
* *LiveUpdate.* Minutes of observation that other processes invalidate; renames that
  fail half way. Correct when only silent updaters are killed, only dead packages
  archived, nothing is launched over an update, and the terminal comes back.
* *Catalogues.* Everything is decided on old snapshots while MT5 rewrites its files.
  Correct when no name is lost and the slots converge.
* *History.* A moving target read through whole-second inclusive windows, in a terminal
  whose account may change between the reads. Correct when a batch is a snapshot of one
  account, nothing is skipped and the import ends.
* *Telemetry.* Two processes, a table that may be locked, clocks. Correct when events of a
  code keep their distance and a transient failure is reported only where it persists.

The full list of hazards, each at its line and with the properties that are aimed at
it, is in `PROJECT.json`.

## 2. The modules

| Module | Models | Composition |
|---|---|---|
| `SlotRecovery` | one slot: worker, watchdog, API row, terminal, native children, mutex, late calls | its lease is what `JobDeadline` justifies, its stop and start are what `Restart` details |
| `SlotRecoveryProofs` | theorems | extends `SlotRecovery` |
| `Throttle` | abstract: grants spaced globally and per slot | implemented by `Restart` and `UiRecovery` |
| `Restart` | budget and start for a whole pool and several callers | instantiates `Throttle` |
| `RestartProofs` | theorems and the refinement; theorems about `CatalogueSync` | extends `Restart`, instantiates `CatalogueSync` |
| `UiRecovery` | the watchdog's sightings, its fence and its budget file | instantiates `Throttle` |
| `UiRecoveryProofs` | theorems and the refinement | extends `UiRecovery` |
| `NodeSession` | the attempts of the agent's calls | details what `SlotRecovery` takes as one step |
| `NodeSessionProofs` | theorems | extends `NodeSession` |
| `JobDeadline` | one job in seconds | supports `SlotRecovery` |
| `JobDeadlineProofs` | theorems | extends `JobDeadline` |
| `Scheduler` | the controller's loop `run_slots` | above the workers |
| `Production` | its process, mutex, drain file, marker, and its supervisor | extends `Scheduler` with what surrounds the loop |
| `ProductionProofs` | theorems; theorems about `Telemetry` | extends `Production`, instantiates `Telemetry` |
| `LiveUpdate` | terminal, updater, two callers of `start_terminal` | beside `Restart` |
| `LiveUpdateProofs` | theorems | extends `LiveUpdate` |
| `CatalogueSync` | exchange of catalogues among slots and builder | uses fencing and stopping as steps |
| `History` | first import of one account | inside the native child |
| `HistoryProofs` | theorems | extends `History` |
| `Telemetry` | reports of any number of processes and slots | beside all of them |
| `MC...` | model values, symmetry and state constraints for TLC | extend their module |

Two proof modules speak of two components each: what `RestartProofs` says of stopping and
starting terminals is continued with what is stopped and started for a catalogue, what
`ProductionProofs` says of the service with what the service reports.

### 2.1 SlotRecovery

State: the live terminal `proc` (a new number for each pid:creation-time, 0 for
none), the mutex `lock`, the children `kids` (each with the lease it serves, the process
it was started for, and the set `saw` of processes it has actually been attached to:
the native library finds a terminal by path), the API's row `api`, the requests
`late` whose callers gave up, and one program counter and record for the worker
(`wpc`, `worker`) and the watchdog (`dpc`, `watchdog`).

Actions: the worker's follow `prepare_inventory` and `once` line by line: one action
per HTTP call (the moment the API handles it), with the local work up to the next
call merged into it. `WDispatch` enters the maintenance, `WInspect` and `WSnapshot` take
the inventory, the session, report and recovery actions follow, then claim,
credentials, child, and the result. `Collected` results keep which processes were
seen. The watchdog's actions follow `recover_quarantined` and `fence_ui_failure`. The
environment lets the terminal exit, appear or be replaced, leases expire, late requests
be applied, orphan children end, and either party crash at any step. A crash loses the
party's memory, frees the mutex and leaves a child running. So does, without a crash, a
child that outlives its kill: `run_child` waits five seconds for it and raises
(`WChildOutlives`).

The state that decides correctness is split over three places (API row, worker
memory, live process), and each property relates at least two of them.

### 2.2 Restart, Throttle

`rows` is the sqlite table, `marker` the launch marker, `granted` and `launches` are
history variables with every row inserted and every start. `Enter` .. `Launch` follow a
caller from finding the process under the mutex to `Popen`; `GiveUp` stands for every
return or exception in between (a refusal, a stop that fails, an updater, a crash);
`SetClock` moves the wall clock *anywhere*. `Throttle` says only: a grant is at least
`Global` after or before every other and `PerSlot` apart from those of its slot.

### 2.3 UiRecovery

`observations` is the in-memory state of `observe`; `log` is a history variable with
every answer seen since the watchdog started, from which `Persistent` states what
persistent evidence means without repeating the counters of the code. `Reserve`,
`Replace`, `Fence` are the three steps of a fence: budget decision, replacement of
the file on disk, call to the API. `Crash` may fall between any two of them.

### 2.4 NodeSession

One slot's agent, each call as up to three attempts with the same body. An attempt is
answered, lost before it is applied, applied without an answer, or given up and
delivered when nobody waits. After a job another may be claimed without a new report. An
inventory that finds no process, or fails, opens a session as well (`processIdentity` is then
`None`): to the protocol it is one more identity, and `ProcessChanges` stands for it too. The API's session is a compare-and-set on the generation.
The agent keeps its session, its report number and its claim only in memory: `Crash` forgets
them at any step and leaves the call under way to the network. `abandoned` is a history
variable, the claims that ended in an error for the agent, or with it.

### 2.5 JobDeadline

Time passes in seconds (`Tick`) through the check of the remaining lease, the child, its
watch loop, the heartbeats and the three attempts of the final report. It justifies the
step of `SlotRecovery` where a lease does not expire under a watched child.

### 2.6 Scheduler, Production

Each slot has its future, and `waiting` for a due time that lies in the future; due times
pass by themselves. The main thread's actions are the phases of `run_slots`. A
maintenance that refuses, one that raises, a preparation that fails, a drain request
at any moment and `--once` are all included; a job may end, well or by raising, between
any two steps. While the disk is `full` a result that cannot be reported counts as a failure,
and a failure that cannot be reported leaves the loop (`EmitRaises`): `pc` is "raising", while
an end in order is "leaving". Either way the pool's context waits for the jobs under way
(`JoinPool`, to "raised" or "exit"). What `run_slots` returns is left out: it only
chooses the exit code of `--once`.

`Production` adds the two processes. `supervisor` is the program counter of the
supervisor's loop and `child` what it waits for; `strays` are controllers whose supervisor
died and a controller run by hand; `active` counts controllers past the mutex, one at
most, and the loop's variables are those of that one. `Check` stands for the
configuration, the token, the API and the slots' markers and may fail at any of them;
`Start` is `Popen` with the report that follows it. If that report raises because the disk is
full, the handler's own report raises too: the supervisor ends and its child has become
an orphan. `marker` is `.server-preparing`: set and removed by the preparation, `"left"` by a
crash in it, and only an operator clears it. The controller's crash halts the loop and frees
the mutex; the supervisor's crash does not touch the controller.

### 2.7 LiveUpdate

The package is a set of files with a version number that grows with each change; `age`
is how long it has been unchanged. Both callers keep their own memory of what they
saw and when. Updaters may be hidden from enumeration (elevated), show a prompt, end,
start the terminal, be replaced; exclusive handles make a start wait or fail as in the
code. A rename may fail, and a caller may crash between two. `Enter` takes the process of
the terminal, that of the updater and its file in one look; the file is looked at last, so
that an updater which starts meanwhile counts.

### 2.8 CatalogueSync

A catalogue is a set of names. The terminal has its own copy in memory (`memory`) and
writes it to `file`. Inspections give snapshots (`view`) that age. The controller's
installation goes through compare, fence, stop, backup, replace and start, each its own
action; it may fail, stop or crash at each. `late`, chosen in `Init`, says whether MT5
also exits, appears or rewrites while the slot's mutex is held: the code cannot
prevent that, so both worlds are checked.

### 2.9 History

Deals are numbers, and `at` gives their times in milliseconds; the native library counts
whole seconds, both ends included. `known` grows at any moment. A collection plans its
window, halves it until a count fits, reads it, counts, reads again, counts again,
and asks for what is older; the API commits a batch with its cursors at once.
`granted` is what the account's password allows, and `job.session` what the terminal is logged
in to: `identity` compares the two between the reads, `SessionChanges` may come between any
two steps, and the ghost `job.seen` collects the sessions the stored reads were made in.
What another account's history would contain is not modelled, since a job that met one ends
at the next `identity`; that it does is what `OneAccount` says.

### 2.10 Telemetry

`report` and `reserve_event`, for any processes, slots, codes and thresholds. The clocks are no
variables: each report comes with a reading of the monotonic clock, which does not go
back, and of the wall clock, which may by `Ahead` at most. The transaction on the table
succeeds (`ByTable`), fails (`ByMemory`), or fails when it is committed (`CommitFails`).
In that last case the row that was rolled back is already in the process's memory, which
then answers that the event has been sent: it is swallowed. The ghosts `sent` and `log` are the
events, and the failures of a slot since it last recovered.

## 3. The runs

| Run | Cfg | Properties | What it shows |
|---|---|---|---|
| `safety` | `SlotRecovery_safety` | `TypeOK`, `ChildProtected`, `CollectedFromOneProcess`, `OneChildPerProcess`, `OnlyFencedKilled`, `IntentKept` | the slot's safety with a lost answer of any call, or a crash of either party, anywhere |
| `recovery` | `SlotRecovery_recovery` | `QuarantineEnds` | whoever of the two gets there, and if either crashes meanwhile, a fenced process is replaced and the replacement published |
| `dialogs` | `SlotRecovery_dialogs` | `NoDialogsDuringChild` (violated) | section 8 |
| `restarts` | `Restart` | `Spaced`, `OneAttemptPerProcess`, `LaunchesSpaced`, `StoppedWasRecorded`, `ImplementsThrottle` | the shared budget under two callers, two slots and any clock |
| `fencing` | `UiRecovery` | `FencedOnEvidence`, `EvidenceIsActedOn`, `ImplementsThrottle` | a fence exactly on persistent evidence, within a budget that survives crashes |
| `retry` | `NodeSession_retry` | `LeaseIsHeld`, `PublishedIsRegistered`, `NoOldNews`, `ProcessIsPublished` | two failed attempts anywhere, or a crash of the agent, never put old news before new, and lose no process |
| `outage` | `NodeSession_outage` | `ProcessIsPublished` (violated) | a third one does: section 8 |
| `controller` | `Production` | `NeverMaintainBusy`, `ExitsQuiet`, `DrainStopsDispatch`, `ResultsReported`, `NotOverUnfinished`, `ControllerEnds`, `EverySlotServed` | loop, process and supervisor with two mishaps: crashes, full disk, orphans, draining or not, `--once` or not |
| `deadline` | `JobDeadline` | `ChildEndsInTime`, `ReportedInLease`, `HeartbeatsGoOn` | real seconds: 125 s child, 35 s reserve, 40 s minimum, 20 s heartbeat, attempts of 10 s, `Retry-After` of 4 s |
| `update` | `LiveUpdate` | `KilledWasSilent`, `ArchivedWasDead`, `NotLaunchedOverUpdate`, `TerminalComesBack` | what the code observed is still true when it acts, and no dead update blocks for ever |
| `names` | `CatalogueSync` | `NothingLost`, `NamesKept`, `Spread` | strict supersets only, and convergence |
| `import` | `History` | `NothingSkipped`, `OneAccount`, `BatchIsSnapshot`, `ImportEnds` | first import during a download, with a terminal that may change its account |

`PROJECT.json` also lists, for each property of a passing run, one plausible bug in the
code under which TLC finds the property violated; the bugs are operators next to the
definition they alter, under a comment that begins `Mutant`. They show that no
property is vacuous under its bounds.

Every module but `Throttle` defines a `TypeOK` that documents its variables (`Production`'s has
`Scheduler`'s). One run lists it, for `SlotRecovery`; it is proved for all of them.

`Telemetry` has no run: its properties are proved, for all constants (section 7).

Notes on some properties:

* `NothingLost` holds as long as MT5 leaves a slot alone whose mutex is held. When it
  does not, the hash comparison and the stop leave a gap in which a rewrite is
  overwritten; `NamesKept` then says the name is in another catalogue or in some slot's
  backup. It need not be the slot's own: with three slots, a terminal that appears while
  another catalogue is being installed writes its old memory over a name that reached its
  file only; the one other file that had the name may have been replaced before, into *its*
  slot's backup.
* `Spread` is conditional on no temporary file being left by a crash: such a leftover in
  one slot makes the exclusive creation fail in every later round, and since the same
  pair is chosen each time it holds up all other slots. This is the code's behaviour.
* `ImportEnds` is stated for accounts that `Fits` describes: two neighbouring seconds never
  hold more than `Dense` deals, and open positions leave room for a dense batch. Other
  accounts are refused with `BATCH_TOO_LARGE`, as documented.
* `NotOverUnfinished` allows one way to work over an unfinished preparation: the supervisor
  looks for the marker some time before its child reaches the mutex. If the supervisor
  dies in between and an orphaned controller crashes in a preparation, the child starts over
  what that one left. It takes two mishaps, and the run reaches it.
* `EverySlotServed` is conditional on nobody draining the service, on room on the disk and on
  no marker being left: the supervisor refuses to start over one until an operator has
  looked, every 30 seconds, for all slots.
* `OneAccount` is checked with one change of the session in a job. A change and its reversal
  between two `identity` calls would go unnoticed.
* `ReportedInLease` is checked with the longest `Retry-After` for which it holds, four seconds;
  the code obeys up to ten. The theorem `LastInLease` has the exact condition, `ReserveCovers`:
  the reserve exceeds five seconds of reading, two attempts that time out, and the pauses,
  each the larger of the client's own (1 and 2 seconds) and the `Retry-After`. With the code's 35
  and 10 seconds a `Retry-After` of five seconds outlasts the reserve, and so may attempts that
  take longer than ten: `timeout=10` (`node_agent.py:67`) bounds each operation on the socket and
  not the attempt. For those, read `HttpTimeout` in the condition as the longest attempt there is.
* `ResultsReported` excuses two ways of losing a result: a crash of the process, and a full disk
  that throws the controller out of its loop, after which nobody reaps the pool's jobs.
* `EvidenceIsActedOn`: evidence is a UI error, whichever, of one process and generation, as in
  the code; acting on it is trying the reservation, which the budget may still refuse.
* `LeaseIsHeld` allows a lease nobody works on only if the very claim that got it ended in
  an error for the agent, or with it.

## 4. Bounds, and why they are enough

Every bound is a constant, named in the module that uses it, and stops an action by a
guard; state constraints are in the MC modules.

* `SlotRecovery`: two processes and two generations (the fenced one and its
  replacement), two leases (an orphan's and its successor's). `MaxFaults`,
  `MaxCrashes` = 1 with `OneMishap` (one or the other, in one behaviour; nor a lost answer
  along with an orphan). A second
  mishap would need further processes to have a new effect; all the safety properties are
  proved for all bounds, any number of mishaps of both kinds included. `recovery` needs one
  lease and two processes, and has one crash of either party. Three constraints keep it small:
  `Unread` leaves out what children have read, which no step looks at; `Unexhausted` ends a
  behaviour when the identities or generations are used up and nothing is claimed any more;
  `CrashWhileFenced` follows the crash while the terminal is fenced, since at any other time the
  party that starts again only makes another beginning. `dialogs` keeps to the orphans a crash
  leaves (`CrashOrphans`).
* `Restart`: clock readings 0..2 with `Global` 1, `PerSlot` 2, `Grace` 2: there are two
  readings that are too close for a slot but far enough apart for the pool, and one
  that is far enough for both. `FewProcesses`: two processes in one slot, or
  one in each. The theorems hold for all values.
* `UiRecovery`: three passes, three sightings, readings 0..2; `OneVaries` lets one slot
  show everything at a clock that jumps, the other only one error at a clock that does
  not; two slots are needed for the global distance. Distances between grants of one
  slot are mostly beyond these bounds. The theorems hold for all values.
* `NodeSession`: three processes, so that old, current and next exist; two faults in
  `retry`, as the client makes three attempts; three in `outage`. `OneMishap`: faults or the
  crash, in one behaviour; the safety properties are proved for any number of both, and what
  both together mean for liveness is in section 8.
* `Production`: two slots, so that one is busy while the other is maintained, prepared or
  fails; two mishaps (`MaxMishaps`: crashes and times the disk fills), as a supervisor and
  its controller can each meet one, and the second may hit what recovers from the first;
  one controller without a supervisor (`MaxStrays`) beside a supervised one.
* `JobDeadline`: the code's own seconds; what may remain of the lease lies just around
  each comparison (39, 40, 41, 159 = 124 + 35, 161). A heartbeat takes at most `CallMax` = 38:
  three attempts of ten seconds and two pauses of four. The theorems hold for any seconds.
* `LiveUpdate`: two versions, two updaters, but at most three changes (`MaxChanges`), one
  failed rename or crash; `Stall` is two ticks, `Gap` one. Enough for a change between
  any two looks, and for one after an archive that was interrupted. The theorems hold for all
  values.
* `CatalogueSync`: two slots and the builder, two names (so that catalogues may be
  incomparable), two rewrites and one fault. The theorems hold for all values, which matters
  here: what `NamesKept` has to allow shows only with three slots (section 3).
* `History`: a second is two milliseconds, windows are three seconds long, one of which
  lies ahead in the first; three deals lie anywhere before the end of the first window,
  and a dense batch is one deal, so that windows are halved down to neighbouring seconds,
  boundaries and shared milliseconds all occur. A failure and a change of the session
  share one budget (`MaxFailures`). `Reduced`
  numbers deals by time, and leaves out accounts whose positions alone fill a result. The
  theorems hold for any finite set of deals, any second and any window.

## 5. Fairness

* `SlotRecovery`: both loops run for ever and every call in them has a timeout, hence weak
  fairness of each party's steps; leases expire and configurations age with time. Strong
  fairness is assumed for what is refused only for bounded times and tried for ever:
  a kill (the restart budget refuses for 120 or 900 s), a start (its grace, an updater), an
  inventory, and finding the mutex free. The loops have different, unsynchronised periods
  (5 to 60 seconds), so one does not lose every race.
* `NodeSession`: the scheduler returns to each slot for ever; outages and crashes end.
* `Production`: the main thread only waits for bounded calls; children are killed at their
  deadline; due times pass; an inventory tried for ever succeeds in the end, and so does the
  supervisor's check (strong fairness) unless a marker is left. The scheduled task starts
  a supervisor that ended. Nothing is assumed about the disk, the operator or crashes.
* `LiveUpdate`: strong fairness for entering (the mutex may be busy), weak for each
  pass and for time; *nothing* is assumed about MT5: `TerminalComesBack` is conditional
  on updaters that the code may not touch.
* `CatalogueSync`: weak for the controller, for recovery of absent or fenced terminals,
  strong for inspections, which a busy slot postpones.
* `History`: a claimed job ends; the API offers each kind of job again and again. Planning
  one kind may be disabled by the other being under way, hence strong fairness.

`Restart`, `UiRecovery`, `JobDeadline` and `Telemetry` have safety properties only.

## 6. What is assumed about code that is not here

The API (a Nest service), MT5 and the Windows Task Scheduler are outside this repository. Their operators are
translated from how `src/` and its documents use them and are marked external:

* a session call is accepted only when its `expectedGeneration` is the current one; a
  repeat of an accepted session, report, claim or completion changes nothing;
* a session for another process ends the quarantine, one for the quarantined process
  keeps it, and "no process" cannot be registered while there is one; under an active
  lease only a session for the registered process is accepted;
* a report with an old generation or under quarantine is refused;
* the host's clock and the API's agree: the worker takes what remains of a lease off
  its own clock (`worker.py:180`), so a clock that is behind lets a lease end under a watched child.
  By as much as they may differ the reserve of `JobDeadline` is smaller;
* a lease ends by completion, failure or expiry, and expiry quarantines its process;
  `/prepare` is refused under an active lease;
* a batch and its cursors are committed together (`History`);
* the native library attaches by path and counts whole seconds, both ends included;
  what the terminal has downloaded only grows during an import;
* a package is not downloaded in the instant between a caller's last look and its
  `Popen` (`LiveUpdate`): process and file handles are checked immediately before it;
* the scheduled task starts the supervisor again when it has ended, and Windows does not end
  a child with its parent (`Production`);
* a terminal changes its session at most once within a job (`History`);
* `Now` is fixed during the first import: later windows only add newer deals.

Reading a process and using it in the next local statement are merged into one step where
no call lies between them.

## 7. What is proved

For all values of the constants, with tlapm. Each module names what it assumes of its
constants in one `ASSUME`, which TLC evaluates in its run:

* that bounds are natural numbers, and nothing else: `BoundsAssumption` (`SlotRecovery`) and
  `ProductionAssumption` (`Production`);
* `BudgetAssumption` (`Restart`): a non-empty pool, positive distances; `UiAssumption`
  (`UiRecovery`): at least one sighting, and naturals;
* `SessionAssumption` (`NodeSession`): at least one process and one report;
* `TimingAssumption` (`JobDeadline`): seconds are naturals, a beat is positive, and the reserve is
  no larger than the least lease a job is started with (35 and 40 in the code);
* `UpdateAssumption` (`LiveUpdate`): `Gap`, the pause that has to lie between two looks at an
  orphaned package, is positive and no longer than `Stall` (60 and 600 seconds in the code);
* `HistoryAssumption` (`History`): windows are whole seconds and longer than what of the first
  lies ahead; a batch of `Dense` deals is within the limits; the deals are a finite set;
* `CatalogueAssumption` (`CatalogueSync`: a non-empty pool) and the `Thresholds` of `Telemetry` (a row is
  kept longer than the reminder and the tolerated step of the clock together: 7 days against
  6 hours and a minute). They are hypotheses of the theorems, as these two modules are
  instantiated.

Two theorems need more, and say so in their statement: `EvidenceSuffices` that at least two
sightings are required (the code requires three), `LastInLease` the condition `ReserveCovers` of section 3.

`SlotRecoveryProofs`:

* `TypeCorrect`: `Spec => []TypeOK`.
* `ChildIsProtected`: `Spec => []ChildProtected`.
* `ResultsFromOneProcess`: `Spec => []CollectedFromOneProcess`.

Neither of the last two is inductive. Their invariant `IInv` adds: who is at which program
point holds the mutex (`MutexHeld`); whenever the API's generation is the worker's, the
registered process is the worker's too, and no session call still on its way carries that
generation (`SessionsUnique`); lease numbers are handed out once, and an active lease
excludes a quarantine (`LeasesUnique`); the claimed lease is for the session's process, has
one child, and nothing on its way can end it (`LeaseOwned`); and as long as the process is
the one the job was claimed for, the child, the result in the worker's hands and any
completion on its way have seen no other (`ReadFromOne`). The generation argument is essential: a
worker with a stale view is stopped neither by the mutex nor by its own checks, only
by the API refusing a generation that is not the current one. Steps are proved in
groups: most actions leave the API's registration and lease (`QuietRemote`), the
worker's job (`QuietWorker`) and the terminal (`QuietTerminal`) alone, and one lemma
per such group carries the invariant; the few actions that do not are proved
one by one.

* `ChildrenApart`: `Spec => []OneChildPerProcess`.
* `KillsFencedOnly`: `Spec => OnlyFencedKilled`.
* `IntentSurvives`: `Spec => IntentKept`.

They rest on a second invariant, `JInv`, with `IInv` beneath it. A kill is two steps, the check of `/config`
and the termination, and nothing locks the API between them. `StopIsFenced` says that the fence
stands meanwhile as long as the process is there to be killed: only a session for *another*
process could lift it, and `IdentitiesOrdered` says that a request still on its way that can be
accepted names no older process than the one registered, and none newer than the last one
started. `GenerationsUnique` keeps refused requests refused: a generation is proposed
once and processed at most once. `ChildrenBound` follows a child left behind by a crash: first
its lease is active, then its process is fenced, then the process is gone (`Superseded`), and
in none of the three can a second child be started on it.

`RestartProofs`:

* `TypeCorrect`, `StopsSpaced`, `AttemptsUnique`, `StartsSpaced`: the invariants of `restarts`.
* `StopsRecorded`: `Spec => StoppedWasRecorded`.
* `Refinement`: `Spec => ImplementsThrottle`: every step of the pool is a step of
  `Throttle` or leaves it alone.

The invariant adds `Exclusive` (the mutex), `RowsBehind` and `RowMatches` (a row never
names a newer process than its caller knows; after the reservation it names exactly
that one), `RowsCover` (every grant ever made is no later than the row its slot has
now, so that comparing with the table is comparing with all of history)
and `MarkersCover` (the same for launches). Because the clock may be set anywhere,
distances do not follow from the order of events, and `RowsCover` is what they rest on.

* `CataloguesTyped`, `NamesNotLost`, `NamesAreKept`: `TypeOK`, `NothingLost` and `NamesKept` of
  `CatalogueSync`. Everything an installation decides on is old. `InStep` says what does not age while
  MT5 leaves locked slots alone: a terminal's memory is its file, what is installed contains the
  target's names, and they are still the target's when it is replaced. When MT5 does not,
  `Covered` is left: every name of a file is in a backup, or in the file of a slot that will
  not write it away (its terminal is down, or has loaded it), before each replacement
  and after it.

`ProductionProofs`:

* `TypeCorrect`: `Spec => []TypeOK`.
* `BusyUntouched`, `EndsQuiet`, `DrainHeeded`: the invariants of the loop. The inductive one,
  `LoopInv`, adds that the slot being maintained has left the round's list (`OnceARound`: it
  cannot be chosen twice while its job runs), and that the one job handed out after a drain
  is the last, since no maintenance can follow it (`OneAfterDrain`).
* `ResultsKept`: `Spec => ResultsReported`. What is left of the pool is thrown away when the loop is
  begun anew or its process ends. `LeftQuiet` says that a loop which is left in order, by its
  last round, has no job at all, done or running; `NoLoopWithout` that no loop stands
  half way while there is no controller.
* `UnfinishedKept`: the processes. `Unharmed` says that before any mishap
  there is no controller but the supervisor's child; `LeftAlone` that, if the first mishap is
  a crash in a preparation, no controller is there or on its way and none is started. A
  controller over an unfinished preparation therefore takes two mishaps.

About `Telemetry`, in the same module:

* `ReportTypeCorrect`: `TypeOK`.
* `EventsSpaced`: `[]OnePerReminder`. Rows are deleted and rolled back, so the table alone
  does not tell which events there were. `RowsCover`: the row of an event's key is the
  event's or a later one's, or the event is more than `Keep` back, further than any reminder
  reaches. A row further ahead of the clock than `Ahead` counts as free in the code;
  `Renewed` shows that this never happens while the clock is set back no further.
* `EventsPersistent`: `OnlyPersistent`. `CountsStand`: the three numbers kept of a slot's
  failures stand for as many last entries of its log, none more than `Gap` apart,
  although counts are dropped to make room and begin again after a silence.

`UiRecoveryProofs`:

* `TypeCorrect`: `Spec => []TypeOK`.
* `EvidenceNeeded`, `EvidenceSuffices`: `[]FencedOnEvidence` and `EvidenceIsActedOn`.
* `Refinement`: `Spec => ImplementsThrottle`. `FencesSpaced` is what it is good for: `Throttle` itself
  keeps `Spaced` (`ThrottleSpaces`), so the fences are spaced too.

The code keeps a count and two times for each slot. `ObservationsStand` ties them to the log of all
answers: they stand for its last entries, all UI errors of one process and generation, without a gap (`Stands`),
and what comes before those does not belong to them (`Whole`). The first half gives that a fence has
its evidence, the second that evidence is acted on; since the clock may be set anywhere,
`Ordered` limits the latter to logs whose clock did not go back, as the property does.
`BudgetCovers` and `CurKnown` say what the file promises: no grant is later than it, and
the grant being written was allowed by it, through a crash at any of the three steps.

`NodeSessionProofs`:

* `TypeCorrect`, `PublishedRegistered`, `LeaseHeld`: `TypeOK`, `PublishedIsRegistered`, `LeaseIsHeld`.
* `NeverOlder`: `Spec => NoOldNews`.

The invariant speaks of `Bindings`, every pair of a generation and a process that the API, the
agent or a request on its way holds. A generation is made for one process (`OneProcess`), no
process is named before it exists (`NoneAhead`), and a session expects a generation of no later
process than its own (`InOrder`). `ClaimsKnown` says where the claims are that may still be
applied: the agent's, finished, or abandoned.

`JobDeadlineProofs`:

* `TypeCorrect`, `EndsInTime`, `LastInLease`, `BeatsGoOn`: `TypeOK` and the invariants of `deadline`.

The invariant is an account of the seconds: while the child is watched its timeout and the
reserve fit in the lease (`WatchedInTime`), after it each step has taken from the reserve
at most what the steps before it may (`ReserveSpent`), no step outlasts its timeout
(`StepsBounded`), and a child that runs has a loop (`ChildWatched`) that looks at the heartbeats every
second (`BeatsBounded`).

`HistoryProofs`:

* `TypeCorrect`: `Spec => []TypeOK`.
* `ImportIsWhole`, `ResultOfOneAccount`: `[]NothingSkipped` and `[]OneAccount`.
* `BatchIsWhole`: `Spec => BatchIsSnapshot`.

First come lemmas about whole seconds: what rounding a time down and up gives, and that sums,
differences and the middle of windows are whole again, so that the library's inclusive
seconds cover every window. `PagesOrdered` and `JobFits` keep the cursors and the planned
window together, `WindowRead` says what a batch holds of its window, `NothingOlder` what two empty counts
mean, and `ImportCovers` what is committed above each cursor. `SessionSeen` is the history of the job's
session. That a batch *is* a snapshot is a fact about finite sets: what was read is still
there (`BatchKnown`), and a subset with as many elements is the whole set.

`LiveUpdateProofs`:

* `TypeCorrect`: `Spec => []TypeOK`.
* `UpdatersSilent`, `PackagesDead`, `StartsOverNothing`: `KilledWasSilent`, `ArchivedWasDead`,
  `NotLaunchedOverUpdate`.

`Truthful` says what a memory is worth: if the package is still the one remembered, it has been
unchanged for as long as the memory says, whatever happened in between and whoever
looked. `Grounded` says what each place in a pass has seen that nobody can undo before it acts,
and `UpdaterLast` that an interrupted archival leaves the updater's file, which the next start sees.

Only model-checked: the liveness properties `QuarantineEnds`, `ProcessIsPublished`,
`ControllerEnds`, `EverySlotServed`, `TerminalComesBack`, `Spread` and `ImportEnds`, as liveness under
fairness is outside the prover. Every safety property of a passing run is proved.

## 8. What the runs found

* `dialogs`: "Maintenance between jobs only; no dialogs while a native child holds the
  slot" (`src/app/collector/worker.py:128`). A worker that crashes leaves its child
  attached; the mutex is abandoned and granted to the next worker, whose inventory opens
  login dialogs over the orphan. (So it is, without a crash, after a killed child that outlives
  the five seconds it is waited for; the run shows the crash.) The result is not corrupted (`ResultsFromOneProcess`
  holds, as the orphan cannot report), but the comment does not hold after a crash.
* `outage`: "Retain sessions/restart intent. Refresh authoritative config on next
  attempt" (`src/app/collector/scheduler.py:45`). When all answers to an applied session
  call are lost, the agent keeps the old generation, prefers it over the refreshed
  configuration, and every later session call is refused until the process restarts. A
  second way to the same state needs a crash and one delayed call: the agent that starts
  again registers its process under the lease of the claim that died with it; the terminal
  is replaced, a session call for the replacement is delayed and its second attempt refused
  because of the lease; the lease expires, the delayed call is applied, and the agent goes on
  expecting the generation it replaced. (`NodeSession_outage.cfg` with `MaxCrashes`, `MaxFaults`
  and `MaxClaims` set to 1 shows it.) A restart of the controller ends both: the new agent
  has no session to prefer and takes the generation of its configuration.

## 9. What is not modelled

* Clock observation compares two samples and appends to a file nothing reads back; decoding
  of brokers, builds and public files is without state.
* The server builder's dialogs, log summaries, probes, window enumeration: they drive or read
  Windows, without shared state.
* Validation of configuration files and API responses: taken as valid.
* In `gateway.py`, `login_failure` reads the terminal's journal to choose between two error codes
  of a login that failed; both end the job. A native library without `history_deals_total`
  (`count_verified`, lines 198 and 238-244), which counts nothing and never ends an import, is
  left out: the library of `requirements.txt` has it. In `normalization.py`, the validation of fields.
* Of telemetry, the sanitising of an event and the SDK's transport, which may lose what
  was reserved; its memory is not cut at 256 codes, of which the code has fewer.
* Of the supervisor, the decryption of the token, `--check-only`, and the same loop around the
  watchdog (which looks for no marker and drains in the same way).
* Where an archive of an orphaned package is put, and that the place is free (`update_recovery.py:71`).
* `observe_blocked_update` (a report to an operator), and logging where it has no effect.
* The capacity model (an offline simulation), scripts run by hand.
* The legacy HTTP and Redis service, which `src/README.md` calls legacy and no part of the collector
  uses: one native session per process and one job at a time per worker.

## 10. Plan

Modelled, checked and proved so far: sections 2, 3 and 7. What is left, in this order:

1. `Normalisation`, `ClockObservation`: operators checked against reference definitions.
2. `LegacyQueue`: routing by account and the shared native session.
3. Finer parts of what is partly modelled (`PROJECT.json` says which): the supervisor's loop
   around the watchdog, the builder's retry times, the classification of a failed login.

## 11. Running

    tlc -workers 2 -config SlotRecovery_safety.cfg MCSlotRecovery.tla
    tlapm RestartProofs.tla

The module and configuration of each run are in `PROJECT.json`. The longest runs take two
to three minutes with two workers.
