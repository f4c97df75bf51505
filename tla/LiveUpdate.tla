------------------------------- MODULE LiveUpdate -------------------------------
(***************************************************************************)
(* MT5's LiveUpdate against the recovery of one terminal: start_terminal    *)
(* and update_running of app/collector/server_preparation.py with           *)
(* app/collector/update_recovery.py.  A running terminal stages a package,  *)
(* exits and hands over to an updater, which replaces it and starts it      *)
(* again.  Whoever wants to launch the terminal must never do so over an    *)
(* unfinished update, and must not be blocked by a dead one for ever: a     *)
(* silent updater is killed, an orphaned package is archived.               *)
(*                                                                          *)
(* The worker and the watchdog both do this, each with what it remembers    *)
(* itself, excluding each other by the slot's mutex; the terminal, the      *)
(* updater and whoever starts them move in between.  Time is kept as ages,  *)
(* which stop counting at Stall.  What is only reported to an operator      *)
(* (observe_blocked_update) is left out: a pass that raises ends like one   *)
(* that declines.                                                           *)
(***************************************************************************)
EXTENDS Naturals, FiniteSets

CONSTANTS
    Callers,       \* processes that call start_terminal for this slot
    Stall,         \* STALL_SECONDS, in ticks
    Gap,           \* the minute between two looks at an orphan, in ticks
    MaxVersions,   \* bound: changes of the package
    MaxUpdaters,   \* bound: updater processes
    MaxChanges,    \* bound: both together
    MaxFaults      \* bound: renames that fail, and crashes of callers

ASSUME UpdateAssumption ==
    /\ Stall \in Nat \ {0} /\ Gap \in 1 .. Stall
    /\ MaxVersions \in Nat /\ MaxUpdaters \in Nat /\ MaxChanges \in Nat /\ MaxFaults \in Nat

VARIABLES
    terminal,   \* a terminal process runs
    updater,    \* identity of the updater process, 0 if none
    updaters,   \* identities used so far
    hidden,     \* it is elevated: find_process misses it
    visible,    \* it shows a window
    files,      \* what is left of the package in the liveupdate directory
    version,    \* its content: a new number with every change
    age,        \* time since its last change
    held,       \* files of that content that were archived
    pc, target, \* where each caller is, the updater it found
    memory,     \* what each caller remembers of earlier looks
    faults

vars == <<terminal, updater, updaters, hidden, visible, files, version, age, held,
          pc, target, memory, faults>>

processes == <<terminal, updater, updaters, hidden, visible>>
package   == <<files, version, age, held>>

Package == {"updater", "data"}
Looks == {"stalled", "orphan"}
Older(n) == IF n < Stall THEN n + 1 ELSE n

NoSignature == [updater |-> 0, version |-> 0, files |-> {}]
Forgotten == [sig |-> NoSignature, age |-> 0]
\* Mutant: every look starts the wait anew.
SeenNever(sig) == Forgotten

Seen(sig) == [sig |-> sig, age |-> 0]
Blank == [look \in Looks |-> Forgotten]

\* fingerprint: names, sizes and times of the files.
Fingerprint == [updater |-> 0, version |-> version, files |-> files]

Init ==
    /\ terminal = TRUE /\ updater = 0 /\ updaters = 0
    /\ hidden = FALSE /\ visible = FALSE
    /\ files = {} /\ version = 0 /\ age = 0 /\ held = {}
    /\ pc = [c \in Callers |-> "idle"] /\ target = [c \in Callers |-> 0]
    /\ memory = [c \in Callers |-> Blank]
    /\ faults = MaxFaults

(***************************************************************************)
(* The callers.                                                            *)
(***************************************************************************)
Goto(c, where) ==
    /\ pc' = [pc EXCEPT ![c] = where]
    /\ target' = IF where \in {"recheck", "kill"} THEN target ELSE [target EXCEPT ![c] = 0]
Remember(c, m) == memory' = [memory EXCEPT ![c] = m]
Found == IF hidden THEN 0 ELSE updater   \* find_process(updater)

\* start_terminal: the mutex, then one look for the terminal, the updater's process
\* and its file. The file is looked at last, so an updater started meanwhile counts.
Enter(c) ==
    /\ \A d \in Callers : pc[d] = "idle"
    /\ ~terminal
    /\ pc' = [pc EXCEPT ![c] = IF Found # 0 THEN "stalled"
                              ELSE IF "updater" \in files THEN "orphan" ELSE "launch"]
    /\ target' = [target EXCEPT ![c] = Found]
    /\ UNCHANGED <<processes, package, memory, faults>>

\* Mutant: the identity is not part of the signature.
SignatureOfFiles(c) == Fingerprint

\* recover_stalled_update, up to its recheck.
Signature(c) == [Fingerprint EXCEPT !.updater = target[c]]

LookStalled(c) ==
    LET m == memory[c]
        forget == [m EXCEPT !["stalled"] = Forgotten]
    IN  /\ pc[c] = "stalled"
        /\ \/ terminal /\ Goto(c, "idle") /\ Remember(c, forget)
           \/ ~terminal /\ visible /\ Goto(c, "idle") /\ Remember(c, forget)
           \/ /\ ~terminal /\ ~visible /\ m["stalled"].sig # Signature(c)
              /\ Goto(c, "idle")
              /\ Remember(c, [m EXCEPT !["stalled"] = Seen(Signature(c))])
           \/ /\ ~terminal /\ ~visible /\ m["stalled"].sig = Signature(c)
              /\ Goto(c, IF m["stalled"].age < Stall THEN "idle" ELSE "recheck")
              /\ UNCHANGED memory
        /\ UNCHANGED <<processes, package, faults>>

Recheck(c) ==
    /\ pc[c] = "recheck"
    /\ \/ (terminal \/ Found # target[c]) /\ Goto(c, "idle") /\ UNCHANGED memory
       \/ /\ ~terminal /\ Found = target[c]
          /\ IF visible \/ memory[c]["stalled"].sig # Signature(c)
             THEN Goto(c, "idle") /\ Remember(c, [memory[c] EXCEPT !["stalled"] = Forgotten])
             ELSE Goto(c, "kill") /\ UNCHANGED memory
    /\ UNCHANGED <<processes, package, faults>>

\* terminate_verified: only the process that was found.
Kill(c) ==
    /\ pc[c] = "kill"
    /\ IF updater = target[c]
       THEN updater' = 0 /\ hidden' = FALSE /\ visible' = FALSE /\ Goto(c, "rename")
       ELSE UNCHANGED <<updater, hidden, visible>> /\ Goto(c, "idle")
    /\ UNCHANGED <<terminal, updaters, package, memory, faults>>

\* directory.rename: a directory with a running image cannot be renamed.
Rename(c) ==
    /\ pc[c] = "rename" /\ updater = 0
    /\ held' = held \cup files /\ files' = {}
    /\ Remember(c, [memory[c] EXCEPT !["stalled"] = Forgotten])
    /\ Goto(c, "launch")
    /\ UNCHANGED <<processes, version, age, faults>>

RenameFails(c) ==
    /\ pc[c] = "rename" /\ (updater # 0 \/ faults > 0)
    /\ faults' = IF updater # 0 THEN faults ELSE faults - 1
    /\ Goto(c, "idle")
    /\ UNCHANGED <<processes, package, memory>>

\* recover_orphaned_update, up to the handles.
LookOrphan(c) ==
    LET m == memory[c]
        old == m["orphan"]
    IN  /\ pc[c] = "orphan"
        /\ \/ /\ terminal \/ Found # 0
              /\ Goto(c, "idle") /\ Remember(c, [m EXCEPT !["orphan"] = Forgotten])
           \/ /\ ~terminal /\ Found = 0 /\ old.sig # Fingerprint
              /\ Goto(c, "idle") /\ Remember(c, [m EXCEPT !["orphan"] = Seen(Fingerprint)])
           \/ /\ ~terminal /\ Found = 0 /\ old.sig = Fingerprint
              /\ old.age < Gap \/ age < Stall
              /\ Goto(c, "idle") /\ UNCHANGED memory
           \/ /\ ~terminal /\ Found = 0 /\ old.sig = Fingerprint
              /\ old.age >= Gap /\ age >= Stall
              /\ Goto(c, "open") /\ UNCHANGED memory
        /\ UNCHANGED <<processes, package, faults>>

\* Mutant: no second look under the handles.
OpenOnce(c) ==
    /\ pc[c] = "open"
    /\ \/ (terminal \/ updater # 0) /\ Goto(c, "idle")
       \/ ~terminal /\ updater = 0 /\ Goto(c, "move")
    /\ UNCHANGED <<processes, package, memory, faults>>

\* exclusive_update_files: a running image, elevated or not, refuses the
\* handles; under them nothing starts and nothing changes, so the second look
\* is part of this step.
Open(c) ==
    /\ pc[c] = "open"
    /\ \/ (terminal \/ updater # 0) /\ Goto(c, "idle")
       \/ /\ ~terminal /\ updater = 0
          /\ IF memory[c]["orphan"].sig = Fingerprint
             THEN Goto(c, "move") ELSE Goto(c, "idle")
    /\ UNCHANGED <<processes, package, memory, faults>>

\* Mutant: the updater is not kept for last.
NextFilesAny == files

\* One file after the other, the updater's executable last.
NextFiles == IF files = {"updater"} THEN files ELSE files \ {"updater"}

Move(c) ==
    /\ pc[c] = "move"
    /\ \E f \in NextFiles :
         /\ files' = files \ {f} /\ held' = held \cup {f}
         /\ IF files = {f}
            THEN /\ Goto(c, "launch")
                 /\ Remember(c, [memory[c] EXCEPT !["orphan"] = Forgotten])
            ELSE UNCHANGED <<pc, target, memory>>
    /\ UNCHANGED <<processes, version, age, faults>>

MoveFails(c) ==
    /\ pc[c] = "move" /\ faults > 0 /\ faults' = faults - 1
    /\ Goto(c, "idle")
    /\ UNCHANGED <<processes, package, memory>>

\* _launch_terminal; its grace (module Restart) only postpones it.
Launch(c) ==
    /\ pc[c] = "launch" /\ terminal' = TRUE
    /\ Goto(c, "idle")
    /\ UNCHANGED <<updater, updaters, hidden, visible, package, memory, faults>>

Crash(c) ==
    /\ faults > 0 /\ faults' = faults - 1
    /\ Goto(c, "idle") /\ Remember(c, Blank)
    /\ UNCHANGED <<processes, package>>

(***************************************************************************)
(* MT5 and whoever else starts it (external).                              *)
(***************************************************************************)
Handles == \E c \in Callers : pc[c] = "move"
Launching == \E c \in Callers : pc[c] = "launch"

Bounded == version + updaters < MaxChanges

Changed(fs) ==
    /\ version < MaxVersions /\ Bounded /\ version' = version + 1
    /\ files' = fs /\ age' = 0 /\ held' = {}

\* A download takes minutes: it does not fit between a caller's last look and
\* its launch.
Stages ==
    /\ terminal /\ ~Launching
    /\ \E fs \in SUBSET Package : files \cup fs # {} /\ Changed(files \cup fs)
    /\ UNCHANGED <<processes, pc, target, memory, faults>>

TerminalExits ==
    /\ terminal /\ terminal' = FALSE
    /\ UNCHANGED <<updater, updaters, hidden, visible, package, pc, target, memory, faults>>

TerminalAppears ==
    /\ ~terminal /\ ~Handles /\ terminal' = TRUE
    /\ UNCHANGED <<updater, updaters, hidden, visible, package, pc, target, memory, faults>>

UpdaterStarts ==
    /\ "updater" \in files /\ updater = 0 /\ ~Handles /\ updaters < MaxUpdaters /\ Bounded
    /\ updater' = updaters + 1 /\ updaters' = updaters + 1
    /\ hidden' \in BOOLEAN /\ visible' = FALSE
    /\ UNCHANGED <<terminal, package, pc, target, memory, faults>>

UpdaterWorks ==
    /\ updater # 0 /\ Changed(files)
    /\ UNCHANGED <<processes, pc, target, memory, faults>>

UpdaterPrompts ==
    /\ updater # 0 /\ visible' = ~visible
    /\ UNCHANGED <<terminal, updater, updaters, hidden, package, pc, target, memory, faults>>

\* It ends, done (and starts the terminal) or not.
UpdaterEnds ==
    /\ updater # 0 /\ updater' = 0 /\ hidden' = FALSE /\ visible' = FALSE
    /\ \/ UNCHANGED <<terminal, files>>
       \/ files' = {} /\ terminal' = TRUE
    /\ UNCHANGED <<updaters, version, age, held, pc, target, memory, faults>>

Tick ==
    /\ age' = Older(age)
    /\ memory' = [c \in Callers |-> [look \in Looks |->
                    [memory[c][look] EXCEPT !.age =
                       IF memory[c][look] = Forgotten THEN 0 ELSE Older(@)]]]
    /\ UNCHANGED <<processes, files, version, held, pc, target, faults>>

Pass(c) == \/ LookStalled(c) \/ Recheck(c) \/ Kill(c) \/ Rename(c) \/ RenameFails(c)
           \/ LookOrphan(c) \/ Open(c) \/ Move(c) \/ MoveFails(c) \/ Launch(c)

External == \/ Stages \/ TerminalExits \/ TerminalAppears \/ UpdaterStarts
            \/ UpdaterWorks \/ UpdaterPrompts \/ UpdaterEnds

Next == (\E c \in Callers : Enter(c) \/ Pass(c) \/ Crash(c)) \/ External \/ Tick

Spec == Init /\ [][Next]_vars

\* Both callers come back for ever, not in step with each other, every pass
\* comes to its end, and time passes.
FairSpec ==
    /\ Spec /\ WF_vars(Tick)
    /\ \A c \in Callers : SF_vars(Enter(c)) /\ WF_vars(Pass(c))

(***************************************************************************)
(* Properties.                                                             *)
(***************************************************************************)
\* The variables have their types; at most one caller is inside
\* start_terminal (the slot's mutex), and a running updater has its image.
TypeOK ==
    /\ terminal \in BOOLEAN /\ hidden \in BOOLEAN /\ visible \in BOOLEAN
    /\ updaters \in 0 .. MaxUpdaters /\ updater \in 0 .. updaters
    /\ files \subseteq Package /\ version \in 0 .. MaxVersions /\ age \in 0 .. Stall
    /\ held \subseteq Package
    /\ pc \in [Callers -> {"idle", "stalled", "recheck", "kill", "rename",
                            "orphan", "open", "move", "launch"}]
    /\ target \in [Callers -> 0 .. updaters]
    /\ memory \in [Callers -> [Looks -> [sig : [updater : 0 .. MaxUpdaters,
                       version : 0 .. MaxVersions, files : SUBSET Package],
                       age : 0 .. Stall]]]
    /\ faults \in 0 .. MaxFaults
    /\ \A c, d \in Callers : pc[c] # "idle" /\ pc[d] # "idle" => c = d
    /\ updater # 0 => "updater" \in files

\* recover_stalled_update decides to kill only an updater under which the
\* package has been the same for STALL_SECONDS, whatever was written, ended or
\* started between the looks that decision rests on.
KilledWasSilent ==
    [][\A c \in Callers : pc[c] # "kill" /\ pc'[c] = "kill" =>
         age >= Stall /\ updater = target[c] /\ memory[c]["stalled"].sig.updater = updater]_vars

\* recover_orphaned_update takes a file away only when nothing runs and the
\* package has been the same for STALL_SECONDS: a freshly staged package is
\* not archived, even if it was staged after the caller's last look.
ArchivedWasDead ==
    [][\A c \in Callers : pc[c] = "move" /\ files' # files =>
         updater = 0 /\ ~terminal /\ age >= Stall]_vars

\* start_terminal never starts the terminal over an update: not while an updater
\* runs, not even one that process enumeration cannot see, and not over what an
\* archival that failed, or a crash in its middle, left of the package.
NotLaunchedOverUpdate ==
    [][\A c \in Callers : pc[c] = "launch" /\ pc'[c] = "idle" /\ terminal' # terminal
         => updater = 0 /\ (files = {} \/ held = {})]_vars

\* Unless an updater that shows a prompt or cannot be seen is there, the
\* terminal comes back: no dead update keeps it away for ever.
TerminalComesBack ==
    <>[](updater = 0 \/ (~visible /\ ~hidden)) => []<>terminal
===============================================================================
