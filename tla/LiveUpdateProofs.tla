--------------------------- MODULE LiveUpdateProofs ---------------------------
(***************************************************************************)
(* The recovery of stuck updates, for any number of callers, versions and   *)
(* updaters, any Stall and any Gap no longer than it, and wherever renames  *)
(* fail and callers crash.                                                  *)
(***************************************************************************)
EXTENDS LiveUpdate, TLAPS

\* What a caller remembers is of the package as it was then; if that is the
\* package still, it has been unchanged for as long at least.
Truthful(m) ==
    \A look \in Looks :
        /\ m[look].sig.version <= version
        /\ m[look].sig.version = version => m[look].age <= age

\* What each place in a pass has seen, and what cannot have changed since.
Grounded(where, found, m) ==
    /\ where \in {"stalled", "recheck"} => found # 0
    /\ where = "recheck" => m["stalled"].age >= Stall
    /\ where = "open" /\ m["orphan"].sig.version = version => age >= Stall
    /\ where = "move" => updater = 0 /\ ~terminal /\ age >= Stall
    /\ where = "launch" => "updater" \notin files

\* Of a package that was archived in part, the updater is what is left.
UpdaterLast == held = {} \/ files = {} \/ "updater" \in files

\* The inductive invariant.
IInv == /\ TypeOK /\ UpdaterLast
        /\ \A c \in Callers : Truthful(memory[c]) /\ Grounded(pc[c], target[c], memory[c])

Places == {"idle", "stalled", "recheck", "kill", "rename", "orphan", "open", "move", "launch"}
Memory == [sig : [updater : 0 .. MaxUpdaters, version : 0 .. MaxVersions,
                  files : SUBSET Package], age : 0 .. Stall]
Memories == [Looks -> Memory]

\* The numbers are numbers.
LEMMA Numbers ==
    ASSUME TypeOK
    PROVE  /\ Stall \in Nat /\ Stall # 0 /\ Gap \in Nat /\ Gap <= Stall
           /\ MaxVersions \in Nat /\ MaxUpdaters \in Nat /\ MaxFaults \in Nat
           /\ version \in Nat /\ version <= MaxVersions /\ age \in Nat /\ age <= Stall
           /\ updaters \in Nat /\ updaters <= MaxUpdaters
           /\ updater \in Nat /\ updater <= updaters
           /\ faults \in Nat /\ faults <= MaxFaults
  BY UpdateAssumption DEF TypeOK

\* What a caller remembers has its type, and so has what it sees now.
LEMMA MemoryType ==
    ASSUME TypeOK, NEW c \in Callers
    PROVE  /\ memory \in [Callers -> Memories] /\ memory[c] \in Memories
           /\ target \in [Callers -> 0 .. updaters] /\ target[c] \in 0 .. MaxUpdaters
           /\ pc \in [Callers -> Places] /\ pc[c] \in Places
           /\ Forgotten \in Memory /\ Blank \in Memories
           /\ Seen(Fingerprint) \in Memory /\ Seen(Signature(c)) \in Memory
           /\ \A l \in Looks : memory[c][l] \in Memory
  <1>1. memory \in [Callers -> Memories]  BY DEF TypeOK, Memories, Memory
  <1>2. target \in [Callers -> 0 .. updaters] /\ target[c] \in 0 .. MaxUpdaters
    BY Numbers DEF TypeOK
  <1>3. pc \in [Callers -> Places]  BY DEF TypeOK, Places
  <1>4. Forgotten \in Memory  BY Numbers DEF Forgotten, NoSignature, Memory
  <1>5. /\ Fingerprint = [updater |-> 0, version |-> version, files |-> files]
        /\ Signature(c) = [updater |-> target[c], version |-> version, files |-> files]
    BY DEF Fingerprint, Signature
  <1>6. files \subseteq Package  BY DEF TypeOK
  <1>7. Seen(Fingerprint) \in Memory /\ Seen(Signature(c)) \in Memory
    BY <1>2, <1>5, <1>6, Numbers DEF Seen, Memory
  <1>8. QED  BY <1>1, <1>2, <1>3, <1>4, <1>7 DEF Blank, Memories

\* Nothing remembered, or what is seen now, is truthful.
LEMMA FreshTruthful ==
    ASSUME IInv, NEW c \in Callers, NEW l \in Looks,
           NEW r \in {Forgotten, Seen(Fingerprint), Seen(Signature(c))}
    PROVE  /\ [memory[c] EXCEPT ![l] = r] \in Memories
           /\ Truthful([memory[c] EXCEPT ![l] = r]) /\ Truthful(Blank)
  <1>1. r \in Memory /\ memory[c] \in Memories /\ Truthful(memory[c])
    BY MemoryType DEF IInv
  <1>2. r.age = 0 /\ r.sig.version <= version
    BY Numbers DEF IInv, Forgotten, NoSignature, Seen, Fingerprint,
       Signature
  <1>3. age \in Nat /\ version \in Nat  BY Numbers DEF IInv
  <1>4. \A k \in Looks : [memory[c] EXCEPT ![l] = r][k] = IF k = l THEN r ELSE memory[c][k]
    BY <1>1 DEF Memories
  <1>5. Truthful([memory[c] EXCEPT ![l] = r])  BY <1>1, <1>2, <1>3, <1>4 DEF Truthful
  <1>6. Truthful(Blank)  BY <1>3 DEF Truthful, Blank, Forgotten, NoSignature
  <1>7. QED  BY <1>1, <1>5, <1>6 DEF Memories

\* At the start nothing is remembered and nothing is there.
LEMMA InitIInv == Init => IInv
  <1> SUFFICES ASSUME Init PROVE IInv  OBVIOUS
  <1>1. /\ Stall \in Nat /\ MaxVersions \in Nat /\ MaxUpdaters \in Nat /\ MaxFaults \in Nat
    BY UpdateAssumption
  <1>2. Forgotten \in Memory  BY <1>1 DEF Forgotten, NoSignature, Memory
  <1>3. memory \in [Callers -> Memories]  BY <1>2 DEF Init, Blank, Memories
  <1>4. TypeOK
    <2>0. updaters = 0 /\ updater = 0 /\ version = 0 /\ age = 0 /\ faults = MaxFaults
      BY DEF Init
    <2>1. /\ updaters \in 0 .. MaxUpdaters /\ updater \in 0 .. updaters
          /\ version \in 0 .. MaxVersions /\ age \in 0 .. Stall /\ faults \in 0 .. MaxFaults
      BY <1>1, <2>0
    <2>2. pc \in [Callers -> Places] /\ target \in [Callers -> 0 .. updaters]
      BY <2>1 DEF Init, Places
    <2>3. updater = 0 /\ files = {} /\ held = {} /\ \A c \in Callers : pc[c] = "idle"
      BY DEF Init
    <2>4. terminal \in BOOLEAN /\ hidden \in BOOLEAN /\ visible \in BOOLEAN
      BY DEF Init
    <2>5. QED  BY <1>3, <2>1, <2>2, <2>3, <2>4 DEF TypeOK, Memories, Memory, Places
  <1>5. UpdaterLast  BY DEF Init, UpdaterLast
  <1>6. \A c \in Callers : Truthful(memory[c]) /\ Grounded(pc[c], target[c], memory[c])
    BY <1>1 DEF Init, Truthful, Grounded, Blank, Forgotten, NoSignature
  <1>7. QED  BY <1>4, <1>5, <1>6 DEF IInv

\* One caller moves, the package and the processes stay.
LEMMA OwnMove ==
    ASSUME IInv, UNCHANGED <<processes, package>>,
           NEW c \in Callers, NEW where \in Places, NEW t \in 0 .. updaters,
           NEW m \in Memories,
           pc' = [pc EXCEPT ![c] = where], target' = [target EXCEPT ![c] = t],
           memory' = [memory EXCEPT ![c] = m], faults' \in 0 .. MaxFaults,
           where = "idle" \/ pc[c] # "idle" \/ \A d \in Callers : pc[d] = "idle",
           Truthful(m), Grounded(where, t, m)
    PROVE  IInv'
  <1>1. /\ memory \in [Callers -> Memories] /\ pc \in [Callers -> Places]
        /\ target \in [Callers -> 0 .. updaters]
    BY MemoryType DEF IInv
  <1>2. \A d \in Callers : /\ pc'[d] = IF d = c THEN where ELSE pc[d]
                           /\ target'[d] = IF d = c THEN t ELSE target[d]
                           /\ memory'[d] = IF d = c THEN m ELSE memory[d]
    BY <1>1
  <1>3. \A d, e \in Callers : pc'[d] # "idle" /\ pc'[e] # "idle" => d = e
    BY <1>2 DEF IInv, TypeOK
  <1>4. memory' \in [Callers -> Memories] /\ pc' \in [Callers -> Places]
        /\ target' \in [Callers -> 0 .. updaters]
    BY <1>1
  <1>5. TypeOK'
    BY <1>3, <1>4 DEF IInv, TypeOK, processes, package, Package, Looks,
       Memories, Memory, Places
  <1>6. UpdaterLast'  BY DEF IInv, UpdaterLast, package
  <1>7. \A d \in Callers : (Truthful(memory[d]) /\ Grounded(pc[d], target[d], memory[d]))'
    BY <1>2 DEF IInv, Truthful, Grounded, processes, package, Looks
  <1>8. QED  BY <1>5, <1>6, <1>7 DEF IInv

\* The same for a caller that goes on in its pass, remembering m.
LEMMA OwnGo ==
    ASSUME IInv, UNCHANGED <<processes, package>>, NEW c \in Callers,
           NEW where \in Places, Goto(c, where),
           NEW m \in Memories, Remember(c, m) \/ (m = memory[c] /\ UNCHANGED memory),
           faults' \in 0 .. MaxFaults, where = "idle" \/ pc[c] # "idle", Truthful(m),
           Grounded(where, IF where \in {"recheck", "kill"} THEN target[c] ELSE 0, m)
    PROVE  IInv'
  <1> DEFINE t == IF where \in {"recheck", "kill"} THEN target[c] ELSE 0
  <1>1. /\ memory \in [Callers -> Memories] /\ target \in [Callers -> 0 .. updaters]
        /\ target[c] \in 0 .. updaters /\ 0 \in 0 .. updaters
    BY MemoryType, Numbers DEF IInv
  <1>2. t \in 0 .. updaters  BY <1>1
  <1>3. target' = [target EXCEPT ![c] = t]
    <2>1. CASE where \in {"recheck", "kill"}
      <3>1. target' = target /\ t = target[c]  BY <2>1 DEF Goto
      <3>2. QED  BY <1>1, <3>1
    <2>2. CASE where \notin {"recheck", "kill"}  BY <2>2 DEF Goto
    <2>3. QED  BY <2>1, <2>2
  <1>4. memory' = [memory EXCEPT ![c] = m]
    <2>1. CASE Remember(c, m)  BY <2>1 DEF Remember
    <2>2. CASE m = memory[c] /\ UNCHANGED memory  BY <1>1, <2>2
    <2>3. QED  BY <2>1, <2>2
  <1>5. pc' = [pc EXCEPT ![c] = where]  BY DEF Goto
  <1> HIDE DEF t
  <1>6. Grounded(where, t, m)  BY DEF t
  <1>7. QED  BY <1>2, <1>3, <1>4, <1>5, <1>6, OwnMove

\* A pass that ends, remembering what is truthful, keeps everything.
LEMMA PassEnds ==
    ASSUME IInv, UNCHANGED <<processes, package>>, NEW c \in Callers, Goto(c, "idle"),
           NEW m \in Memories, Remember(c, m) \/ (m = memory[c] /\ UNCHANGED memory),
           faults' \in 0 .. MaxFaults, Truthful(m)
    PROVE  IInv'
  <1>1. "idle" \in Places  BY DEF Places
  <1>2. Grounded("idle", IF "idle" \in {"recheck", "kill"} THEN target[c] ELSE 0, m)
    BY DEF Grounded
  <1>3. QED  BY <1>1, <1>2, OwnGo

\* The memory a caller has is one it may keep.
LEMMA MemoryKept ==
    ASSUME IInv, NEW c \in Callers
    PROVE  /\ memory[c] \in Memories /\ Truthful(memory[c])
           /\ faults \in 0 .. MaxFaults /\ "stalled" \in Looks /\ "orphan" \in Looks
  BY MemoryType DEF IInv, TypeOK, Looks

\* A caller comes in when nobody else is inside.
LEMMA EnterStep ==
    ASSUME IInv, NEW c \in Callers, Enter(c)
    PROVE  IInv'
  <1> DEFINE where == IF Found # 0 THEN "stalled"
                      ELSE IF "updater" \in files THEN "orphan" ELSE "launch"
  <1>1. /\ UNCHANGED <<processes, package, memory, faults>> /\ ~terminal
        /\ \A d \in Callers : pc[d] = "idle"
        /\ pc' = [pc EXCEPT ![c] = where] /\ target' = [target EXCEPT ![c] = Found]
    BY DEF Enter
  <1>2. where \in Places  BY DEF Places
  <1>3. Found \in 0 .. updaters  BY Numbers DEF IInv, Found
  <1>4. memory' = [memory EXCEPT ![c] = memory[c]]
    BY <1>1, MemoryType DEF IInv
  <1>5. Grounded(where, Found, memory[c])  BY DEF Grounded
  <1> HIDE DEF where
  <1>6. QED  BY <1>1, <1>2, <1>3, <1>4, <1>5, MemoryKept, OwnMove

\* The first look at an updater, and the looks that follow.
LEMMA LookStalledStep ==
    ASSUME IInv, NEW c \in Callers, LookStalled(c)
    PROVE  IInv'
  <1>0. pc[c] = "stalled" /\ UNCHANGED <<processes, package>> /\ faults' = faults
    BY DEF LookStalled
  <1>1. CASE /\ Goto(c, "idle")
             /\ Remember(c, [memory[c] EXCEPT !["stalled"] = Forgotten])
    BY <1>0, <1>1, FreshTruthful, MemoryKept, PassEnds
  <1>2. CASE /\ Goto(c, "idle")
             /\ Remember(c, [memory[c] EXCEPT !["stalled"] = Seen(Signature(c))])
    BY <1>0, <1>2, FreshTruthful, MemoryKept, PassEnds
  <1>3. CASE /\ Goto(c, IF memory[c]["stalled"].age < Stall THEN "idle" ELSE "recheck")
             /\ UNCHANGED memory
    <2>1. CASE memory[c]["stalled"].age < Stall
      BY <1>0, <1>3, <2>1, MemoryKept, PassEnds
    <2>2. CASE ~(memory[c]["stalled"].age < Stall)
      <3>1. memory[c]["stalled"].age \in Nat  BY MemoryType, MemoryKept DEF IInv, Memory
      <3>2. target[c] # 0  BY <1>0 DEF IInv, Grounded
      <3>3. Grounded("recheck", target[c], memory[c])
        BY <2>2, <3>1, <3>2, Numbers DEF IInv, Grounded
      <3>4. "recheck" \in Places  BY DEF Places
      <3>5. QED  BY <1>0, <1>3, <2>2, <3>3, <3>4, MemoryKept, OwnGo
    <2>3. QED  BY <2>1, <2>2
  <1>4. QED  BY <1>1, <1>2, <1>3 DEF LookStalled

\* The last look before the kill.
LEMMA RecheckStep ==
    ASSUME IInv, NEW c \in Callers, Recheck(c)
    PROVE  IInv'
  <1>0. pc[c] = "recheck" /\ UNCHANGED <<processes, package>> /\ faults' = faults
    BY DEF Recheck
  <1>1. CASE Goto(c, "idle") /\ UNCHANGED memory
    BY <1>0, <1>1, MemoryKept, PassEnds
  <1>2. CASE /\ Goto(c, "idle")
             /\ Remember(c, [memory[c] EXCEPT !["stalled"] = Forgotten])
    BY <1>0, <1>2, FreshTruthful, MemoryKept, PassEnds
  <1>3. CASE Goto(c, "kill") /\ UNCHANGED memory
    <2>1. "kill" \in Places /\ Grounded("kill", target[c], memory[c])
      BY DEF Places, Grounded
    <2>2. QED  BY <1>0, <1>3, <2>1, MemoryKept, OwnGo
  <1>4. QED  BY <1>1, <1>2, <1>3 DEF Recheck

\* The looks at a package without an updater.
LEMMA LookOrphanStep ==
    ASSUME IInv, NEW c \in Callers, LookOrphan(c)
    PROVE  IInv'
  <1>0. pc[c] = "orphan" /\ UNCHANGED <<processes, package>> /\ faults' = faults
    BY DEF LookOrphan
  <1>1. CASE /\ Goto(c, "idle")
             /\ Remember(c, [memory[c] EXCEPT !["orphan"] = Forgotten])
    BY <1>0, <1>1, FreshTruthful, MemoryKept, PassEnds
  <1>2. CASE /\ Goto(c, "idle")
             /\ Remember(c, [memory[c] EXCEPT !["orphan"] = Seen(Fingerprint)])
    BY <1>0, <1>2, FreshTruthful, MemoryKept, PassEnds
  <1>3. CASE Goto(c, "idle") /\ UNCHANGED memory
    BY <1>0, <1>3, MemoryKept, PassEnds
  <1>4. CASE age >= Stall /\ Goto(c, "open") /\ UNCHANGED memory
    <2>1. "open" \in Places /\ Grounded("open", 0, memory[c])
      BY <1>4 DEF Places, Grounded
    <2>2. QED  BY <1>0, <1>4, <2>1, MemoryKept, OwnGo
  <1>5. QED  BY <1>1, <1>2, <1>3, <1>4 DEF LookOrphan

\* The second look is of what the first has seen, so it has aged since.
LEMMA OpenStep ==
    ASSUME IInv, NEW c \in Callers, Open(c)
    PROVE  IInv'
  <1>0. pc[c] = "open" /\ UNCHANGED <<processes, package, memory>> /\ faults' = faults
    BY DEF Open
  <1>1. CASE Goto(c, "idle")  BY <1>0, <1>1, MemoryKept, PassEnds
  <1>2. CASE /\ ~terminal /\ updater = 0 /\ memory[c]["orphan"].sig = Fingerprint
             /\ Goto(c, "move")
    <2>1. memory[c]["orphan"].sig.version = version  BY <1>2 DEF Fingerprint
    <2>2. "move" \in Places /\ Grounded("move", 0, memory[c])
      BY <1>0, <1>2, <2>1 DEF IInv, Places, Grounded
    <2>3. QED  BY <1>0, <1>2, <2>2, MemoryKept, OwnGo
  <1>3. QED  BY <1>1, <1>2 DEF Open

\* A pass that fails or a caller that crashes leaves the package as it is.
LEMMA FailStep ==
    ASSUME IInv, NEW c \in Callers, RenameFails(c) \/ MoveFails(c) \/ Crash(c)
    PROVE  IInv'
  <1>1. faults' \in 0 .. MaxFaults
    BY Numbers DEF IInv, RenameFails, MoveFails, Crash
  <1>2. CASE RenameFails(c) \/ MoveFails(c)
    BY <1>1, <1>2, MemoryKept, PassEnds DEF RenameFails, MoveFails
  <1>3. CASE Crash(c)
    <2>1. Blank \in Memories /\ Truthful(Blank)
      BY MemoryType, FreshTruthful, MemoryKept DEF IInv
    <2>2. QED  BY <1>1, <1>3, <2>1, PassEnds DEF Crash
  <1>4. QED  BY <1>2, <1>3

\* What the processes and the package are.
World ==
    /\ terminal \in BOOLEAN /\ hidden \in BOOLEAN /\ visible \in BOOLEAN
    /\ updaters \in 0 .. MaxUpdaters /\ updater \in 0 .. updaters
    /\ files \subseteq Package /\ held \subseteq Package
    /\ version \in 0 .. MaxVersions /\ age \in 0 .. Stall
    /\ updater # 0 => "updater" \in files

\* Something else happens, and no caller notices.
LEMMA WorldMove ==
    ASSUME IInv, UNCHANGED <<pc, target, memory, faults>>,
           World', UpdaterLast', updaters' >= updaters,
           UNCHANGED <<version, age>> \/ version' = version + 1,
           \A c \in Callers : Grounded(pc[c], target[c], memory[c])'
    PROVE  IInv'
  <1>1. updaters \in Nat /\ updaters' \in Nat /\ updaters <= updaters'
    BY Numbers DEF IInv, World
  <1>2. target' \in [Callers -> 0 .. updaters']
    <2>1. 0 .. updaters \subseteq 0 .. updaters'  BY <1>1
    <2>2. QED  BY <2>1 DEF IInv, TypeOK
  <1>3. TypeOK'  BY <1>2 DEF IInv, TypeOK, World
  <1>4. ASSUME NEW c \in Callers PROVE Truthful(memory[c])'
    <2>1. \A l \in Looks : memory[c][l].sig.version \in Nat
      BY MemoryType, Numbers DEF IInv, Memory
    <2>2. version \in Nat  BY Numbers DEF IInv
    <2>3. QED  BY <2>1, <2>2 DEF IInv, Truthful
  <1>5. QED  BY <1>3, <1>4 DEF IInv

\* A caller inside start_terminal takes hold of the processes or the package.
LEMMA CallerMove ==
    ASSUME IInv, NEW c \in Callers, pc[c] # "idle", NEW where \in Places,
           Goto(c, where) \/ (where = pc[c] /\ where \notin {"recheck", "kill", "stalled"}
                              /\ UNCHANGED <<pc, target>>),
           where \notin {"recheck", "kill", "stalled"},
           NEW m \in Memories, memory' = [memory EXCEPT ![c] = m], Truthful(m),
           UNCHANGED <<updaters, version, age, faults>>, World', UpdaterLast',
           where # "open" /\ (where = "launch" => "updater" \notin files'),
           where = "move" => updater' = 0 /\ ~terminal' /\ age >= Stall
    PROVE  IInv'
  <1>1. /\ memory \in [Callers -> Memories] /\ pc \in [Callers -> Places]
        /\ target \in [Callers -> 0 .. updaters] /\ 0 \in 0 .. updaters
    BY MemoryType, Numbers DEF IInv
  <1>2. /\ pc' = [pc EXCEPT ![c] = where]
        /\ target' \in [Callers -> 0 .. updaters]
    BY <1>1 DEF Goto
  <1>3. \A d \in Callers : d # c => pc[d] = "idle"
    BY DEF IInv, TypeOK
  <1>4. \A d \in Callers : /\ pc'[d] = IF d = c THEN where ELSE "idle"
                           /\ memory'[d] = IF d = c THEN m ELSE memory[d]
    BY <1>1, <1>2, <1>3
  <1>5. pc' \in [Callers -> Places] /\ memory' \in [Callers -> Memories]
    BY <1>1, <1>2
  <1>6. TypeOK'
    BY <1>2, <1>4, <1>5 DEF IInv, TypeOK, World, Places, Memories, Memory
  <1>7. \A d \in Callers : Truthful(memory'[d])
    BY <1>4 DEF IInv
  <1>8. \A d \in Callers : Truthful(memory[d])'
    BY <1>7 DEF Truthful
  <1>9. ASSUME NEW d \in Callers PROVE Grounded(pc[d], target[d], memory[d])'
    <2>1. CASE d = c  BY <1>4, <2>1 DEF Grounded
    <2>2. CASE d # c  BY <1>4, <2>2 DEF Grounded
    <2>3. QED  BY <2>1, <2>2
  <1>10. QED  BY <1>6, <1>8, <1>9 DEF IInv

\* With its updater the package loses whoever could change it, not its age.
LEMMA KillStep ==
    ASSUME IInv, NEW c \in Callers, Kill(c)
    PROVE  IInv'
  <1>1. CASE updater = target[c]
    <2>1. /\ updater' = 0 /\ hidden' = FALSE /\ visible' = FALSE /\ Goto(c, "rename")
          /\ UNCHANGED <<terminal, updaters, package, memory, faults>> /\ pc[c] = "kill"
      BY <1>1 DEF Kill
    <2>2. World'
      <3>1. updater' \in 0 .. updaters'  BY <2>1, Numbers DEF IInv
      <3>2. QED  BY <2>1, <3>1 DEF IInv, TypeOK, World, package
    <2>3. UpdaterLast'  BY <2>1 DEF IInv, UpdaterLast, package
    <2>5. memory' = [memory EXCEPT ![c] = memory[c]]  BY <2>1, MemoryType DEF IInv
    <2>6. "rename" \in Places  BY DEF Places
    <2>7. QED  BY <2>1, <2>2, <2>3, <2>5, <2>6, MemoryKept, CallerMove DEF package
  <1>2. CASE updater # target[c]
    <2>1. Goto(c, "idle") /\ UNCHANGED <<processes, package, memory, faults>>
      BY <1>2 DEF Kill, processes
    <2>2. QED  BY <2>1, MemoryKept, PassEnds
  <1>3. QED  BY <1>1, <1>2

\* The directory goes as a whole.
LEMMA RenameStep ==
    ASSUME IInv, NEW c \in Callers, Rename(c)
    PROVE  IInv'
  <1> DEFINE m == [memory[c] EXCEPT !["stalled"] = Forgotten]
  <1>1. /\ pc[c] = "rename" /\ updater = 0 /\ held' = held \cup files /\ files' = {}
        /\ memory' = [memory EXCEPT ![c] = m] /\ Goto(c, "launch")
        /\ UNCHANGED <<processes, version, age, faults>>
    BY DEF Rename, Remember
  <1>2. m \in Memories /\ Truthful(m)  BY FreshTruthful, MemoryKept
  <1> HIDE DEF m
  <1>3. World'  BY <1>1 DEF IInv, TypeOK, World, processes
  <1>4. UpdaterLast'  BY <1>1 DEF UpdaterLast
  <1>6. "launch" \in Places  BY DEF Places
  <1>7. QED  BY <1>1, <1>2, <1>3, <1>4, <1>6, CallerMove DEF processes

\* The files go one after the other, the updater last.
LEMMA MoveStep ==
    ASSUME IInv, NEW c \in Callers, Move(c)
    PROVE  IInv'
  <1>1. PICK f \in NextFiles :
           /\ files' = files \ {f} /\ held' = held \cup {f}
           /\ IF files = {f}
              THEN /\ Goto(c, "launch")
                   /\ Remember(c, [memory[c] EXCEPT !["orphan"] = Forgotten])
              ELSE UNCHANGED <<pc, target, memory>>
    BY DEF Move
  <1>2. pc[c] = "move" /\ UNCHANGED <<processes, version, age, faults>>
    BY DEF Move
  <1>3. f \in files /\ files \subseteq Package /\ held \subseteq Package
    BY DEF NextFiles, IInv, TypeOK
  <1>4. updater = 0 /\ ~terminal /\ age >= Stall
    BY <1>2 DEF IInv, Grounded
  <1>5. World'  BY <1>1, <1>2, <1>3, <1>4 DEF IInv, TypeOK, World, processes
  <1>6. CASE files = {f}
    <2> DEFINE m == [memory[c] EXCEPT !["orphan"] = Forgotten]
    <2>1. m \in Memories /\ Truthful(m)  BY FreshTruthful, MemoryKept
    <2>2. memory' = [memory EXCEPT ![c] = m] /\ Goto(c, "launch") /\ files' = {}
      BY <1>1, <1>6 DEF Remember
    <2> HIDE DEF m
    <2>3. UpdaterLast'  BY <2>2 DEF UpdaterLast
    <2>5. "launch" \in Places  BY DEF Places
    <2>6. QED  BY <1>2, <1>5, <2>1, <2>2, <2>3, <2>5, CallerMove DEF processes
  <1>7. CASE files # {f}
    <2>1. UNCHANGED <<pc, target, memory>>  BY <1>1, <1>7
    <2>2. "updater" \in files'
      BY <1>1, <1>3, <1>7 DEF NextFiles, Package
    <2>3. UpdaterLast'  BY <2>2 DEF UpdaterLast
    <2>4. updater' = 0 /\ ~terminal'  BY <1>2, <1>4 DEF processes
    <2>5. memory' = [memory EXCEPT ![c] = memory[c]]
      BY <2>1, MemoryType DEF IInv
    <2>6. "move" \in Places  BY DEF Places
    <2>7. /\ pc[c] = "move" /\ UNCHANGED <<pc, target>> /\ updaters' = updaters
          /\ "move" \notin {"recheck", "kill", "stalled"} /\ "move" # "idle"
          /\ "move" # "open" /\ "move" # "launch"
      BY <1>2, <2>1 DEF processes
    <2>8. memory[c] \in Memories /\ Truthful(memory[c])  BY MemoryKept
    <2>9. QED
      BY <1>2, <1>4, <1>5, <2>3, <2>4, <2>5, <2>6, <2>7, <2>8, CallerMove
  <1>8. QED  BY <1>6, <1>7

\* The launch ends the pass.
LEMMA LaunchStep ==
    ASSUME IInv, NEW c \in Callers, Launch(c)
    PROVE  IInv'
  <1>1. /\ pc[c] = "launch" /\ terminal' = TRUE /\ Goto(c, "idle")
        /\ UNCHANGED <<updater, updaters, hidden, visible, package, memory, faults>>
    BY DEF Launch
  <1>2. World'  BY <1>1 DEF IInv, TypeOK, World, package
  <1>3. UpdaterLast'  BY <1>1 DEF IInv, UpdaterLast, package
  <1>5. memory' = [memory EXCEPT ![c] = memory[c]]
    BY <1>1, MemoryType DEF IInv
  <1>6. "idle" \in Places  BY DEF Places
  <1>7. QED  BY <1>1, <1>2, <1>3, <1>5, <1>6, MemoryKept, CallerMove DEF package

\* What the rest of the world does.
LEMMA StagesStep ==
    ASSUME IInv, Stages
    PROVE  IInv'
  <1>1. PICK fs \in SUBSET Package : Changed(files \cup fs)  BY DEF Stages
  <1>2. /\ terminal /\ ~Launching /\ UNCHANGED <<processes, pc, target, memory, faults>>
        /\ version < MaxVersions /\ version' = version + 1
        /\ files' = files \cup fs /\ age' = 0 /\ held' = {}
    BY <1>1 DEF Stages, Changed
  <1>3. version' \in 0 .. MaxVersions /\ age' \in 0 .. Stall
    BY <1>2, Numbers DEF IInv
  <1>4. World'  BY <1>1, <1>2, <1>3 DEF IInv, TypeOK, World, processes
  <1>5. UpdaterLast'  BY <1>2 DEF UpdaterLast
  <1>6. ASSUME NEW c \in Callers PROVE Grounded(pc[c], target[c], memory[c])'
    <2>1. memory[c]["orphan"].sig.version # version'
      <3>1. /\ memory[c]["orphan"].sig.version <= version
            /\ memory[c]["orphan"].sig.version \in Nat /\ version \in Nat
        BY MemoryType, MemoryKept, Numbers DEF IInv, Truthful, Memory
      <3>2. QED  BY <1>2, <3>1
    <2>2. pc[c] # "move" /\ pc[c] # "launch"  BY <1>2 DEF IInv, Grounded, Launching
    <2>3. QED  BY <1>2, <2>1, <2>2 DEF IInv, Grounded
  <1>7. updaters' >= updaters  BY <1>2, Numbers DEF IInv, processes
  <1>8. QED  BY <1>2, <1>4, <1>5, <1>6, <1>7, WorldMove

\* The terminal exits, or is started by somebody else.
LEMMA TerminalStep ==
    ASSUME IInv, TerminalExits \/ TerminalAppears
    PROVE  IInv'
  <1>1. /\ UNCHANGED <<updater, updaters, hidden, visible, package, pc, target, memory,
            faults>>
        /\ terminal' \in BOOLEAN /\ (terminal' => ~Handles)
    BY DEF TerminalExits, TerminalAppears
  <1>2. World'  BY <1>1 DEF IInv, TypeOK, World, package
  <1>3. UpdaterLast'  BY <1>1 DEF IInv, UpdaterLast, package
  <1>4. \A c \in Callers : Grounded(pc[c], target[c], memory[c])'
    BY <1>1 DEF IInv, Grounded, Handles, package
  <1>5. updaters' >= updaters  BY <1>1, Numbers DEF IInv
  <1>6. QED  BY <1>1, <1>2, <1>3, <1>4, <1>5, WorldMove DEF package

\* An updater starts: not from a package whose updater is gone.
LEMMA UpdaterStartsStep ==
    ASSUME IInv, UpdaterStarts
    PROVE  IInv'
  <1>1. /\ "updater" \in files /\ updater = 0 /\ ~Handles /\ updaters < MaxUpdaters
        /\ updater' = updaters + 1 /\ updaters' = updaters + 1
        /\ hidden' \in BOOLEAN /\ visible' = FALSE
        /\ UNCHANGED <<terminal, package, pc, target, memory, faults>>
    BY DEF UpdaterStarts
  <1>2. /\ updaters' \in 0 .. MaxUpdaters /\ updater' \in 0 .. updaters' /\ updaters' >= updaters
    BY <1>1, Numbers DEF IInv
  <1>3. World'  BY <1>1, <1>2 DEF IInv, TypeOK, World, package
  <1>4. UpdaterLast'  BY <1>1 DEF IInv, UpdaterLast, package
  <1>5. \A c \in Callers : Grounded(pc[c], target[c], memory[c])'
    BY <1>1 DEF IInv, Grounded, Handles, package
  <1>6. QED  BY <1>1, <1>2, <1>3, <1>4, <1>5, WorldMove DEF package

\* An updater at work makes the package another one.
LEMMA UpdaterWorksStep ==
    ASSUME IInv, UpdaterWorks
    PROVE  IInv'
  <1>1. /\ updater # 0 /\ UNCHANGED <<processes, pc, target, memory, faults>>
        /\ version < MaxVersions /\ version' = version + 1
        /\ files' = files /\ age' = 0 /\ held' = {}
    BY DEF UpdaterWorks, Changed
  <1>2. version' \in 0 .. MaxVersions /\ age' \in 0 .. Stall
    BY <1>1, Numbers DEF IInv
  <1>3. World'  BY <1>1, <1>2 DEF IInv, TypeOK, World, processes
  <1>4. UpdaterLast'  BY <1>1 DEF UpdaterLast
  <1>5. ASSUME NEW c \in Callers PROVE Grounded(pc[c], target[c], memory[c])'
    <2>1. memory[c]["orphan"].sig.version # version'
      <3>1. /\ memory[c]["orphan"].sig.version <= version
            /\ memory[c]["orphan"].sig.version \in Nat /\ version \in Nat
        BY MemoryType, MemoryKept, Numbers DEF IInv, Truthful, Memory
      <3>2. QED  BY <1>1, <3>1
    <2>2. pc[c] # "move"  BY <1>1 DEF IInv, Grounded
    <2>3. QED  BY <1>1, <2>1, <2>2 DEF IInv, Grounded
  <1>6. updaters' >= updaters  BY <1>1, Numbers DEF IInv, processes
  <1>7. QED  BY <1>1, <1>3, <1>4, <1>5, <1>6, WorldMove

\* An updater shows or closes a window.
LEMMA UpdaterPromptsStep ==
    ASSUME IInv, UpdaterPrompts
    PROVE  IInv'
  <1>1. /\ visible' \in BOOLEAN
        /\ UNCHANGED <<terminal, updater, updaters, hidden, package, pc, target, memory,
            faults>>
    BY DEF UpdaterPrompts
  <1>2. World'  BY <1>1 DEF IInv, TypeOK, World, package
  <1>3. UpdaterLast'  BY <1>1 DEF IInv, UpdaterLast, package
  <1>4. \A c \in Callers : Grounded(pc[c], target[c], memory[c])'
    BY <1>1 DEF IInv, Grounded, package
  <1>5. updaters' >= updaters  BY <1>1, Numbers DEF IInv
  <1>6. QED  BY <1>1, <1>2, <1>3, <1>4, <1>5, WorldMove DEF package

\* An updater ends, and may have used up its package.
LEMMA UpdaterEndsStep ==
    ASSUME IInv, UpdaterEnds
    PROVE  IInv'
  <1>1. /\ updater # 0 /\ updater' = 0 /\ hidden' = FALSE /\ visible' = FALSE
        /\ terminal' = terminal \/ terminal' = TRUE
        /\ files' = files \/ files' = {}
        /\ UNCHANGED <<updaters, version, age, held, pc, target, memory, faults>>
    BY DEF UpdaterEnds
  <1>2. updater' \in 0 .. updaters' /\ updaters' >= updaters
    BY <1>1, Numbers DEF IInv
  <1>3. World'  BY <1>1, <1>2 DEF IInv, TypeOK, World
  <1>4. UpdaterLast'  BY <1>1 DEF IInv, UpdaterLast
  <1>5. \A c \in Callers : Grounded(pc[c], target[c], memory[c])'
    BY <1>1 DEF IInv, Grounded
  <1>6. QED  BY <1>1, <1>2, <1>3, <1>4, <1>5, WorldMove

\* Time passes for what is remembered no faster than for the package.
LEMMA TickStep ==
    ASSUME IInv, Tick
    PROVE  IInv'
  <1> DEFINE Aged(e) == [e EXCEPT !.age = IF e = Forgotten THEN 0 ELSE Older(e.age)]
  <1>1. /\ age' = Older(age) /\ UNCHANGED <<processes, files, version, held, pc, target,
                                   faults>>
        /\ memory' = [c \in Callers |-> [l \in Looks |-> Aged(memory[c][l])]]
    BY DEF Tick
  <1>2. \A n \in 0 .. Stall : Older(n) \in 0 .. Stall /\ Older(n) >= n
    BY Numbers DEF IInv, Older
  <1>3. ASSUME NEW e \in Memory
        PROVE  /\ Aged(e) \in Memory /\ Aged(e).sig = e.sig
               /\ e.age >= Stall => Aged(e).age >= Stall
               /\ Aged(e).age \in {0, Older(e.age)} /\ e.age \in 0 .. Stall
    <2>1. e.age \in 0 .. Stall /\ e.sig = e.sig  BY DEF Memory
    <2>2. Older(e.age) \in 0 .. Stall /\ Older(e.age) >= e.age /\ 0 \in 0 .. Stall
      BY <1>2, <2>1, Numbers DEF IInv
    <2>3. Aged(e) \in Memory /\ Aged(e).sig = e.sig
      BY <2>2 DEF Memory
    <2>4. Aged(e).age = IF e = Forgotten THEN 0 ELSE Older(e.age)
      BY DEF Memory
    <2>5. e.age >= Stall => e # Forgotten
      BY Numbers DEF IInv, Forgotten
    <2>6. e.age >= Stall => Older(e.age) >= Stall
      BY <2>1, <2>2, Numbers DEF IInv
    <2>7. QED  BY <2>1, <2>3, <2>4, <2>5, <2>6
  <1> HIDE DEF Aged
  <1>4. \A c \in Callers, l \in Looks :
          memory'[c][l] = Aged(memory[c][l]) /\ memory[c][l] \in Memory
    BY <1>1, MemoryType DEF IInv
  <1>5. memory' \in [Callers -> Memories]
    BY <1>1, <1>3, <1>4 DEF Memories
  <1>6. age' \in 0 .. Stall /\ age' >= age /\ (age >= Stall => age' >= Stall)
    BY <1>1, <1>2, Numbers DEF IInv, TypeOK
  <1>7. TypeOK'
    BY <1>1, <1>5, <1>6 DEF IInv, TypeOK, processes, Memories, Memory
  <1>8. UpdaterLast'  BY <1>1 DEF IInv, UpdaterLast
  <1>9. ASSUME NEW c \in Callers, NEW l \in Looks,
               memory[c][l].sig.version = version
        PROVE  memory'[c][l].age <= age'
    <2>1. memory[c][l].age <= age  BY <1>9 DEF IInv, Truthful
    <2>2. memory'[c][l].age \in {0, Older(memory[c][l].age)} /\ memory[c][l].age \in 0 .. Stall
      BY <1>3, <1>4
    <2>3. age \in 0 .. Stall  BY DEF IInv, TypeOK
    <2>4. Older(memory[c][l].age) <= Older(age)
      BY <2>1, <2>2, <2>3, Numbers DEF IInv, Older
    <2>5. 0 <= Older(age)  BY <1>2, <2>3, Numbers DEF IInv
    <2>6. QED  BY <1>1, <2>2, <2>4, <2>5
  <1>10. \A c \in Callers : Truthful(memory[c])'
    BY <1>1, <1>3, <1>4, <1>9 DEF IInv, Truthful
  <1>11. ASSUME NEW c \in Callers PROVE Grounded(pc[c], target[c], memory[c])'
    <2>1. /\ memory'[c]["orphan"].sig = memory[c]["orphan"].sig
          /\ memory[c]["stalled"].age >= Stall => memory'[c]["stalled"].age >= Stall
      BY <1>3, <1>4 DEF Looks
    <2>2. QED  BY <1>1, <1>6, <2>1 DEF IInv, Grounded, processes
  <1>12. QED  BY <1>7, <1>8, <1>10, <1>11 DEF IInv

\* The invariant is an invariant.
LEMMA Invariance == Spec => []IInv
  <1>1. ASSUME IInv, [Next]_vars PROVE IInv'
    <2>1. CASE \E c \in Callers : Enter(c) \/ Pass(c) \/ Crash(c)
      BY <1>1, <2>1, EnterStep, LookStalledStep, RecheckStep, KillStep, RenameStep, FailStep,
         LookOrphanStep, OpenStep, MoveStep, LaunchStep DEF Pass
    <2>2. CASE External
      BY <1>1, <2>2, StagesStep, TerminalStep, UpdaterStartsStep, UpdaterWorksStep,
         UpdaterPromptsStep, UpdaterEndsStep DEF External
    <2>3. CASE Tick  BY <1>1, <2>3, TickStep
    <2>4. CASE UNCHANGED vars
      BY <1>1, <2>4 DEF vars, IInv, TypeOK, UpdaterLast, Truthful, Grounded
    <2>5. QED  BY <1>1, <2>1, <2>2, <2>3, <2>4 DEF Next
  <1>2. QED  BY <1>1, InitIInv, PTL DEF Spec

\* The variables of LiveUpdate keep their types, and at most one caller is inside
\* start_terminal.
THEOREM TypeCorrect == Spec => []TypeOK
  BY Invariance, PTL DEF IInv

\* Only a caller's own step takes it to another place.
LEMMA OwnPlace ==
    ASSUME IInv, [Next]_vars, NEW c \in Callers, pc'[c] # pc[c]
    PROVE  Enter(c) \/ Pass(c) \/ Crash(c)
  <1>1. PICK d \in Callers : Enter(d) \/ Pass(d) \/ Crash(d)
    BY DEF Next, vars, External, Stages, TerminalExits, TerminalAppears,
       UpdaterStarts, UpdaterWorks, UpdaterPrompts, UpdaterEnds, Tick
  <1>2. pc \in [Callers -> Places]  BY MemoryType DEF IInv
  <1>3. \E where : pc' = [pc EXCEPT ![d] = where] \/ pc' = pc
    BY <1>1 DEF Enter, Pass, Crash, LookStalled, Recheck, Kill, Rename,
       RenameFails, LookOrphan, Open, Move, MoveFails, Launch, Goto
  <1>4. d = c  BY <1>2, <1>3
  <1>5. QED  BY <1>1, <1>4

\* An updater that recover_stalled_update decides to kill is the one that was
\* watched, and the package has not changed for Stall, whatever was written, ended
\* or started between the looks (update_recovery.py).
THEOREM UpdatersSilent == Spec => KilledWasSilent
  <1>1. ASSUME IInv, [Next]_vars, NEW c \in Callers,
               pc[c] # "kill", pc'[c] = "kill"
        PROVE  age >= Stall /\ updater = target[c] /\ memory[c]["stalled"].sig.updater = updater
    <2>0. pc \in [Callers -> Places]  BY <1>1, MemoryType DEF IInv
    <2>1. Recheck(c)
      BY <1>1, <2>0, OwnPlace DEF Enter, Pass, Crash, LookStalled, Kill, Rename,
         RenameFails, LookOrphan, Open, Move, MoveFails, Launch, Goto
    <2>2. /\ pc[c] = "recheck" /\ Found = target[c]
          /\ memory[c]["stalled"].sig = Signature(c)
      BY <1>1, <2>0, <2>1 DEF Recheck, Goto
    <2>3. target[c] # 0 /\ memory[c]["stalled"].age >= Stall
      BY <1>1, <2>2 DEF IInv, Grounded
    <2>4. updater = target[c]  BY <2>2, <2>3 DEF Found
    <2>5. /\ memory[c]["stalled"].sig.version = version
          /\ memory[c]["stalled"].sig.updater = target[c]
      BY <2>2 DEF Signature, Fingerprint
    <2>6. memory[c]["stalled"].age <= age
      BY <1>1, <2>5 DEF IInv, Truthful, Looks
    <2>7. memory[c]["stalled"].age \in Nat
      BY <1>1, MemoryType, Numbers DEF IInv, Memory, Looks
    <2>8. QED  BY <1>1, <2>3, <2>4, <2>5, <2>6, <2>7, Numbers DEF IInv
  <1>2. IInv /\ [Next]_vars =>
          [\A c \in Callers : pc[c] # "kill" /\ pc'[c] = "kill" =>
             age >= Stall /\ updater = target[c] /\ memory[c]["stalled"].sig.updater = updater]_vars
    BY <1>1
  <1>3. QED  BY <1>2, Invariance, PTL DEF Spec, KilledWasSilent

\* What recover_orphaned_update takes away belongs to no process and has not changed
\* for Stall: a package staged after the last look is not archived.
THEOREM PackagesDead == Spec => ArchivedWasDead
  <1>1. ASSUME IInv, NEW c \in Callers, pc[c] = "move"
        PROVE  updater = 0 /\ ~terminal /\ age >= Stall
    BY <1>1 DEF IInv, Grounded
  <1>2. IInv /\ [Next]_vars =>
          [\A c \in Callers : pc[c] = "move" /\ files' # files =>
             updater = 0 /\ ~terminal /\ age >= Stall]_vars
    BY <1>1
  <1>3. QED  BY <1>2, Invariance, PTL DEF Spec, ArchivedWasDead

\* The terminal is never started over an update: no updater runs, not even a hidden
\* one, and no package is there in part (server_preparation.py, start_terminal).
THEOREM StartsOverNothing == Spec => NotLaunchedOverUpdate
  <1>1. ASSUME IInv, NEW c \in Callers, pc[c] = "launch"
        PROVE  updater = 0 /\ (files = {} \/ held = {})
    BY <1>1 DEF IInv, TypeOK, UpdaterLast, Grounded
  <1>2. IInv /\ [Next]_vars =>
          [\A c \in Callers : pc[c] = "launch" /\ pc'[c] = "idle" /\ terminal' # terminal
             => updater = 0 /\ (files = {} \/ held = {})]_vars
    BY <1>1
  <1>3. QED  BY <1>2, Invariance, PTL DEF Spec, NotLaunchedOverUpdate
===============================================================================
