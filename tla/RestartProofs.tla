----------------------------- MODULE RestartProofs -----------------------------
(***************************************************************************)
(* Theorems about Restart, for any pool, any number of callers, any bounds  *)
(* and any cooldowns; and about CatalogueSync, which stops and starts       *)
(* terminals to give them another catalogue.                                *)
(***************************************************************************)
EXTENDS Restart, TLAPS

\* The mutex: of the callers that are not idle, no two are at the same slot.
Exclusive ==
    \A c, d \in Callers :
        pc[c] # "idle" /\ pc[d] # "idle" /\ call[c].slot = call[d].slot => c = d

\* A caller at its slot knows a process no older than the slot's row, and once
\* it is let through the row is for exactly that process.
RowMatches ==
    \A c \in Callers :
        LET row == rows[call[c].slot] IN
        /\ pc[c] = "reserve" => /\ call[c].identity # 0
                               /\ row.identity <= call[c].identity
                               /\ call[c].identity <= used[call[c].slot]
        /\ pc[c] = "stop" => row.identity = call[c].identity

\* Identities are handed out in order, so a row is never ahead of the terminal.
RowsBehind ==
    \A s \in Slots : rows[s].identity <= used[s] /\ live[s] \in {0, used[s]}

\* Every grant is covered by its slot's row: no later, no newer a process.
RowsCover ==
    \A g \in granted : /\ rows[g.slot].identity # 0
                       /\ g.at <= rows[g.slot].at
                       /\ g.target <= rows[g.slot].identity

\* Every launch is covered by its slot's marker, with a grace in between while
\* another one is about to happen.
MarkersCover ==
    /\ \A l \in launches : l.at <= marker[l.slot]
    /\ \A c \in Callers : pc[c] = "launch" =>
          /\ marker[call[c].slot] = call[c].now
          /\ \A l \in launches : l.slot = call[c].slot => l.at + Grace <= call[c].now

\* The inductive invariant.
IInv == /\ TypeOK /\ Exclusive /\ RowsBehind /\ RowMatches /\ RowsCover /\ MarkersCover
        /\ Spaced /\ OneAttemptPerProcess /\ LaunchesSpaced

USE DEF Times, Identities

\* The empty call is a call.
LEMMA NoCallType == NoCall \in [slot : Slots, identity : Identities, now : Times]
  BY BudgetAssumption DEF NoCall

\* The initial states are typed.
LEMMA InitTypeOK == Init => TypeOK
  BY BudgetAssumption, NoCallType DEF Init, TypeOK, NoRow

\* Every step keeps the types.
LEMMA NextTypeOK == TypeOK /\ [Next]_vars => TypeOK'
  <1> USE BudgetAssumption
  <1> SUFFICES ASSUME TypeOK, [Next]_vars PROVE TypeOK'
    OBVIOUS
  <1>1. ASSUME NEW c \in Callers, Enter(c) PROVE TypeOK'
    BY <1>1 DEF TypeOK, Enter, Goto, Free, terminals, ghosts
  <1>2. ASSUME NEW c \in Callers, Repeat(c) PROVE TypeOK'
    BY <1>2 DEF TypeOK, Repeat, Goto, terminals, ghosts
  <1>3. ASSUME NEW c \in Callers, Reserve(c) PROVE TypeOK'
    BY <1>3 DEF TypeOK, Reserve, Goto, terminals
  <1>4. ASSUME NEW c \in Callers, GiveUp(c) PROVE TypeOK'
    BY <1>4, NoCallType DEF TypeOK, GiveUp, Goto, terminals, ghosts
  <1>5. ASSUME NEW c \in Callers, Stop(c) PROVE TypeOK'
    BY <1>5 DEF TypeOK, Stop, Goto, ghosts
  <1>6. ASSUME NEW c \in Callers, AlreadyRunning(c) PROVE TypeOK'
    BY <1>6, NoCallType DEF TypeOK, AlreadyRunning, Goto, terminals, ghosts
  <1>7. ASSUME NEW c \in Callers, Mark(c) PROVE TypeOK'
    BY <1>7 DEF TypeOK, Mark, Goto, terminals, ghosts
  <1>8. ASSUME NEW c \in Callers, Launch(c) PROVE TypeOK'
    BY <1>8, NoCallType DEF TypeOK, Launch, Goto
  <1>9. CASE Exits
    BY <1>9 DEF TypeOK, Exits, callers, ghosts
  <1>10. CASE Appears
    BY <1>10 DEF TypeOK, Appears, callers, ghosts
  <1>11. CASE SetClock
    BY <1>11 DEF TypeOK, SetClock, terminals, callers, ghosts
  <1>12. CASE UNCHANGED vars
    BY <1>12 DEF TypeOK, vars
  <1> QED
    BY <1>1, <1>2, <1>3, <1>4, <1>5, <1>6, <1>7, <1>8, <1>9, <1>10, <1>11, <1>12 DEF Next

\* A caller enters a free slot only, and keeps it until it is idle again.
LEMMA NextExclusive == TypeOK /\ Exclusive /\ [Next]_vars => Exclusive'
  <1> SUFFICES ASSUME TypeOK, Exclusive, [Next]_vars PROVE Exclusive'
    OBVIOUS
  <1> USE DEF TypeOK, Exclusive
  <1>1. ASSUME NEW c \in Callers, Enter(c) PROVE Exclusive'
    BY <1>1 DEF Enter, Goto, Free, terminals, ghosts
  <1>2. ASSUME NEW c \in Callers, Repeat(c) PROVE Exclusive'
    BY <1>2 DEF Repeat, Goto, terminals, ghosts
  <1>3. ASSUME NEW c \in Callers, Reserve(c) PROVE Exclusive'
    BY <1>3 DEF Reserve, Goto, terminals
  <1>4. ASSUME NEW c \in Callers, GiveUp(c) PROVE Exclusive'
    BY <1>4 DEF GiveUp, Goto, terminals, ghosts
  <1>5. ASSUME NEW c \in Callers, Stop(c) PROVE Exclusive'
    BY <1>5 DEF Stop, Goto, ghosts
  <1>6. ASSUME NEW c \in Callers, AlreadyRunning(c) PROVE Exclusive'
    BY <1>6 DEF AlreadyRunning, Goto, terminals, ghosts
  <1>7. ASSUME NEW c \in Callers, Mark(c) PROVE Exclusive'
    BY <1>7 DEF Mark, Goto, terminals, ghosts
  <1>8. ASSUME NEW c \in Callers, Launch(c) PROVE Exclusive'
    BY <1>8 DEF Launch, Goto
  <1>9. CASE Exits
    BY <1>9 DEF Exits, callers, ghosts
  <1>10. CASE Appears
    BY <1>10 DEF Appears, callers, ghosts
  <1>11. CASE SetClock
    BY <1>11 DEF SetClock, terminals, callers, ghosts
  <1>12. CASE UNCHANGED vars
    BY <1>12 DEF vars
  <1> QED
    BY <1>1, <1>2, <1>3, <1>4, <1>5, <1>6, <1>7, <1>8, <1>9, <1>10, <1>11, <1>12 DEF Next

\* Identities only grow, and a row takes the identity of a process found.
LEMMA NextRowsBehind ==
    TypeOK /\ RowsBehind /\ RowMatches /\ [Next]_vars => RowsBehind'
  <1> SUFFICES ASSUME TypeOK, RowsBehind, RowMatches, [Next]_vars PROVE RowsBehind'
    OBVIOUS
  <1> USE DEF TypeOK, RowsBehind, RowMatches
  <1>1. ASSUME NEW c \in Callers, Enter(c) PROVE RowsBehind'
    BY <1>1 DEF Enter, Goto, Free, terminals, ghosts
  <1>2. ASSUME NEW c \in Callers, Repeat(c) PROVE RowsBehind'
    BY <1>2 DEF Repeat, Goto, terminals, ghosts
  <1>3. ASSUME NEW c \in Callers, Reserve(c) PROVE RowsBehind'
    BY <1>3 DEF Reserve, Goto, terminals
  <1>4. ASSUME NEW c \in Callers, GiveUp(c) PROVE RowsBehind'
    BY <1>4 DEF GiveUp, Goto, terminals, ghosts
  <1>5. ASSUME NEW c \in Callers, Stop(c) PROVE RowsBehind'
    BY <1>5 DEF Stop, Goto, ghosts
  <1>6. ASSUME NEW c \in Callers, AlreadyRunning(c) PROVE RowsBehind'
    BY <1>6 DEF AlreadyRunning, Goto, terminals, ghosts
  <1>7. ASSUME NEW c \in Callers, Mark(c) PROVE RowsBehind'
    BY <1>7 DEF Mark, Goto, terminals, ghosts
  <1>8. ASSUME NEW c \in Callers, Launch(c) PROVE RowsBehind'
    BY <1>8 DEF Launch, Goto
  <1>9. CASE Exits
    BY <1>9 DEF Exits, callers, ghosts
  <1>10. CASE Appears
    BY <1>10 DEF Appears, callers, ghosts
  <1>11. CASE SetClock
    BY <1>11 DEF SetClock, terminals, callers, ghosts
  <1>12. CASE UNCHANGED vars
    BY <1>12 DEF vars
  <1> QED
    BY <1>1, <1>2, <1>3, <1>4, <1>5, <1>6, <1>7, <1>8, <1>9, <1>10, <1>11, <1>12 DEF Next

\* Only the caller at a slot changes its row.
LEMMA NextRowMatches ==
    TypeOK /\ Exclusive /\ RowsBehind /\ RowMatches /\ [Next]_vars => RowMatches'
  <1> SUFFICES ASSUME TypeOK, Exclusive, RowsBehind, RowMatches, [Next]_vars PROVE RowMatches'
    OBVIOUS
  <1> USE DEF TypeOK, Exclusive, RowsBehind, RowMatches
  <1>1. ASSUME NEW c \in Callers, Enter(c) PROVE RowMatches'
    BY <1>1 DEF Enter, Goto, Free, terminals, ghosts
  <1>2. ASSUME NEW c \in Callers, Repeat(c) PROVE RowMatches'
    BY <1>2 DEF Repeat, Goto, terminals, ghosts
  <1>3. ASSUME NEW c \in Callers, Reserve(c) PROVE RowMatches'
    BY <1>3 DEF Reserve, Goto, terminals
  <1>4. ASSUME NEW c \in Callers, GiveUp(c) PROVE RowMatches'
    BY <1>4 DEF GiveUp, Goto, terminals, ghosts
  <1>5. ASSUME NEW c \in Callers, Stop(c) PROVE RowMatches'
    BY <1>5 DEF Stop, Goto, ghosts
  <1>6. ASSUME NEW c \in Callers, AlreadyRunning(c) PROVE RowMatches'
    BY <1>6 DEF AlreadyRunning, Goto, terminals, ghosts
  <1>7. ASSUME NEW c \in Callers, Mark(c) PROVE RowMatches'
    BY <1>7 DEF Mark, Goto, terminals, ghosts
  <1>8. ASSUME NEW c \in Callers, Launch(c) PROVE RowMatches'
    BY <1>8 DEF Launch, Goto
  <1>9. CASE Exits
    BY <1>9 DEF Exits, callers, ghosts
  <1>10. CASE Appears
    BY <1>10 DEF Appears, callers, ghosts
  <1>11. CASE SetClock
    BY <1>11 DEF SetClock, terminals, callers, ghosts
  <1>12. CASE UNCHANGED vars
    BY <1>12 DEF vars
  <1> QED
    BY <1>1, <1>2, <1>3, <1>4, <1>5, <1>6, <1>7, <1>8, <1>9, <1>10, <1>11, <1>12 DEF Next

\* A new row is later than the old one, and for a newer process.
LEMMA NextRowsCover ==
    TypeOK /\ RowMatches /\ RowsCover /\ [Next]_vars => RowsCover'
  <1> SUFFICES ASSUME TypeOK, RowMatches, RowsCover, [Next]_vars PROVE RowsCover'
    OBVIOUS
  <1> USE DEF TypeOK, RowMatches, RowsCover
  <1>1. ASSUME NEW c \in Callers, Enter(c) PROVE RowsCover'
    BY <1>1 DEF Enter, Goto, Free, terminals, ghosts
  <1>2. ASSUME NEW c \in Callers, Repeat(c) PROVE RowsCover'
    BY <1>2 DEF Repeat, Goto, terminals, ghosts
  <1>3. ASSUME NEW c \in Callers, Reserve(c) PROVE RowsCover'
    BY <1>3, BudgetAssumption DEF Reserve, Goto, terminals, Cooling, Recorded
  <1>4. ASSUME NEW c \in Callers, GiveUp(c) PROVE RowsCover'
    BY <1>4 DEF GiveUp, Goto, terminals, ghosts
  <1>5. ASSUME NEW c \in Callers, Stop(c) PROVE RowsCover'
    BY <1>5 DEF Stop, Goto, ghosts
  <1>6. ASSUME NEW c \in Callers, AlreadyRunning(c) PROVE RowsCover'
    BY <1>6 DEF AlreadyRunning, Goto, terminals, ghosts
  <1>7. ASSUME NEW c \in Callers, Mark(c) PROVE RowsCover'
    BY <1>7 DEF Mark, Goto, terminals, ghosts
  <1>8. ASSUME NEW c \in Callers, Launch(c) PROVE RowsCover'
    BY <1>8 DEF Launch, Goto
  <1>9. CASE Exits
    BY <1>9 DEF Exits, callers, ghosts
  <1>10. CASE Appears
    BY <1>10 DEF Appears, callers, ghosts
  <1>11. CASE SetClock
    BY <1>11 DEF SetClock, terminals, callers, ghosts
  <1>12. CASE UNCHANGED vars
    BY <1>12 DEF vars
  <1> QED
    BY <1>1, <1>2, <1>3, <1>4, <1>5, <1>6, <1>7, <1>8, <1>9, <1>10, <1>11, <1>12 DEF Next

\* The marker moves on by a grace before each launch, and only the caller at
\* the slot moves it.
LEMMA NextMarkersCover ==
    TypeOK /\ Exclusive /\ MarkersCover /\ [Next]_vars => MarkersCover'
  <1> SUFFICES ASSUME TypeOK, Exclusive, MarkersCover, [Next]_vars PROVE MarkersCover'
    OBVIOUS
  <1> USE DEF TypeOK, Exclusive, MarkersCover
  <1>1. ASSUME NEW c \in Callers, Enter(c) PROVE MarkersCover'
    BY <1>1 DEF Enter, Goto, Free, terminals, ghosts
  <1>2. ASSUME NEW c \in Callers, Repeat(c) PROVE MarkersCover'
    BY <1>2 DEF Repeat, Goto, terminals, ghosts
  <1>3. ASSUME NEW c \in Callers, Reserve(c) PROVE MarkersCover'
    BY <1>3 DEF Reserve, Goto, terminals
  <1>4. ASSUME NEW c \in Callers, GiveUp(c) PROVE MarkersCover'
    BY <1>4 DEF GiveUp, Goto, terminals, ghosts
  <1>5. ASSUME NEW c \in Callers, Stop(c) PROVE MarkersCover'
    BY <1>5 DEF Stop, Goto, ghosts
  <1>6. ASSUME NEW c \in Callers, AlreadyRunning(c) PROVE MarkersCover'
    BY <1>6 DEF AlreadyRunning, Goto, terminals, ghosts
  <1>7. ASSUME NEW c \in Callers, Mark(c) PROVE MarkersCover'
    BY <1>7, BudgetAssumption DEF Mark, Goto, terminals, ghosts
  <1>8. ASSUME NEW c \in Callers, Launch(c) PROVE MarkersCover'
    <2> DEFINE s == call[c].slot
               l == [slot |-> s, identity |-> used[s] + 1, at |-> call[c].now]
    <2>1. pc[c] = "launch" /\ marker[s] = call[c].now /\ marker' = marker
      BY <1>8 DEF Launch
    <2>2. launches' = launches \cup {l}
      BY <1>8 DEF Launch
    <2>3. \A m \in launches' : m.at <= marker'[m.slot]
      BY <2>1, <2>2
    <2>4. ASSUME NEW d \in Callers, pc'[d] = "launch"
          PROVE d # c /\ pc[d] = "launch" /\ call'[d] = call[d] /\ call[d].slot # s
      BY <1>8, <2>1, <2>4 DEF Launch, Goto
    <2> QED
      BY <2>1, <2>2, <2>3, <2>4
  <1>9. CASE Exits
    BY <1>9 DEF Exits, callers, ghosts
  <1>10. CASE Appears
    BY <1>10 DEF Appears, callers, ghosts
  <1>11. CASE SetClock
    BY <1>11 DEF SetClock, terminals, callers, ghosts
  <1>12. CASE UNCHANGED vars
    BY <1>12 DEF vars
  <1> QED
    BY <1>1, <1>2, <1>3, <1>4, <1>5, <1>6, <1>7, <1>8, <1>9, <1>10, <1>11, <1>12 DEF Next

\* What a step that is not a grant, or not a launch, leaves alone.
LEMMA GrantedSame ==
    [Next]_vars => UNCHANGED granted \/ \E c \in Callers : Reserve(c)
  BY DEF Next, vars, Enter, Repeat, GiveUp, Stop, AlreadyRunning, Mark, Launch,
         Exits, Appears, SetClock, ghosts

\* The same for launches.
LEMMA LaunchesSame ==
    [Next]_vars => UNCHANGED launches \/ \E c \in Callers : Launch(c)
  BY DEF Next, vars, Enter, Repeat, Reserve, GiveUp, Stop, AlreadyRunning, Mark,
         Exits, Appears, SetClock, ghosts

\* A new grant is far from every earlier one, because the rows are.
LEMMA NewGrantFar ==
    ASSUME TypeOK, RowMatches, RowsCover, NEW c \in Callers, Reserve(c)
    PROVE  /\ \A g \in granted : Abstract!Far(g, call[c].slot, call[c].now)
           /\ \A g \in granted : g.slot = call[c].slot => g.target < call[c].identity
           /\ granted' = granted \cup {[slot |-> call[c].slot, target |-> call[c].identity,
                                       at |-> call[c].now]}
  <1>1. ASSUME NEW g \in granted PROVE Abstract!Far(g, call[c].slot, call[c].now)
    <2>1. g.slot \in Slots /\ g.at \in Times /\ g.at <= rows[g.slot].at /\ Recorded(g.slot)
      BY DEF TypeOK, RowsCover, Recorded
    <2>2. ~Cooling(call[c].slot, call[c].now)
      BY DEF Reserve
    <2> QED
      BY <2>1, <2>2, BudgetAssumption DEF Cooling, Abstract!Far, TypeOK
  <1>2. ASSUME NEW g \in granted, g.slot = call[c].slot PROVE g.target < call[c].identity
    <2>1. /\ g.target \in Int /\ call[c].identity \in Int
          /\ rows[call[c].slot].identity \in Int
      BY DEF TypeOK
    <2>2. /\ rows[call[c].slot].identity # call[c].identity
          /\ rows[call[c].slot].identity <= call[c].identity
      BY DEF Reserve, RowMatches
    <2>3. g.target <= rows[call[c].slot].identity
      BY <1>2 DEF RowsCover
    <2> QED
      BY <2>1, <2>2, <2>3
  <1> QED
    BY <1>1, <1>2 DEF Reserve

\* A step keeps granted attempts apart.
LEMMA NextSpaced ==
    TypeOK /\ RowMatches /\ RowsCover /\ Spaced /\ [Next]_vars => Spaced'
  <1> SUFFICES ASSUME TypeOK, RowMatches, RowsCover, Spaced, [Next]_vars PROVE Spaced'
    OBVIOUS
  <1>1. CASE UNCHANGED granted
    BY <1>1 DEF Spaced, Abstract!Spaced, Abstract!Far
  <1>2. ASSUME NEW c \in Callers, Reserve(c) PROVE Spaced'
    BY <1>2, NewGrantFar DEF Spaced, Abstract!Spaced, Abstract!Far
  <1> QED
    BY <1>1, <1>2, GrantedSame

\* A step grants no process a second attempt.
LEMMA NextOneAttempt ==
    TypeOK /\ RowMatches /\ RowsCover /\ OneAttemptPerProcess /\ [Next]_vars
    => OneAttemptPerProcess'
  <1> SUFFICES ASSUME TypeOK, RowMatches, RowsCover, OneAttemptPerProcess, [Next]_vars
               PROVE OneAttemptPerProcess'
    OBVIOUS
  <1>1. CASE UNCHANGED granted
    BY <1>1 DEF OneAttemptPerProcess
  <1>2. ASSUME NEW c \in Callers, Reserve(c) PROVE OneAttemptPerProcess'
    <2> DEFINE n == [slot |-> call[c].slot, target |-> call[c].identity, at |-> call[c].now]
    <2>1. granted' = granted \cup {n}
      BY <1>2, NewGrantFar
    <2>2. ASSUME NEW g \in granted, g.slot = n.slot PROVE g.target # n.target
      <3>1. g.target < call[c].identity
        BY <1>2, <2>2, NewGrantFar
      <3>2. g.target \in Int /\ call[c].identity \in Int
        BY DEF TypeOK
      <3> QED
        BY <3>1, <3>2
    <2> QED
      BY <2>1, <2>2 DEF OneAttemptPerProcess
  <1> QED
    BY <1>1, <1>2, GrantedSame

\* A step keeps launches apart.
LEMMA NextLaunchesSpaced ==
    TypeOK /\ MarkersCover /\ LaunchesSpaced /\ [Next]_vars => LaunchesSpaced'
  <1> SUFFICES ASSUME TypeOK, MarkersCover, LaunchesSpaced, [Next]_vars
               PROVE LaunchesSpaced'
    OBVIOUS
  <1>1. CASE UNCHANGED launches
    BY <1>1 DEF LaunchesSpaced
  <1>2. ASSUME NEW c \in Callers, Launch(c) PROVE LaunchesSpaced'
    <2>1. \A l \in launches : l.slot = call[c].slot => call[c].now - l.at >= Grace
      BY <1>2, BudgetAssumption DEF MarkersCover, Launch, TypeOK
    <2> DEFINE l == [slot |-> call[c].slot, identity |-> used'[call[c].slot], at |-> call[c].now]
    <2>2. launches' = launches \cup {l} /\ l.slot = call[c].slot /\ l.at = call[c].now
      BY <1>2 DEF Launch
    <2> HIDE DEF l
    <2> QED
      BY <2>1, <2>2 DEF LaunchesSpaced
  <1> QED
    BY <1>1, <1>2, LaunchesSame

\* The invariant is an invariant.
LEMMA Invariance == Spec => []IInv
  <1>1. Init => IInv
    <2> SUFFICES ASSUME Init PROVE IInv
      OBVIOUS
    <2>1. TypeOK
      BY InitTypeOK
    <2>2. RowsBehind /\ RowMatches /\ Exclusive
      BY <2>1 DEF Init, NoRow, RowsBehind, RowMatches, Exclusive, TypeOK
    <2>3. RowsCover /\ MarkersCover
      BY DEF Init, RowsCover, MarkersCover
    <2>4. Spaced /\ OneAttemptPerProcess /\ LaunchesSpaced
      BY DEF Init, Spaced, Abstract!Spaced, OneAttemptPerProcess, LaunchesSpaced
    <2> QED
      BY <2>1, <2>2, <2>3, <2>4 DEF IInv
  <1>2. IInv /\ [Next]_vars => IInv'
    BY NextTypeOK, NextExclusive, NextRowsBehind, NextRowMatches, NextRowsCover,
       NextMarkersCover, NextSpaced, NextOneAttempt, NextLaunchesSpaced DEF IInv
  <1> QED
    BY <1>1, <1>2, PTL DEF Spec

\* The variables of Restart keep their types.
THEOREM TypeCorrect == Spec => []TypeOK
  BY Invariance, PTL DEF IInv

\* No two stops granted by the budget are closer than the cooldowns, whatever the
\* clock does and whoever asks (restart_budget.py).
THEOREM StopsSpaced == Spec => []Spaced
  BY Invariance, PTL DEF IInv

\* A process is granted at most one attempt.
THEOREM AttemptsUnique == Spec => []OneAttemptPerProcess
  BY Invariance, PTL DEF IInv

\* No two launches of a slot are closer than the grace (server_preparation.py).
THEOREM StartsSpaced == Spec => []LaunchesSpaced
  BY Invariance, PTL DEF IInv

\* Whatever is stopped has a row of its own in the budget.
THEOREM StopsRecorded == Spec => StoppedWasRecorded
  <1>1. IInv => \A c \in Callers : LET s == call[c].slot IN
                   Stop(c) /\ live[s] # 0 => rows[s].identity = live[s]
    BY DEF IInv, RowMatches, Stop
  <1> QED
    BY <1>1, Invariance, PTL DEF StoppedWasRecorded

\* The durable budget implements the Throttle: every step grants at most one
\* attempt, and only when the Throttle does.
THEOREM Refinement == Spec => ImplementsThrottle
  <1>1. Init => Abstract!Init
    BY DEF Init, Abstract!Init
  <1>2. IInv /\ [Next]_vars => [Abstract!Next]_granted
    <2> SUFFICES ASSUME IInv, [Next]_vars PROVE [Abstract!Next]_granted
      OBVIOUS
    <2>1. ASSUME NEW c \in Callers, Reserve(c) PROVE Abstract!Next
      <3>1. Abstract!Grant(call[c].slot, call[c].identity, call[c].now)
        BY <2>1, NewGrantFar DEF IInv, Abstract!Grant
      <3>2. call[c].slot \in Slots /\ call[c].identity \in Identities /\ call[c].now \in Times
        BY DEF IInv, TypeOK
      <3> QED
        BY <3>1, <3>2 DEF Abstract!Next
    <2> QED
      BY <2>1, GrantedSame
  <1> QED
    BY <1>1, <1>2, Invariance, PTL DEF Spec, ImplementsThrottle, Abstract!Spec

-------------------------------------------------------------------------------
(***************************************************************************)
(* What stops and starts terminals to give them another catalogue (module   *)
(* CatalogueSync) loses no server's name, for any slots, names, faults and  *)
(* crashes.                                                                 *)
(***************************************************************************)
CONSTANTS Servers, MaxRewrites, MaxFaults

VARIABLES late, running, started, memory, file, builder, backups, left, reg, quar, view,
          phase, job, rewrites, faults

C == INSTANCE CatalogueSync WITH live <- running, used <- started, pc <- phase

\* CatalogueAssumption of CatalogueSync, a hypothesis of the theorems.
CatalogueBounds ==
    /\ Slots # {}
    /\ MaxProcesses \in Nat \ {0} /\ MaxRewrites \in Nat /\ MaxFaults \in Nat

Catalogues == [Slots -> SUBSET Servers]

\* A file's name is in a backup, or in the file of a slot that will not write it away.
Solid(s, n) == n \in file[s] /\ (running[s] # 0 => n \in memory[s])
Kept(n) == (\E t \in Slots : n \in backups[t]) \/ (\E t \in Slots : Solid(t, n))

\* As long as MT5 leaves a locked slot alone, a terminal's memory is its file, so
\* the names of a report are those of the file it hashed.
InStep ==
    ~late =>
      /\ \A s \in Slots : /\ running[s] # 0 => memory[s] = file[s]
                          /\ view[s].names = view[s].hash
      /\ phase # "idle" => job.names = job.data
      /\ phase \in {"install", "replace", "start"} => running[C!Target] = 0
      /\ phase \in {"fence", "stop", "install", "replace"} => file[C!Target] \subseteq job.data

\* The slots that wait for the builder's catalogue know no more than it.
Waiting ==
    /\ phase # "idle" => job.kind \in {"sync", "preparing"}
    /\ phase # "idle" /\ job.kind = "sync" => job.rest = {}
    /\ phase # "idle" /\ job.kind = "preparing" =>
         \A t \in job.rest \cup (IF phase = "check" THEN {C!Target} ELSE {}) :
           view[t].names \subseteq job.names

\* What is replaced is in the backup, and no name is only in files that a
\* terminal will write away.
Covered ==
    /\ phase = "replace" => file[C!Target] \subseteq backups[C!Target]
    /\ \A s \in Slots : \A n \in file[s] : Kept(n)
    /\ phase # "idle" /\ job.kind = "sync" => \A n \in job.data : Kept(n)

CatalogueIInv == CatalogueBounds /\ C!TypeOK /\ InStep /\ Waiting /\ Covered

-------------------------------------------------------------------------------
\* Nobody's installation and no report have their types.
LEMMA NoneTypes ==
    ASSUME CatalogueBounds
    PROVE  C!NoJob \in C!Jobs /\ C!NoView \in C!Views /\ C!Process \subseteq Nat /\ 0 \in C!Process
  <1>1. (CHOOSE s \in Slots : TRUE) \in Slots
    BY DEF CatalogueBounds
  <1>2. 0 \in C!Process /\ C!Process \subseteq Nat
    BY DEF CatalogueBounds, C!Process
  <1>3. QED BY <1>1, <1>2 DEF C!NoJob, C!NoView, C!Jobs, C!Views

\* At the start every terminal has loaded its file.
LEMMA CatalogueInit == CatalogueBounds /\ C!Init => CatalogueIInv
  <1>1. SUFFICES ASSUME CatalogueBounds, C!Init PROVE CatalogueIInv
    OBVIOUS
  <1>2. 1 \in C!Process /\ MaxRewrites \in 0 .. MaxRewrites /\ MaxFaults \in 0 .. MaxFaults
    BY <1>1 DEF CatalogueBounds, C!Process
  <1>3. C!TypeOK
    BY <1>1, <1>2, NoneTypes DEF C!Init, C!TypeOK
  <1>4. InStep /\ Waiting
    BY <1>1 DEF C!Init, InStep, Waiting, C!NoView
  <1>5. Covered
    BY <1>1 DEF C!Init, Covered, Kept, Solid
  <1>6. QED BY <1>1, <1>3, <1>4, <1>5 DEF CatalogueIInv

\* A new installation has its type.
LEMMA BeginTypes ==
    ASSUME CatalogueBounds, C!TypeOK, NEW kind \in {"sync", "preparing"}, NEW t \in Slots,
           NEW names \in SUBSET Servers, NEW data \in SUBSET Servers, NEW rest \in SUBSET Slots,
           C!Begin(kind, t, names, data, rest)
    PROVE  job' \in C!Jobs /\ phase' = "check"
  <1>1. view[t].proc \in C!Process
    BY DEF C!TypeOK, C!Views
  <1>2. QED BY <1>1 DEF C!Begin, C!Jobs

LEMMA GoOnTypes ==
    ASSUME CatalogueBounds, C!TypeOK, job.kind \in {"sync", "preparing"}, C!GoOn
    PROVE  job' \in C!Jobs /\ phase' \in {"idle", "check"}
  <1>1. job \in C!Jobs
    BY DEF C!TypeOK
  <1>2. CASE C!Leave
    BY <1>2, NoneTypes DEF C!Leave
  <1>3. CASE \E t \in job.rest : C!Begin(job.kind, t, job.names, job.data, job.rest \ {t})
    <2>1. PICK t \in job.rest : C!Begin(job.kind, t, job.names, job.data, job.rest \ {t})
      BY <1>3
    <2>2. /\ t \in Slots /\ job.names \in SUBSET Servers /\ job.data \in SUBSET Servers
          /\ job.rest \ {t} \in SUBSET Slots
      BY <1>1 DEF C!Jobs
    <2>3. QED BY <2>1, <2>2, BeginTypes
  <1>4. QED BY <1>2, <1>3 DEF C!GoOn

\* A terminal that is started loads its file.
LEMMA LaunchedTypes ==
    ASSUME CatalogueBounds, C!TypeOK, NEW s \in Slots, C!Launched(s)
    PROVE  /\ running' \in [Slots -> C!Process] /\ started' \in [Slots -> C!Process]
           /\ memory' \in Catalogues
           /\ memory' = [memory EXCEPT ![s] = file[s]]
           /\ running[s] = 0 /\ \A t \in Slots \ {s} : running'[t] = running[t]
  <1>1. started[s] + 1 \in C!Process
    BY DEF CatalogueBounds, C!TypeOK, C!Launched, C!Process
  <1>2. file[s] \in SUBSET Servers
    BY DEF C!TypeOK
  <1>3. /\ started' = [started EXCEPT ![s] = started[s] + 1]
        /\ running' = [running EXCEPT ![s] = started[s] + 1]
    BY DEF C!Launched, C!TypeOK
  <1>4. QED BY <1>1, <1>2, <1>3 DEF C!Launched, C!TypeOK, Catalogues

\* The types survive every step.
LEMMA CatalogueTypes ==
    ASSUME CatalogueBounds, C!TypeOK, Waiting, [C!Next]_(C!vars)
    PROVE  C!TypeOK'
  <1> USE DEF C!TypeOK
  <1>1. /\ job \in C!Jobs /\ C!Target \in Slots /\ 0 \in C!Process
        /\ C!NoJob \in C!Jobs /\ C!NoView \in C!Views
        /\ phase # "idle" => job.kind \in {"sync", "preparing"}
    BY NoneTypes DEF C!Target, C!Jobs, Waiting
  <1>2. CASE C!Choose
    <2>1. PICK p \in Slots \X Slots : C!Begin("sync", p[2], view[p[1]].names, file[p[1]], {})
      BY <1>2 DEF C!Choose, C!Pairs
    <2>2. view[p[1]].names \in SUBSET Servers /\ file[p[1]] \in SUBSET Servers
      BY DEF C!Views
    <2>3. job' \in C!Jobs /\ phase' = "check"
      BY <2>1, <2>2, BeginTypes
    <2>4. QED BY <1>2, <2>3 DEF C!Choose, C!terminals, C!files, C!remote
  <1>3. CASE C!BuilderFinds
    <2>1. builder' \in SUBSET Servers /\ rewrites' \in 0 .. MaxRewrites
      BY <1>3 DEF CatalogueBounds, C!BuilderFinds
    <2>2. QED BY <1>3, <2>1 DEF C!BuilderFinds, C!terminals, C!remote
  <1>4. CASE C!ChooseBuilt
    <2>1. PICK server \in builder : \E t \in C!Eligible(server) :
            C!Begin("preparing", t, builder, builder, C!Eligible(server) \ {t})
      BY <1>4 DEF C!ChooseBuilt
    <2>2. PICK t \in C!Eligible(server) :
            C!Begin("preparing", t, builder, builder, C!Eligible(server) \ {t})
      BY <2>1
    <2>3. C!Eligible(server) \in SUBSET Slots
      BY DEF C!Eligible
    <2>4. job' \in C!Jobs /\ phase' = "check"
      BY <2>2, <2>3, BeginTypes
    <2>5. QED BY <1>4, <2>4 DEF C!ChooseBuilt, C!terminals, C!files, C!remote
  <1>5. CASE C!Check
    <2>1. left' \in [Slots -> SUBSET C!Left]
      BY <1>1, <1>5 DEF C!Check, C!Left
    <2>2. phase' \in {"fence", "idle"} /\ job' \in C!Jobs
      BY <1>1, <1>5 DEF C!Check, C!Stay, C!Leave
    <2>3. QED BY <1>5, <2>1, <2>2 DEF C!Check, C!terminals, C!remote
  <1>6. CASE C!Fence
    <2>1. quar' \in [Slots -> C!Process]
      BY <1>1, <1>6 DEF C!Fence
    <2>2. QED BY <1>6, <2>1 DEF C!Fence, C!Stay, C!terminals, C!files
  <1>7. CASE C!Stop
    <2>1. left' \in [Slots -> SUBSET C!Left] /\ running' \in [Slots -> C!Process]
      BY <1>1, <1>7 DEF C!Stop, C!Unmarked
    <2>2. phase' \in {"install", "idle"} /\ job' \in C!Jobs
      BY <1>1, <1>7 DEF C!Stop, C!Stay, C!Leave
    <2>3. QED BY <1>7, <2>1, <2>2 DEF C!Stop, C!remote
  <1>8. CASE C!Install
    <2>1. backups' \in Catalogues
      BY <1>1, <1>8 DEF C!Install, Catalogues
    <2>2. left' \in [Slots -> SUBSET C!Left]
      BY <1>1, <1>8 DEF C!Install, C!Unmarked, C!Left
    <2>3. phase' \in {"replace", "idle"} /\ job' \in C!Jobs
      BY <1>1, <1>8 DEF C!Install, C!Stay, C!Leave
    <2>4. QED BY <1>8, <2>1, <2>2, <2>3 DEF C!Install, C!terminals, C!remote, Catalogues
  <1>9. CASE C!Replace
    <2>1. file' \in Catalogues
      BY <1>1, <1>9 DEF C!Replace, Catalogues, C!Jobs
    <2>2. left' \in [Slots -> SUBSET C!Left]
      BY <1>1, <1>9 DEF C!Replace, C!Unmarked, C!Left
    <2>3. phase' \in {"start", "idle"} /\ job' \in C!Jobs
      BY <1>1, <1>9 DEF C!Replace, C!Stay, C!Leave
    <2>4. QED BY <1>9, <2>1, <2>2, <2>3 DEF C!Replace, C!terminals, C!remote, Catalogues
  <1>10. CASE C!Start
    <2>1. /\ running' \in [Slots -> C!Process] /\ started' \in [Slots -> C!Process]
          /\ memory' \in Catalogues
      BY <1>1, <1>10, LaunchedTypes DEF C!Start, C!terminals, Catalogues
    <2>2. left' \in [Slots -> SUBSET C!Left] /\ view' \in [Slots -> C!Views]
      BY <1>1, <1>10 DEF C!Start, C!Unmarked
    <2>3. phase' \in {"idle", "check"} /\ job' \in C!Jobs
      BY <1>1, <1>10, GoOnTypes DEF C!Start
    <2>4. QED BY <1>10, <2>1, <2>2, <2>3 DEF C!Start, C!remote, Catalogues
  <1>11. CASE C!Abort
    <2>1. quar' \in [Slots -> C!Process]
      BY <1>1, <1>11 DEF C!Abort
    <2>2. left' \in [Slots -> SUBSET C!Left] /\ faults' \in 0 .. MaxFaults
      BY <1>1, <1>11 DEF CatalogueBounds, C!Abort, C!Unmarked
    <2>3. phase' = "idle" /\ job' \in C!Jobs
      BY <1>1, <1>11 DEF C!Abort, C!Leave
    <2>4. QED BY <1>11, <2>1, <2>2, <2>3 DEF C!Abort, C!terminals
  <1>12. CASE C!Crash
    <2>1. view' \in [Slots -> C!Views] /\ faults' \in 0 .. MaxFaults
      BY <1>1, <1>12 DEF CatalogueBounds, C!Crash
    <2>2. QED BY <1>1, <1>12, <2>1 DEF C!Crash, C!Leave, C!terminals, C!files, C!remote
  <1>13. ASSUME NEW s \in Slots, C!Inspect(s) PROVE C!TypeOK'
    <2>1. [proc |-> running[s], names |-> memory[s], hash |-> file[s]] \in C!Views
      BY DEF C!Views
    <2>2. /\ view' \in [Slots -> C!Views] /\ reg' \in [Slots -> C!Process]
          /\ quar' \in [Slots -> C!Process]
      BY <1>1, <1>13, <2>1 DEF C!Inspect
    <2>3. QED BY <1>13, <2>2 DEF C!Inspect, C!terminals, C!files
  <1>14. ASSUME NEW s \in Slots, C!Ages(s) PROVE C!TypeOK'
    <2>1. view' \in [Slots -> C!Views] /\ faults' \in 0 .. MaxFaults
      BY <1>1, <1>14 DEF CatalogueBounds, C!Ages
    <2>2. QED BY <1>14, <2>1 DEF C!Ages, C!terminals, C!files, C!remote
  <1>15. ASSUME NEW s \in Slots, C!KillFenced(s) \/ C!Exits(s) PROVE C!TypeOK'
    <2>1. running' \in [Slots -> C!Process] /\ faults' \in 0 .. MaxFaults
      BY <1>1, <1>15 DEF CatalogueBounds, C!KillFenced, C!Exits
    <2>2. QED BY <1>15, <2>1 DEF C!KillFenced, C!Exits, C!files, C!remote
  <1>16. ASSUME NEW s \in Slots, C!Restart(s) \/ C!Appears(s) PROVE C!TypeOK'
    <2>1. /\ running' \in [Slots -> C!Process] /\ started' \in [Slots -> C!Process]
          /\ memory' \in Catalogues
      BY <1>16, LaunchedTypes DEF C!Restart, C!Appears
    <2>2. faults' \in 0 .. MaxFaults
      BY <1>16 DEF CatalogueBounds, C!Restart, C!Appears
    <2>3. QED BY <1>16, <2>1, <2>2 DEF C!Restart, C!Appears, C!files, C!remote, Catalogues
  <1>17. ASSUME NEW s \in Slots, C!Rewrites(s) PROVE C!TypeOK'
    <2>1. memory' \in Catalogues
      BY <1>17 DEF C!Rewrites, Catalogues
    <2>2. file' \in Catalogues
      BY <1>17, <2>1 DEF C!Rewrites, Catalogues
    <2>3. rewrites' \in 0 .. MaxRewrites
      BY <1>17 DEF CatalogueBounds, C!Rewrites
    <2>4. QED BY <1>17, <2>1, <2>2, <2>3 DEF C!Rewrites, C!remote, Catalogues
  <1>18. CASE UNCHANGED C!vars
    BY <1>18 DEF C!vars
  <1>19. QED
    BY <1>2, <1>3, <1>4, <1>5, <1>6, <1>7, <1>8, <1>9, <1>10, <1>11, <1>12, <1>13, <1>14, <1>15,
       <1>16, <1>17, <1>18 DEF C!Next, C!Controller

-------------------------------------------------------------------------------
\* The slots that wait for the builder's catalogue keep their reports, or lose them.
LEMMA WaitingStep ==
    ASSUME CatalogueBounds, C!TypeOK, Waiting, [C!Next]_(C!vars)
    PROVE  Waiting'
  <1>1. job \in C!Jobs /\ view \in [Slots -> C!Views] /\ C!NoView.names = {} /\ C!Target \in Slots
    BY DEF C!TypeOK, C!NoView, C!Jobs, C!Target
  <1>2. CASE phase' = "idle"
    BY <1>2 DEF Waiting
  <1>3. CASE C!Choose
    BY <1>3 DEF C!Choose, C!Begin, Waiting
  <1>4. CASE C!ChooseBuilt
    <2>1. PICK server \in builder : \E t \in C!Eligible(server) :
            C!Begin("preparing", t, builder, builder, C!Eligible(server) \ {t})
      BY <1>4 DEF C!ChooseBuilt
    <2>2. PICK t \in C!Eligible(server) :
            C!Begin("preparing", t, builder, builder, C!Eligible(server) \ {t})
      BY <2>1
    <2>3. \A u \in C!Eligible(server) : view'[u].names \subseteq builder
      BY <1>4 DEF C!ChooseBuilt, C!Eligible
    <2>4. /\ phase' = "check" /\ job'.kind = "preparing" /\ job'.names = builder
          /\ job'.target = t /\ job'.rest = C!Eligible(server) \ {t}
      BY <2>2 DEF C!Begin
    <2>5. QED BY <2>3, <2>4 DEF Waiting, C!Target
  \* An installation goes on.
  <1>5. ASSUME phase # "idle", job' = job, phase' # "check", phase' # "idle",
               view' = view \/ job.kind # "preparing"
        PROVE  Waiting'
    BY <1>5 DEF Waiting
  <1>6. CASE C!Check \/ C!Fence \/ C!Stop \/ C!Install \/ C!Replace
    <2>1. phase' = "idle" \/ (phase # "idle" /\ job' = job /\ phase' # "check" /\ view' = view)
      BY <1>6 DEF C!Check, C!Fence, C!Stop, C!Install, C!Replace, C!Stay, C!Leave
    <2>2. QED BY <1>2, <1>5, <2>1
  <1>7. CASE C!Start
    <2>1. CASE C!Leave
      BY <1>2, <2>1 DEF C!Leave
    <2>2. CASE job.rest # {} /\ ~C!Leave
      <3>1. PICK t \in job.rest : C!Begin(job.kind, t, job.names, job.data, job.rest \ {t})
        BY <1>7, <2>2 DEF C!Start, C!GoOn
      <3>2. /\ phase' = "check" /\ job'.kind = job.kind /\ job'.names = job.names
            /\ job'.target = t /\ job'.rest = job.rest \ {t}
        BY <3>1 DEF C!Begin
      <3>3. job.kind = "preparing" /\ \A u \in job.rest : view[u].names \subseteq job.names
        BY <1>7, <2>2 DEF C!Start, Waiting
      <3>4. \A u \in job.rest : u \in Slots /\ view'[u] \in {view[u], C!NoView}
        BY <1>1, <1>7 DEF C!Start, C!Jobs
      <3>5. \A u \in job.rest : view'[u].names \subseteq job.names
        BY <1>1, <3>3, <3>4
      <3>6. QED BY <3>2, <3>3, <3>5 DEF Waiting, C!Target
    <2>3. QED BY <1>7, <2>1, <2>2 DEF C!Start, C!GoOn
  <1>8. CASE C!Abort \/ C!Crash
    BY <1>2, <1>8 DEF C!Abort, C!Crash, C!Leave
  <1>9. ASSUME NEW s \in Slots, C!Inspect(s) PROVE Waiting'
    BY <1>2, <1>9 DEF C!Inspect
  <1>10. ASSUME NEW s \in Slots, C!Ages(s) PROVE Waiting'
    BY <1>10 DEF C!Ages, Waiting
  <1>11. CASE UNCHANGED <<phase, job, view>>
    BY <1>11 DEF Waiting, C!Target
  <1>12. CASE C!BuilderFinds \/ UNCHANGED C!vars
    BY <1>11, <1>12 DEF C!BuilderFinds, C!vars
  <1>13. ASSUME NEW s \in Slots,
                C!KillFenced(s) \/ C!Restart(s) \/ C!Exits(s) \/ C!Appears(s) \/ C!Rewrites(s)
         PROVE  Waiting'
    BY <1>11, <1>13 DEF C!KillFenced, C!Restart, C!Exits, C!Appears, C!Rewrites
  <1>14. QED
    BY <1>3, <1>4, <1>6, <1>7, <1>8, <1>9, <1>10, <1>12, <1>13 DEF C!Next, C!Controller

-------------------------------------------------------------------------------
\* While MT5 leaves a locked slot alone, its file and its terminal change only by the
\* installation's own steps, and elsewhere a terminal writes what it has loaded.
LEMMA InStepStep ==
    ASSUME CatalogueBounds, C!TypeOK, Waiting, InStep, [C!Next]_(C!vars)
    PROVE  InStep'
  <1>1. /\ job \in C!Jobs /\ view \in [Slots -> C!Views] /\ C!Target \in Slots
        /\ C!NoView.names = {} /\ C!NoView.hash = {} /\ late' = late
        /\ running \in [Slots -> C!Process] /\ file \in Catalogues /\ memory \in Catalogues
    <2>1. late' = late
      BY DEF C!Next, C!Controller, C!Choose, C!ChooseBuilt, C!Check, C!Fence, C!Stop, C!Install,
         C!Replace, C!Start, C!Abort, C!Crash, C!BuilderFinds, C!Inspect, C!Ages, C!KillFenced,
         C!Restart, C!Exits, C!Appears, C!Rewrites, C!terminals, C!vars
    <2>2. QED BY <2>1 DEF C!TypeOK, C!NoView, C!Jobs, C!Target, Catalogues
  <1>2. SUFFICES ASSUME ~late PROVE InStep'
    BY <1>1 DEF InStep
  <1>3. /\ \A s \in Slots : (running[s] # 0 => memory[s] = file[s]) /\ view[s].names = view[s].hash
        /\ phase # "idle" => job.names = job.data
        /\ phase \in {"install", "replace", "start"} => running[C!Target] = 0
        /\ phase \in {"fence", "stop", "install", "replace"} => file[C!Target] \subseteq job.data
    BY <1>2 DEF InStep
  <1> DEFINE Synced == \A s \in Slots : running[s] # 0 => memory[s] = file[s]
             Reported == \A s \in Slots : view[s].names = view[s].hash
             Ready == /\ phase # "idle" => job.names = job.data
                      /\ phase \in {"install", "replace", "start"} => running[C!Target] = 0
                      /\ phase \in {"fence", "stop", "install", "replace"} =>
                           file[C!Target] \subseteq job.data
  <1>4. Synced /\ Reported /\ Ready
    BY <1>3
  <1>5. SUFFICES Synced' /\ Reported' /\ Ready'
    BY DEF InStep
  <1>6. CASE C!Choose
    <2>1. PICK p \in Slots \X Slots :
            /\ file[p[1]] = view[p[1]].hash
            /\ C!Begin("sync", p[2], view[p[1]].names, file[p[1]], {})
      BY <1>6 DEF C!Choose, C!Pairs
    <2>2. job'.names = job'.data /\ phase' = "check"
      BY <1>4, <2>1 DEF C!Begin
    <2>3. QED BY <1>4, <1>6, <2>2 DEF C!Choose, C!terminals, C!files
  <1>7. CASE C!ChooseBuilt
    <2>1. job'.names = job'.data /\ phase' = "check"
      BY <1>7 DEF C!ChooseBuilt, C!Begin
    <2>2. QED BY <1>4, <1>7, <2>1 DEF C!ChooseBuilt, C!terminals, C!files
  <1>8. CASE C!Check
    <2>1. CASE phase' = "idle"
      BY <1>4, <1>8, <2>1 DEF C!Check, C!terminals
    <2>2. CASE phase' # "idle"
      <3>1. /\ phase = "check" /\ phase' = "fence" /\ job' = job
            /\ file[C!Target] = view[C!Target].hash
            /\ job.kind = "sync" => view[C!Target].names \subseteq job.names
        BY <1>8, <2>2 DEF C!Check, C!Stay, C!Leave
      <3>2. view[C!Target].names \subseteq job.names
        BY <3>1 DEF Waiting
      <3>3. file[C!Target] \subseteq job.data
        BY <1>1, <1>4, <3>1, <3>2
      <3>4. QED BY <1>4, <1>8, <3>1, <3>3 DEF C!Check, C!terminals, C!Target
    <2>3. QED BY <2>1, <2>2
  <1>9. CASE C!Fence
    BY <1>4, <1>9 DEF C!Fence, C!Stay, C!terminals, C!files, C!Target
  <1>10. CASE C!Stop
    <2>1. /\ file' = file /\ memory' = memory /\ view' = view
          /\ \/ phase' = "idle" /\ running' = running
             \/ /\ phase = "stop" /\ phase' = "install" /\ job' = job
                /\ running' = [running EXCEPT ![C!Target] = 0]
      BY <1>10 DEF C!Stop, C!Stay, C!Leave
    <2>2. QED BY <1>1, <1>4, <2>1 DEF C!Target
  <1>11. CASE C!Install
    BY <1>4, <1>11 DEF C!Install, C!Stay, C!Leave, C!terminals, C!Target
  <1>12. CASE C!Replace
    <2>1. /\ running' = running /\ memory' = memory /\ view' = view
          /\ \/ phase' = "idle" /\ file' = file
             \/ /\ phase = "replace" /\ phase' = "start" /\ job' = job
                /\ file' = [file EXCEPT ![C!Target] = job.data]
      BY <1>12 DEF C!Replace, C!Stay, C!Leave, C!terminals
    <2>2. QED BY <1>1, <1>4, <2>1 DEF C!Target, Catalogues
  <1>13. CASE C!Start
    <2>1. Reported'
      BY <1>1, <1>4, <1>13 DEF C!Start
    <2>2. Synced'
      <3>1. CASE UNCHANGED C!terminals
        BY <1>4, <1>13, <3>1 DEF C!Start, C!terminals
      <3>2. CASE C!Launched(C!Target)
        BY <1>1, <1>4, <1>13, <3>2, LaunchedTypes DEF C!Start, Catalogues
      <3>3. QED BY <1>13, <3>1, <3>2 DEF C!Start
    <2>3. Ready'
      <3>1. phase' = "idle" \/ (phase' = "check" /\ job'.names = job.names /\ job'.data = job.data)
        BY <1>13 DEF C!Start, C!GoOn, C!Leave, C!Begin
      <3>2. QED BY <1>4, <1>13, <3>1 DEF C!Start
    <2>4. QED BY <2>1, <2>2, <2>3
  <1>14. CASE C!Abort \/ C!Crash
    BY <1>1, <1>4, <1>14 DEF C!Abort, C!Crash, C!Leave, C!terminals, C!files
  <1>15. CASE C!BuilderFinds
    BY <1>4, <1>15 DEF C!BuilderFinds, C!terminals
  <1>16. ASSUME NEW s \in Slots, C!Inspect(s) PROVE Synced' /\ Reported' /\ Ready'
    <2>1. memory[s] = file[s]
      BY <1>4, <1>16 DEF C!Inspect
    <2>2. Reported'
      BY <1>1, <1>4, <1>16, <2>1 DEF C!Inspect
    <2>3. QED BY <1>4, <1>16, <2>2 DEF C!Inspect, C!terminals, C!files
  <1>17. ASSUME NEW s \in Slots, C!Ages(s) PROVE Synced' /\ Reported' /\ Ready'
    <2>1. Reported'
      BY <1>1, <1>4, <1>17 DEF C!Ages
    <2>2. QED BY <1>4, <1>17, <2>1 DEF C!Ages, C!terminals, C!files, C!Target
  <1>18. ASSUME NEW s \in Slots, C!KillFenced(s) \/ C!Exits(s) PROVE Synced' /\ Reported' /\ Ready'
    <2>1. /\ UNCHANGED <<memory, file, view, phase, job>>
          /\ running' = [running EXCEPT ![s] = 0]
      BY <1>18 DEF C!KillFenced, C!Exits, C!files
    <2>2. QED BY <1>1, <1>4, <2>1 DEF C!Target
  <1>19. ASSUME NEW s \in Slots, C!Restart(s) \/ C!Appears(s) PROVE Synced' /\ Reported' /\ Ready'
    <2>1. C!Launched(s) /\ ~C!Locked(s) /\ UNCHANGED <<file, view, phase, job>>
      BY <1>2, <1>19 DEF C!Restart, C!Appears, C!files
    <2>2. Synced'
      BY <1>1, <1>4, <2>1, LaunchedTypes DEF Catalogues
    <2>3. Ready'
      <3>1. phase \in {"install", "replace", "start"} => s # C!Target
        BY <2>1 DEF C!Locked
      <3>2. QED BY <1>1, <1>4, <2>1, <3>1, LaunchedTypes DEF C!Target
    <2>4. QED BY <1>4, <2>1, <2>2, <2>3
  <1>20. ASSUME NEW s \in Slots, C!Rewrites(s) PROVE Synced' /\ Reported' /\ Ready'
    <2>1. /\ ~C!Locked(s) /\ UNCHANGED <<running, view, phase, job>>
          /\ file' = [file EXCEPT ![s] = memory'[s]]
      BY <1>2, <1>20 DEF C!Rewrites
    <2>2. \A t \in Slots \ {s} : memory'[t] = memory[t]
      BY <1>1, <1>20 DEF C!Rewrites, Catalogues
    <2>3. Synced'
      BY <1>1, <1>4, <2>1, <2>2 DEF Catalogues
    <2>4. Ready'
      <3>1. phase \in {"fence", "stop", "install", "replace"} => s # C!Target
        BY <2>1 DEF C!Locked
      <3>2. QED BY <1>1, <1>4, <2>1, <3>1 DEF C!Target, Catalogues
    <2>5. QED BY <1>4, <2>1, <2>3, <2>4
  <1>21. CASE UNCHANGED C!vars
    BY <1>4, <1>21 DEF C!vars, C!Target
  <1>22. QED
    BY <1>6, <1>7, <1>8, <1>9, <1>10, <1>11, <1>12, <1>13, <1>14, <1>15, <1>16, <1>17, <1>18,
       <1>19, <1>20, <1>21 DEF C!Next, C!Controller

-------------------------------------------------------------------------------
\* A name is kept by a step that drops no backup, and after which a slot that has it,
\* and will not write it away, is still such a slot or has it in a backup.
LEMMA KeptOn ==
    ASSUME NEW n, Kept(n), \A t \in Slots : backups[t] \subseteq backups'[t],
           \A t \in Slots : Solid(t, n) => Solid(t, n)' \/ n \in backups'[t]
    PROVE  Kept(n)'
  BY DEF Kept

\* No step of Next loses a name that is kept: a terminal writes what it has loaded, and
\* what an installation replaces is in the backup.
LEMMA KeptStep ==
    ASSUME CatalogueBounds, C!TypeOK, Covered, [C!Next]_(C!vars), NEW n, Kept(n)
    PROVE  Kept(n)'
  <1>1. /\ C!Target \in Slots /\ running \in [Slots -> C!Process] /\ file \in Catalogues
        /\ memory \in Catalogues /\ backups \in Catalogues
    BY DEF C!TypeOK, C!Target, C!Jobs, Catalogues
  <1> DEFINE Same == \A t \in Slots : Solid(t, n) => Solid(t, n)'
  <1>2. ASSUME backups' = backups, Same PROVE Kept(n)'
    BY <1>2, KeptOn
  <1>3. CASE UNCHANGED <<running, memory, file, backups>>
    BY <1>2, <1>3 DEF Solid
  <1>4. ASSUME NEW s \in Slots, running' = [running EXCEPT ![s] = 0], UNCHANGED <<memory, file,
         backups>>
        PROVE  Kept(n)'
    BY <1>1, <1>2, <1>4 DEF Solid
  <1>5. ASSUME NEW s \in Slots, C!Launched(s), UNCHANGED <<file, backups>>
        PROVE  Kept(n)'
    <2>1. Same
      BY <1>1, <1>5, LaunchedTypes DEF Solid, Catalogues
    <2>2. QED BY <1>2, <1>5, <2>1
  <1>6. CASE C!Choose \/ C!ChooseBuilt \/ C!Check \/ C!Fence \/ C!Abort \/ C!Crash \/ C!BuilderFinds
    BY <1>3, <1>6 DEF C!Choose, C!ChooseBuilt, C!Check, C!Fence, C!Abort, C!Crash, C!BuilderFinds,
       C!terminals, C!files
  <1>7. CASE C!Stop
    <2>1. running' = running \/ running' = [running EXCEPT ![C!Target] = 0]
      BY <1>7 DEF C!Stop
    <2>2. QED BY <1>1, <1>3, <1>4, <1>7, <2>1 DEF C!Stop
  <1>8. CASE C!Install
    <2>1. \A t \in Slots : backups[t] \subseteq backups'[t]
      BY <1>1, <1>8 DEF C!Install, Catalogues
    <2>2. Same
      BY <1>8 DEF C!Install, C!terminals, Solid
    <2>3. QED BY <2>1, <2>2, KeptOn
  <1>9. CASE C!Replace
    <2>1. UNCHANGED <<running, memory, backups>> /\ phase = "replace"
      BY <1>9 DEF C!Replace, C!terminals
    <2>2. ASSUME NEW t \in Slots, Solid(t, n) PROVE Solid(t, n)' \/ n \in backups'[t]
      <3>1. CASE t = C!Target
        BY <2>1, <2>2, <3>1 DEF Solid, Covered
      <3>2. CASE t # C!Target
        <4>1. file'[t] = file[t]
          BY <1>1, <1>9, <3>2 DEF C!Replace, Catalogues
        <4>2. QED BY <2>1, <2>2, <4>1 DEF Solid
      <3>3. QED BY <3>1, <3>2
    <2>3. QED BY <2>1, <2>2, KeptOn
  <1>10. CASE C!Start
    BY <1>1, <1>3, <1>5, <1>10 DEF C!Start, C!terminals
  <1>11. ASSUME NEW s \in Slots, C!Inspect(s) \/ C!Ages(s) PROVE Kept(n)'
    BY <1>3, <1>11 DEF C!Inspect, C!Ages, C!terminals, C!files
  <1>12. ASSUME NEW s \in Slots, C!KillFenced(s) \/ C!Exits(s) PROVE Kept(n)'
    BY <1>4, <1>12 DEF C!KillFenced, C!Exits, C!files
  <1>13. ASSUME NEW s \in Slots, C!Restart(s) \/ C!Appears(s) PROVE Kept(n)'
    BY <1>5, <1>13 DEF C!Restart, C!Appears, C!files
  <1>14. ASSUME NEW s \in Slots, C!Rewrites(s) PROVE Kept(n)'
    <2>1. UNCHANGED <<running, backups>> /\ running[s] # 0
      BY <1>14 DEF C!Rewrites
    <2>2. memory[s] \subseteq memory'[s] /\ \A t \in Slots \ {s} : memory'[t] = memory[t]
      BY <1>1, <1>14 DEF C!Rewrites, Catalogues
    <2>3. file'[s] = memory'[s] /\ \A t \in Slots \ {s} : file'[t] = file[t]
      BY <1>1, <1>14 DEF C!Rewrites, Catalogues
    <2>4. Same
      BY <2>1, <2>2, <2>3 DEF Solid
    <2>5. QED BY <1>2, <2>1, <2>4
  <1>15. CASE UNCHANGED C!vars
    BY <1>3, <1>15 DEF C!vars
  <1>16. QED
    BY <1>6, <1>7, <1>8, <1>9, <1>10, <1>11, <1>12, <1>13, <1>14, <1>15 DEF C!Next, C!Controller

LEMMA CoveredStep ==
    ASSUME CatalogueBounds, C!TypeOK, Waiting, Covered, [C!Next]_(C!vars)
    PROVE  Covered'
  <1>1. /\ C!Target \in Slots /\ running \in [Slots -> C!Process]
        /\ file \in Catalogues /\ job \in C!Jobs
        /\ memory \in Catalogues /\ backups \in Catalogues
    BY DEF C!TypeOK, C!Target, C!Jobs, Catalogues
  <1> DEFINE Saved == phase = "replace" => file[C!Target] \subseteq backups[C!Target]
             Files == \A s \in Slots : \A n \in file[s] : Kept(n)
             Data == phase # "idle" /\ job.kind = "sync" => \A n \in job.data : Kept(n)
  <1>2. Saved /\ Files /\ Data
    BY DEF Covered
  <1>3. SUFFICES Saved' /\ Files' /\ Data'
    BY DEF Covered
  <1>4. \A n : Kept(n) => Kept(n)'
    BY KeptStep
  \* Files change by a rewrite and a replacement only.
  <1>5. file' = file => Files'
    BY <1>2, <1>4
  <1>6. phase' = "idle" \/ (phase # "idle" /\ job' = job) => Data'
    BY <1>2, <1>4
  <1>7. CASE C!Choose
    <2>1. PICK p \in Slots \X Slots : C!Begin("sync", p[2], view[p[1]].names, file[p[1]], {})
      BY <1>7 DEF C!Choose, C!Pairs
    <2>2. phase' = "check" /\ job'.data = file[p[1]]
      BY <2>1 DEF C!Begin
    <2>3. Data'
      BY <1>2, <1>4, <2>2
    <2>4. QED BY <1>5, <1>7, <2>2, <2>3 DEF C!Choose, C!files
  <1>8. CASE C!ChooseBuilt
    <2>1. phase' = "check" /\ job'.kind = "preparing"
      BY <1>8 DEF C!ChooseBuilt, C!Begin
    <2>2. QED BY <1>5, <1>8, <2>1 DEF C!ChooseBuilt, C!files
  <1>9. CASE C!Check \/ C!Fence \/ C!Stop
    <2>1. /\ phase # "idle" /\ file' = file
          /\ phase' = "idle" \/ (phase' # "replace" /\ job' = job)
      BY <1>9 DEF C!Check, C!Fence, C!Stop, C!Stay, C!Leave, C!files
    <2>2. QED BY <1>5, <1>6, <2>1
  <1>10. CASE C!Install
    <2>1. phase # "idle" /\ file' = file /\ (phase' = "idle" \/ job' = job)
      BY <1>10 DEF C!Install, C!Stay, C!Leave
    <2>2. phase' = "replace" => backups'[C!Target] = backups[C!Target] \cup file[C!Target]
      BY <1>1, <1>10 DEF C!Install, C!Leave, Catalogues
    <2>3. Saved'
      BY <2>1, <2>2 DEF C!Target
    <2>4. QED BY <1>5, <1>6, <2>1, <2>3
  <1>11. CASE C!Replace
    <2>1. /\ phase = "replace" /\ UNCHANGED <<running, memory, backups>>
          /\ \/ phase' = "idle" /\ file' = file
             \/ /\ phase' = "start" /\ job' = job /\ file' = [file EXCEPT ![C!Target] = job.data]
                /\ job.kind = "sync" \/ running[C!Target] = 0
      BY <1>11 DEF C!Replace, C!Stay, C!Leave, C!terminals, Waiting
    <2>2. CASE file' = file
      BY <1>5, <1>6, <2>1, <2>2
    <2>3. CASE /\ file' = [file EXCEPT ![C!Target] = job.data] /\ phase' = "start" /\ job' = job
               /\ job.kind = "sync" \/ running[C!Target] = 0
      <3>1. ASSUME NEW s \in Slots, NEW n \in file'[s] PROVE Kept(n)'
        <4>1. CASE s # C!Target
          <5>1. n \in file[s]
            BY <1>1, <2>3, <3>1, <4>1 DEF Catalogues
          <5>2. QED BY <1>2, <1>4, <5>1
        <4>2. CASE s = C!Target /\ job.kind = "sync"
          <5>1. n \in job.data
            BY <1>1, <2>3, <3>1, <4>2 DEF Catalogues
          <5>2. QED BY <1>2, <1>4, <2>1, <4>2, <5>1
        <4>3. CASE s = C!Target /\ running[C!Target] = 0
          BY <2>1, <4>3, <3>1 DEF Kept, Solid
        <4>4. QED BY <2>3, <4>1, <4>2, <4>3
      <3>2. QED BY <1>6, <2>1, <2>3, <3>1
    <2>4. QED BY <2>1, <2>2, <2>3
  <1>12. CASE C!Start
    <2>1. /\ file' = file /\ phase # "idle"
          /\ phase' = "idle" \/ (phase' = "check" /\ job'.kind = job.kind /\ job'.data = job.data)
      BY <1>12 DEF C!Start, C!GoOn, C!Leave, C!Begin
    <2>2. Data'
      BY <1>2, <1>4, <2>1
    <2>3. QED BY <1>5, <2>1, <2>2
  <1>13. CASE C!Abort \/ C!Crash
    BY <1>5, <1>13 DEF C!Abort, C!Crash, C!Leave, C!files
  <1>14. CASE C!BuilderFinds
    BY <1>5, <1>14 DEF C!BuilderFinds
  <1>15. ASSUME UNCHANGED <<file, backups, phase, job>> PROVE Saved' /\ Files' /\ Data'
    BY <1>2, <1>5, <1>6, <1>15 DEF C!Target
  <1>16. ASSUME NEW s \in Slots,
                C!Inspect(s) \/ C!Ages(s) \/ C!KillFenced(s) \/ C!Exits(s) \/ C!Restart(s)
                \/ C!Appears(s)
         PROVE  Saved' /\ Files' /\ Data'
    BY <1>15, <1>16 DEF C!Inspect, C!Ages, C!KillFenced, C!Exits, C!Restart, C!Appears, C!files
  <1>17. ASSUME NEW s \in Slots, C!Rewrites(s) PROVE Saved' /\ Files' /\ Data'
    <2>1. UNCHANGED <<backups, phase, job, running>> /\ (phase = "replace" => s # C!Target)
      BY <1>17 DEF C!Rewrites, C!Locked
    <2>2. file'[s] = memory'[s] /\ \A t \in Slots \ {s} : file'[t] = file[t]
      BY <1>1, <1>17 DEF C!Rewrites, Catalogues
    <2>3. \A n \in file'[s] : Kept(n)'
      BY <2>2 DEF Kept, Solid
    <2>4. Files'
      BY <1>2, <1>4, <2>2, <2>3
    <2>5. Saved'
      BY <1>1, <1>2, <2>1, <2>2 DEF C!Target
    <2>6. QED BY <1>6, <2>1, <2>4, <2>5
  <1>18. CASE UNCHANGED C!vars
    BY <1>15, <1>18 DEF C!vars
  <1>19. QED
    BY <1>7, <1>8, <1>9, <1>10, <1>11, <1>12, <1>13, <1>14, <1>16, <1>17, <1>18 DEF C!Next,
       C!Controller

LEMMA CatalogueInvariance ==
    ASSUME CatalogueBounds
    PROVE  C!Spec => []CatalogueIInv
  <1>1. CatalogueIInv /\ [C!Next]_(C!vars) => CatalogueIInv'
    BY CatalogueTypes, WaitingStep, InStepStep, CoveredStep DEF CatalogueIInv
  <1>2. QED BY <1>1, CatalogueInit, PTL DEF C!Spec

\* Every variable of CatalogueSync keeps its type.
THEOREM CataloguesTyped ==
    ASSUME CatalogueBounds
    PROVE  C!Spec => []C!TypeOK
  BY CatalogueInvariance, PTL DEF CatalogueIInv

\* No servers.dat ever loses a name as long as MT5 leaves a slot alone whose mutex is
\* held, for any slots, names, faults and crashes: choose_pair's strict superset still
\* holds when the file is replaced (catalogue_sync.py).
THEOREM NamesNotLost ==
    ASSUME CatalogueBounds
    PROVE  C!Spec => C!NothingLost
  <1>1. ASSUME CatalogueIInv,
         [C!Next]_(C!vars) PROVE late \/ \A s \in Slots : file[s] \subseteq file'[s]
    <2>1. SUFFICES ASSUME ~late, NEW s \in Slots, file' # file PROVE file[s] \subseteq file'[s]
      OBVIOUS
    <2>2. file \in Catalogues /\ memory \in Catalogues /\ C!Target \in Slots
      BY <1>1 DEF CatalogueIInv, C!TypeOK, Catalogues, C!Target, C!Jobs
    <2>3. C!Replace \/ \E t \in Slots : C!Rewrites(t)
      BY <1>1, <2>1 DEF C!Next, C!Controller, C!Choose, C!ChooseBuilt, C!Check, C!Fence, C!Stop,
         C!Install, C!Start, C!Abort, C!Crash, C!BuilderFinds, C!Inspect, C!Ages, C!KillFenced,
         C!Restart, C!Exits, C!Appears, C!files, C!vars
    <2>4. CASE C!Replace
      <3>1. file[C!Target] \subseteq job.data /\ file' = [file EXCEPT ![C!Target] = job.data]
        BY <1>1, <2>1, <2>4 DEF CatalogueIInv, InStep, C!Replace
      <3>2. QED BY <2>2, <3>1 DEF Catalogues
    <2>5. ASSUME NEW t \in Slots, C!Rewrites(t) PROVE file[s] \subseteq file'[s]
      <3>1. memory[t] = file[t]
        BY <1>1, <2>1, <2>5 DEF CatalogueIInv, InStep, C!Rewrites
      <3>2. memory[t] \subseteq memory'[t] /\ file' = [file EXCEPT ![t] = memory'[t]]
        BY <2>2, <2>5 DEF C!Rewrites, Catalogues
      <3>3. QED BY <2>2, <3>1, <3>2 DEF Catalogues
    <2>6. QED BY <2>3, <2>4, <2>5
  <1>2. CatalogueIInv /\ [C!Next]_(C!vars) =>
          [late \/ \A s \in Slots : file[s] \subseteq file'[s]]_(C!vars)
    BY <1>1
  <1>3. QED BY <1>2, CatalogueInvariance, PTL DEF C!Spec, C!NothingLost

\* Whatever MT5 does behind the mutex, a name that leaves a catalogue is in another one or
\* in a backup (install_catalogue copies the file it replaces, catalogue_sync.py).
THEOREM NamesAreKept ==
    ASSUME CatalogueBounds
    PROVE  C!Spec => C!NamesKept
  <1>1. ASSUME CatalogueIInv, [C!Next]_(C!vars), NEW s \in Slots
        PROVE  file[s] \ file'[s] \subseteq UNION {backups'[t] \cup file'[t] : t \in Slots}
    <2>1. SUFFICES ASSUME NEW n \in file[s], n \notin file'[s]
                   PROVE  \E t \in Slots : n \in backups'[t] \cup file'[t]
      OBVIOUS
    <2>2. Kept(n)'
      BY <1>1, KeptStep DEF CatalogueIInv, Covered
    <2>3. QED BY <2>2 DEF Kept, Solid
  <1>2. CatalogueIInv /\ [C!Next]_(C!vars) =>
          [\A s \in Slots :
             file[s] \ file'[s] \subseteq UNION {backups'[t] \cup file'[t] : t \in Slots}]_(C!vars)
    BY <1>1
  <1>3. QED BY <1>2, CatalogueInvariance, PTL DEF C!Spec, C!NamesKept
===============================================================================
