--------------------------- MODULE JobDeadlineProofs ---------------------------
(***************************************************************************)
(* Theorems about JobDeadline, for every value of its seconds: when a child *)
(* is killed, how much of the lease is left for what follows, and how long  *)
(* the heartbeats may be silent.                                           *)
(***************************************************************************)
EXTENDS JobDeadline, TLAPS

First == Larger(1, RetryAfter)      \* the longest pauses between the attempts
Second == Larger(2, RetryAfter)
Slowest == Larger(Beat, CallMax)

\* The child is killed before its reserve is touched; the loop has just seen
\* time left for it whenever a second passes.
WatchedInTime ==
    pc = "watch" => left >= timeout + Reserve /\ (polled => timeout > 0)

\* What every step after the child may have taken from the reserve so far.
ReserveSpent ==
    /\ pc = "read" => left + spent >= Reserve
    /\ pc = "report" => left + spent >= Reserve - 5
    /\ pc = "pause1" => left + spent >= Reserve - 5 - HttpTimeout
    /\ pc = "again" => left + spent >= Reserve - 5 - HttpTimeout - First
    /\ pc = "pause2" => left + spent >= Reserve - 5 - 2 * HttpTimeout - First
    /\ pc = "last" => left + spent >= Reserve - 5 - 2 * HttpTimeout - First - Second

\* No step takes longer than its timeout.
StepsBounded ==
    /\ pc = "read" => spent <= 5
    /\ pc \in {"report", "again", "last"} => spent <= HttpTimeout
    /\ pc = "pause1" => spent <= First
    /\ pc = "pause2" => spent <= Second

\* The loop looks at the heartbeats once a second, and a call is bounded.
BeatsBounded ==
    /\ beat = "pending" => since <= CallMax
    /\ pc = "watch" => since <= Slowest + 1
    /\ pc = "watch" /\ polled => since <= Slowest

\* A running child is never left without the loop, which starts afresh.
ChildWatched ==
    /\ child = "running" => pc = "watch"
    /\ pc = "check" => since = 0 /\ ~polled

\* The inductive invariant.
IInv == /\ TypeOK /\ WatchedInTime /\ ReserveSpent /\ StepsBounded
        /\ BeatsBounded /\ ChildWatched
Conditions == WatchedInTime /\ ReserveSpent /\ StepsBounded /\ BeatsBounded /\ ChildWatched

-------------------------------------------------------------------------------
\* The seconds are numbers.
LEMMA Seconds ==
    /\ Remaining \subseteq Nat
    /\ MaxRun \in Nat /\ Reserve \in Nat /\ MinLeft \in Nat /\ Beat \in Nat
    /\ CallMax \in Nat /\ HttpTimeout \in Nat /\ RetryAfter \in Nat
    /\ Reserve <= MinLeft /\ 0 \in 0 .. MaxRun
  BY TimingAssumption

\* The longest pauses, and the longest silence, are numbers.
LEMMA Pauses ==
    /\ First \in Nat /\ Second \in Nat /\ Slowest \in Nat
    /\ Beat <= Slowest /\ CallMax <= Slowest
  BY Seconds DEF First, Second, Slowest, Larger

\* The attempts and the pauses between them, in their order.
LEMMA Order ==
    /\ Attempts[Place("report") + 1] = "pause1"
    /\ Attempts[Place("pause1") + 1] = "again"
    /\ Attempts[Place("again") + 1] = "pause2"
    /\ Attempts[Place("pause2") + 1] = "last"
  <1>1. /\ Attempts[1] = "report" /\ Attempts[2] = "pause1" /\ Attempts[3] = "again"
        /\ Attempts[4] = "pause2" /\ Attempts[5] = "last"
    BY DEF Attempts
  <1>2. \A i \in 1 .. 5 : i = 1 \/ i = 2 \/ i = 3 \/ i = 4 \/ i = 5
    OBVIOUS
  <1>3. Place("report") = 1
    BY <1>1, <1>2 DEF Place
  <1>4. Place("pause1") = 2
    BY <1>1, <1>2 DEF Place
  <1>5. Place("again") = 3
    BY <1>1, <1>2 DEF Place
  <1>6. Place("pause2") = 4
    BY <1>1, <1>2 DEF Place
  <1> QED
    BY <1>1, <1>3, <1>4, <1>5, <1>6

\* Reporting is being in one of them.
LEMMA ReportingSteps ==
    Reporting <=> pc \in {"report", "pause1", "again", "pause2", "last"}
  <1>1. /\ Attempts[1] = "report" /\ Attempts[2] = "pause1" /\ Attempts[3] = "again"
        /\ Attempts[4] = "pause2" /\ Attempts[5] = "last"
    BY DEF Attempts
  <1>2. Reporting <=> \E i \in 1 .. 5 : pc = Attempts[i]
    BY DEF Reporting
  <1>3. \A i \in 1 .. 5 : i = 1 \/ i = 2 \/ i = 3 \/ i = 4 \/ i = 5
    OBVIOUS
  <1>4. ASSUME Reporting PROVE pc \in {"report", "pause1", "again", "pause2", "last"}
    BY <1>1, <1>2, <1>3, <1>4
  <1>5. ASSUME pc \in {"report", "pause1", "again", "pause2", "last"} PROVE Reporting
    <2>1. 1 \in 1 .. 5 /\ 2 \in 1 .. 5 /\ 3 \in 1 .. 5 /\ 4 \in 1 .. 5 /\ 5 \in 1 .. 5
      OBVIOUS
    <2> QED
      BY <1>1, <1>2, <1>5, <2>1
  <1> QED
    BY <1>4, <1>5

\* One second less, where there is one.
LEMMA Less ==
    ASSUME NEW n \in Nat
    PROVE  /\ LessOne(n) \in Nat /\ LessOne(n) <= n /\ LessOne(n) + 1 >= n
           /\ n > 0 => LessOne(n) = n - 1
  BY DEF LessOne

\* What a second takes from the lease is not more than what it adds elsewhere.
LEMMA Sums ==
    ASSUME NEW a \in Nat, NEW b \in Nat, NEW c \in Nat, c + 1 >= a
    PROVE  c + (b + 1) >= a + b /\ c + (b + 1) \in Nat /\ a + b \in Nat
  OBVIOUS

-------------------------------------------------------------------------------
LEMMA InitIInv == Init => IInv
  <1> SUFFICES ASSUME Init PROVE IInv
    OBVIOUS
  <1>1. TypeOK
    <2>1. left \in Nat /\ 0 \in Nat /\ timeout \in 0 .. MaxRun
      BY Seconds DEF Init
    <2> QED
      BY <2>1 DEF Init, TypeOK
  <1>2. Conditions
    BY DEF Init, Conditions, WatchedInTime, ReserveSpent, StepsBounded, BeatsBounded,
           ChildWatched
  <1> QED
    BY <1>1, <1>2 DEF IInv, Conditions

\* A child gets no more than its lease without the reserve.
LEMMA CheckIInv == IInv /\ Check => IInv'
  <1> SUFFICES ASSUME IInv, Check PROVE IInv'
    OBVIOUS
  <1>1. TypeOK /\ left \in Nat
    BY DEF IInv, TypeOK
  <1>2. CASE left < MinLeft
    <2>1. pc' = "gone" /\ UNCHANGED <<child, timeout, left, polled, beat, since, spent>>
      BY <1>2 DEF Check
    <2>2. child # "running"
      BY DEF IInv, ChildWatched, Check
    <2>3. TypeOK'
      BY <1>1, <2>1 DEF TypeOK
    <2>4. Conditions'
      BY <2>1, <2>2 DEF Conditions, WatchedInTime, ReserveSpent, StepsBounded,
                        BeatsBounded, ChildWatched, IInv
    <2> QED
      BY <2>3, <2>4 DEF IInv, Conditions
  <1>3. CASE ~(left < MinLeft)
    <2>1. /\ pc' = "watch" /\ child' = "running" /\ timeout' = Smaller(MaxRun, left - Reserve)
          /\ pc = "check" /\ UNCHANGED <<left, polled, beat, since, spent>>
      BY <1>3 DEF Check
    <2>2. timeout' \in 0 .. MaxRun /\ left >= timeout' + Reserve
      BY <1>1, <1>3, <2>1, Seconds DEF Smaller
    <2>3. since = 0 /\ ~polled /\ (beat = "pending" => since <= CallMax)
      BY <2>1 DEF IInv, ChildWatched, BeatsBounded
    <2>4. TypeOK'
      BY <1>1, <2>1, <2>2 DEF TypeOK
    <2>5. WatchedInTime' /\ ReserveSpent' /\ StepsBounded' /\ ChildWatched'
      BY <2>1, <2>2, <2>3 DEF WatchedInTime, ReserveSpent, StepsBounded, ChildWatched
    <2>6. BeatsBounded'
      BY <2>1, <2>3, Pauses DEF BeatsBounded
    <2> QED
      BY <2>4, <2>5, <2>6 DEF IInv
  <1> QED
    BY <1>2, <1>3

\* What ends by itself is still reaped by the loop.
LEMMA ChildEndsIInv == IInv /\ ChildEnds => IInv'
  BY DEF IInv, ChildEnds, TypeOK, WatchedInTime, ReserveSpent, StepsBounded,
         BeatsBounded, ChildWatched

\* Leaving the loop: nothing of the reserve is spent yet.
LEMMA FinishIInv ==
    ASSUME IInv, NEW step \in {"read", "gone"}, pc = "watch",
           Finish(step), child' = "dead", left' = left
    PROVE  IInv'
  <1>1. /\ pc' = step /\ polled' = FALSE /\ timeout' = 0 /\ beat' = "none"
        /\ since' = 0 /\ spent' = 0 /\ child' = "dead" /\ left' = left
    BY DEF Finish
  <1>2. left >= timeout + Reserve /\ left \in Nat /\ timeout \in Nat
    BY Seconds DEF IInv, WatchedInTime, TypeOK
  <1>3. TypeOK'
    <2>1. left' \in Nat /\ timeout' \in 0 .. MaxRun /\ since' \in Nat /\ spent' \in Nat
      BY <1>1, <1>2, Seconds
    <2> QED
      BY <1>1, <2>1 DEF TypeOK
  <1>4. left >= Reserve
    BY <1>2, Seconds
  <1>5. WatchedInTime' /\ ChildWatched' /\ BeatsBounded'
    BY <1>1 DEF WatchedInTime, ChildWatched, BeatsBounded
  <1>6. ReserveSpent'
    BY <1>1, <1>2, <1>4, Seconds DEF ReserveSpent
  <1>7. StepsBounded'
    BY <1>1, Seconds DEF StepsBounded
  <1> QED
    BY <1>3, <1>5, <1>6, <1>7 DEF IInv

\* A pass that goes on has seen time left, and a beat that is due begins.
LEMMA WatchIInv == IInv /\ Watch => IInv'
  <1> SUFFICES ASSUME IInv, Watch PROVE IInv'
    OBVIOUS
  <1>1. pc = "watch" /\ ~polled /\ left' = left
    BY DEF Watch
  <1>2. CASE child = "dead" /\ Finish("read") /\ UNCHANGED child
    BY <1>1, <1>2, FinishIInv
  <1>3. CASE child = "running" /\ timeout <= 0 /\ Kill /\ Finish("read")
    BY <1>1, <1>3, FinishIInv DEF Kill
  <1>4. CASE child = "running" /\ timeout > 0 /\ beat = "failed" /\ Kill /\ Finish("gone")
    BY <1>1, <1>4, FinishIInv DEF Kill
  <1>5. CASE /\ child = "running" /\ timeout > 0 /\ beat # "failed"
             /\ polled' = TRUE
             /\ IF since >= Beat /\ beat # "pending"
                THEN beat' = "pending" /\ since' = 0
                ELSE beat' = (IF beat = "answered" THEN "none" ELSE beat) /\ UNCHANGED since
             /\ UNCHANGED <<pc, child, timeout, spent>>
    <2>1. TypeOK /\ since \in Nat /\ (beat = "pending" => since <= CallMax)
      BY DEF IInv, TypeOK, BeatsBounded
    <2>2. TypeOK'
      <3>1. beat' \in {"none", "pending", "answered", "failed"} /\ since' \in Nat
        BY <1>5, <2>1 DEF TypeOK
      <3> QED
        BY <1>1, <1>5, <2>1, <3>1 DEF TypeOK
    <2>3. WatchedInTime' /\ ChildWatched'
      BY <1>1, <1>5 DEF IInv, WatchedInTime, ChildWatched
    <2>4. ReserveSpent' /\ StepsBounded'
      BY <1>1, <1>5 DEF ReserveSpent, StepsBounded
    <2>5. BeatsBounded'
      <3>1. CASE since >= Beat /\ beat # "pending"
        <4>1. beat' = "pending" /\ since' = 0
          BY <1>5, <3>1
        <4> QED
          BY <1>5, <4>1, Pauses, Seconds DEF BeatsBounded
      <3>2. CASE ~(since >= Beat) /\ beat # "pending"
        <4>1. beat' # "pending" /\ since' = since
          BY <1>5, <3>2
        <4>2. since' <= Slowest
          BY <2>1, <3>2, <4>1, Pauses, Seconds
        <4> QED
          BY <1>5, <2>1, <4>1, <4>2, Pauses DEF BeatsBounded
      <3>3. CASE beat = "pending"
        <4>1. since' = since
          BY <1>5, <3>3
        <4>2. since' <= CallMax /\ since' <= Slowest
          BY <2>1, <3>3, <4>1, Pauses, Seconds
        <4> QED
          BY <1>5, <2>1, <4>1, <4>2, Pauses DEF BeatsBounded
      <3> QED
        BY <3>1, <3>2, <3>3
    <2> QED
      BY <2>2, <2>3, <2>4, <2>5 DEF IInv
  <1> QED
    BY <1>2, <1>3, <1>4, <1>5 DEF Watch

LEMMA HeartbeatEndsIInv == IInv /\ HeartbeatEnds => IInv'
  BY DEF IInv, HeartbeatEnds, TypeOK, WatchedInTime, ReserveSpent, StepsBounded,
         BeatsBounded, ChildWatched

\* Reading took five seconds of the reserve at most.
LEMMA ReadIInv == IInv /\ Read => IInv'
  <1> SUFFICES ASSUME IInv, Read PROVE IInv'
    OBVIOUS
  <1>1. /\ pc = "read" /\ pc' \in {"report", "gone"} /\ spent' = 0
        /\ UNCHANGED <<left, polled, child, timeout, beat, since>>
    BY DEF Read
  <1>2. left + spent >= Reserve /\ spent <= 5 /\ left \in Nat /\ spent \in Nat
    BY <1>1 DEF IInv, ReserveSpent, StepsBounded, TypeOK
  <1>3. ReserveSpent'
    BY <1>1, <1>2, Seconds DEF ReserveSpent
  <1>4. StepsBounded'
    BY <1>1, Seconds DEF StepsBounded
  <1>5. TypeOK' /\ WatchedInTime' /\ BeatsBounded' /\ ChildWatched'
    BY <1>1 DEF IInv, TypeOK, WatchedInTime, BeatsBounded, ChildWatched
  <1> QED
    BY <1>3, <1>4, <1>5 DEF IInv

\* Each attempt, and each pause, ended within its own time.
LEMMA ReportIInv == IInv /\ Report => IInv'
  <1> SUFFICES ASSUME IInv, Report PROVE IInv'
    OBVIOUS
  <1>1. Reporting /\ spent' = 0 /\ UNCHANGED <<left, polled, child, timeout, beat, since>>
    BY DEF Report
  <1>2. left \in Nat /\ spent \in Nat
    BY DEF IInv, TypeOK
  <1>3. child # "running" /\ (beat = "pending" => since <= CallMax)
    BY <1>1, ReportingSteps DEF IInv, ChildWatched, BeatsBounded
  <1>4. \/ pc' = "gone"
        \/ pc = "report" /\ pc' = "pause1"
        \/ pc = "pause1" /\ pc' = "again"
        \/ pc = "again" /\ pc' = "pause2"
        \/ pc = "pause2" /\ pc' = "last"
    BY <1>1, ReportingSteps, Order DEF Report
  <1>5. pc' \in {"gone", "pause1", "again", "pause2", "last"}
    BY <1>4
  <1>6. TypeOK' /\ WatchedInTime' /\ BeatsBounded' /\ ChildWatched'
    BY <1>1, <1>3, <1>5 DEF IInv, TypeOK, WatchedInTime, BeatsBounded, ChildWatched
  <1>7. ReserveSpent'
    <2>1. CASE pc' = "gone"
      BY <2>1 DEF ReserveSpent
    <2>2. CASE pc = "report" /\ pc' = "pause1"
      <3>1. left + spent >= Reserve - 5 /\ spent <= HttpTimeout
        BY <2>2 DEF IInv, ReserveSpent, StepsBounded
      <3> QED
        BY <1>1, <1>2, <2>2, <3>1, Seconds, Pauses DEF ReserveSpent
    <2>3. CASE pc = "pause1" /\ pc' = "again"
      <3>1. left + spent >= Reserve - 5 - HttpTimeout /\ spent <= First
        BY <2>3 DEF IInv, ReserveSpent, StepsBounded
      <3> QED
        BY <1>1, <1>2, <2>3, <3>1, Seconds, Pauses DEF ReserveSpent
    <2>4. CASE pc = "again" /\ pc' = "pause2"
      <3>1. left + spent >= Reserve - 5 - HttpTimeout - First /\ spent <= HttpTimeout
        BY <2>4 DEF IInv, ReserveSpent, StepsBounded
      <3> QED
        BY <1>1, <1>2, <2>4, <3>1, Seconds, Pauses DEF ReserveSpent
    <2>5. CASE pc = "pause2" /\ pc' = "last"
      <3>1. left + spent >= Reserve - 5 - 2 * HttpTimeout - First /\ spent <= Second
        BY <2>5 DEF IInv, ReserveSpent, StepsBounded
      <3> QED
        BY <1>1, <1>2, <2>5, <3>1, Seconds, Pauses DEF ReserveSpent
    <2> QED
      BY <1>4, <2>1, <2>2, <2>3, <2>4, <2>5
  <1>8. StepsBounded'
    BY <1>1, <1>5, Seconds, Pauses DEF StepsBounded
  <1> QED
    BY <1>6, <1>7, <1>8 DEF IInv

\* A second takes one from the lease and one from what is allowed.
LEMMA TickIInv == IInv /\ Tick => IInv'
  <1> SUFFICES ASSUME IInv, Tick PROVE IInv'
    OBVIOUS
  <1>1. /\ pc' = pc /\ child' = child /\ beat' = beat
        /\ left' = LessOne(left) /\ polled' = FALSE
        /\ pc = "watch" => polled
        /\ beat = "pending" => since < CallMax
        /\ pc \notin {"check", "gone"}
    BY DEF Tick
  <1>2. left \in Nat /\ since \in Nat /\ spent \in Nat /\ timeout \in Nat
    BY Seconds DEF IInv, TypeOK
  <1>3. left' \in Nat /\ left' + 1 >= left /\ (left > 0 => left' = left - 1)
    BY <1>1, <1>2, Less
  <1>4. CASE pc = "watch"
    <2>1. /\ timeout' = LessOne(timeout) /\ since' = since + 1 /\ spent' = 0
          /\ timeout > 0 /\ left >= timeout + Reserve
      BY <1>1, <1>4 DEF Tick, IInv, WatchedInTime
    <2>2. timeout' = timeout - 1
      BY <1>2, <2>1, Less
    <2>3. left' = left - 1
      BY <1>2, <1>3, <2>1, Seconds
    <2>4. since <= Slowest /\ (beat = "pending" => since < CallMax)
      BY <1>1, <1>4 DEF IInv, BeatsBounded
    <2>5. TypeOK'
      <3>1. timeout \in 0 .. MaxRun
        BY DEF IInv, TypeOK
      <3>2. timeout' \in 0 .. MaxRun
        BY <2>1, <2>2, <3>1, Seconds
      <3>3. since' \in Nat /\ spent' \in Nat
        BY <1>2, <2>1
      <3> QED
        BY <1>1, <1>3, <3>2, <3>3 DEF IInv, TypeOK
    <2>6. WatchedInTime'
      BY <1>1, <1>2, <2>1, <2>2, <2>3, Seconds DEF WatchedInTime
    <2>7. BeatsBounded'
      BY <1>1, <1>2, <2>1, <2>4, Seconds, Pauses DEF BeatsBounded
    <2>8. ReserveSpent' /\ StepsBounded' /\ ChildWatched'
      BY <1>1, <1>4 DEF IInv, ReserveSpent, StepsBounded, ChildWatched
    <2> QED
      BY <2>5, <2>6, <2>7, <2>8 DEF IInv
  <1>5. CASE pc # "watch"
    <2>1. timeout' = timeout /\ since' = since /\ spent' = spent + 1
      BY <1>5 DEF Tick
    <2>2. left' + spent' >= left + spent /\ left' + spent' \in Nat /\ left + spent \in Nat
      BY <1>2, <1>3, <2>1, Sums
    <2>3. TypeOK'
      <3>1. spent' \in Nat
        BY <1>2, <2>1
      <3> QED
        BY <1>1, <1>3, <2>1, <3>1 DEF IInv, TypeOK
    <2>4. WatchedInTime' /\ ChildWatched'
      BY <1>1, <1>5 DEF IInv, WatchedInTime, ChildWatched
    <2>5. BeatsBounded'
      BY <1>1, <1>5, <2>1 DEF IInv, BeatsBounded
    <2>6. ReserveSpent'
      <3>2. \A n \in Int : left + spent >= n => left' + spent' >= n
        BY <2>2
      <3>3. /\ Reserve \in Int /\ Reserve - 5 \in Int
            /\ Reserve - 5 - HttpTimeout \in Int
            /\ Reserve - 5 - HttpTimeout - First \in Int
            /\ Reserve - 5 - 2 * HttpTimeout - First \in Int
            /\ Reserve - 5 - 2 * HttpTimeout - First - Second \in Int
        BY Seconds, Pauses
      <3> QED
        BY <1>1, <3>2, <3>3 DEF IInv, ReserveSpent
    <2>7. StepsBounded'
      <3>1. /\ pc = "read" => spent < 5
            /\ pc \in {"report", "again", "last"} => spent < HttpTimeout
            /\ pc = "pause1" => spent < First
            /\ pc = "pause2" => spent < Second
        BY ReportingSteps DEF Tick, Longest, First, Second
      <3> QED
        BY <1>1, <1>2, <2>1, <3>1, Seconds, Pauses DEF StepsBounded
    <2> QED
      BY <2>3, <2>4, <2>5, <2>6, <2>7 DEF IInv
  <1> QED
    BY <1>4, <1>5

LEMMA NextIInv == IInv /\ [Next]_vars => IInv'
  <1> SUFFICES ASSUME IInv, [Next]_vars PROVE IInv'
    OBVIOUS
  <1>1. CASE UNCHANGED vars
    BY <1>1 DEF vars, IInv, TypeOK, WatchedInTime, ReserveSpent, StepsBounded,
                BeatsBounded, ChildWatched
  <1> QED
    BY <1>1, CheckIInv, ChildEndsIInv, WatchIInv, HeartbeatEndsIInv, ReadIInv,
       ReportIInv, TickIInv DEF Next, Gone

LEMMA Invariance == Spec => []IInv
  BY InitIInv, NextIInv, PTL DEF Spec

-------------------------------------------------------------------------------
\* Every variable keeps its type.
THEOREM TypeCorrect == Spec => []TypeOK
  <1>1. IInv => TypeOK
    BY DEF IInv
  <1> QED
    BY Invariance, <1>1, PTL

\* However long heartbeats take and whatever the seconds are, as long as a lease
\* without its reserve is refused: a child that runs has a loop that watches it
\* (worker.py run_child), and it is killed with the reserve of its lease left.
THEOREM EndsInTime == Spec => []ChildEndsInTime
  <1>1. IInv => ChildEndsInTime
    BY Seconds DEF IInv, ChildEndsInTime, ChildWatched, WatchedInTime, TypeOK
  <1> QED
    BY Invariance, <1>1, PTL

\* What slow attempts and a Retry-After may add: the reserve has to exceed five seconds of reading, two
\* attempts that time out and both of the longest pauses.  With the code's 35
\* seconds and attempts of 10 that is a Retry-After of 4 at most.
ReserveCovers == Reserve > 5 + 2 * HttpTimeout + First + Second

\* If it does, the last attempt to hand in a result still meets a valid lease
\* (SlotWorker.once, NodeClient.call).
THEOREM LastInLease == ASSUME ReserveCovers PROVE Spec => []ReportedInLease
  <1>1. IInv => ReportedInLease
    <2> SUFFICES ASSUME IInv, pc \in {"report", "again", "last"}, spent = 0
                 PROVE  left > 0
      BY DEF ReportedInLease
    <2>1. left \in Nat
      BY DEF IInv, TypeOK
    <2>2. \/ left + 0 >= Reserve - 5
          \/ left + 0 >= Reserve - 5 - HttpTimeout - First
          \/ left + 0 >= Reserve - 5 - 2 * HttpTimeout - First - Second
      BY DEF IInv, ReserveSpent
    <2> QED
      BY <2>1, <2>2, Seconds, Pauses, ReserveCovers DEF ReserveCovers
  <1> QED
    BY Invariance, <1>1, PTL

\* Heartbeats go on, one interval or one slow call apart, whatever their length
\* is, for as long as the child runs.
THEOREM BeatsGoOn == Spec => []HeartbeatsGoOn
  <1>1. IInv => HeartbeatsGoOn
    <2> SUFFICES ASSUME IInv, child = "running" PROVE since <= Slowest + 1
      BY DEF HeartbeatsGoOn, Slowest
    <2> QED
      BY DEF IInv, ChildWatched, BeatsBounded
  <1> QED
    BY Invariance, <1>1, PTL
===============================================================================
