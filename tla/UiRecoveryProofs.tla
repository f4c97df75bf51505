---------------------------- MODULE UiRecoveryProofs ----------------------------
(***************************************************************************)
(* Theorems about UiRecovery, for any slots, any processes, any thresholds  *)
(* and any bounds: what a sighting stands for, and what the file promises.  *)
(***************************************************************************)
EXTENDS UiRecovery, TLAPS

Answer == [at : Times, row : Rows]
Logs == Seq(Answer)

\* The first of the answers that o counts.
Begin(o, l) == Len(l) - o.count + 1

\* What ui_recovery.py keeps stands for the end of the log: its last answers, all
\* of them UI errors of one process and generation, without a gap, between the
\* two times kept.
Stands(o, l) ==
    o # None =>
        /\ o.sig # Healthy /\ o.count <= Len(l)
        /\ \A j \in Begin(o, l) .. Len(l) : l[j].row = o.sig
        /\ \A j \in Begin(o, l) .. Len(l) - 1 : l[j + 1].at - l[j].at <= Gap
        /\ l[Begin(o, l)].at = o.first /\ l[Len(l)].at = o.last

\* And it leaves out nothing: what comes before is another answer or a gap.
Whole(o, l) ==
    /\ o = None => l = <<>> \/ l[Len(l)].row = Healthy
    /\ o # None => LET b == Begin(o, l) - 1 IN
                   \/ b = 0 \/ l[b].row # o.sig \/ l[b + 1].at - l[b].at > Gap

\* A clock that never goes back between two answers orders them all.
Ordered(l) ==
    Monotone(l) => \A i, j \in 1 .. Len(l) : i <= j => l[i].at <= l[j].at

ObservationsStand ==
    \A s \in Slots : /\ Stands(observations[s], log[s]) /\ Whole(observations[s], log[s])
                     /\ Ordered(log[s]) /\ Len(log[s]) <= MaxPasses

\* A fence under way has a target; once its grant is being written it has a
\* reading too, one that the file allows.
CurKnown ==
    /\ step # "pass" => cur \in [slot : Slots, sig : Signatures, now : Times \cup {0}]
    /\ step = "replace" => cur.now \in Times /\ ~Refuses(cur.slot, cur.now)

\* No grant is later than the file says.
BudgetCovers ==
    \A g \in granted : g.at <= budget.all /\ g.at <= budget.of[g.slot]

\* The inductive invariant.
IInv == /\ TypeOK /\ ObservationsStand /\ CurKnown /\ BudgetCovers
        /\ FencedOnEvidence

Observation == {None} \cup [sig : Signatures, first : Times, last : Times, count : Nat \ {0}]

-------------------------------------------------------------------------------
\* Readings are numbers.
LEMMA TimesNat == Times \subseteq Nat /\ Start \in Nat
  BY UiAssumption DEF Times, Start

LEMMA AnswerAt == \A a \in Answer : a.at \in Nat
  BY TimesNat DEF Answer

\* What one more answer does to the log.
LEMMA LogAppend ==
    ASSUME NEW l \in Logs, NEW x \in Answer
    PROVE  /\ Append(l, x) \in Logs /\ Len(Append(l, x)) = Len(l) + 1 /\ Len(l) \in Nat
           /\ \A j \in 1 .. Len(l) : Append(l, x)[j] = l[j] /\ l[j] \in Answer
           /\ Append(l, x)[Len(l) + 1] = x
           /\ Append(l, x) # <<>>
  BY DEF Logs

\* A sighting is not None.
LEMMA SightingIsSome ==
    ASSUME NEW o \in Observation, o # None
    PROVE  o \in [sig : Signatures, first : Times, last : Times, count : Nat \ {0}]
  BY DEF Observation

\* The next sighting counts one more answer, or starts again.
LEMMA SightedCases ==
    ASSUME NEW o \in Observation, NEW sig \in Signatures, NEW now \in Times,
           NEW n, n = Sighted(o, sig, now)
    PROVE  /\ n \in Observation /\ n # None /\ n.sig = sig /\ n.last = now
           /\ \/ /\ o = None \/ o.sig # sig \/ now - o.last > Gap
                 /\ n.count = 1 /\ n.first = now
              \/ /\ o # None /\ o.sig = sig /\ ~(now - o.last > Gap)
                 /\ n.count = o.count + 1 /\ n.first = o.first
  <1> DEFINE Some == [sig : Signatures, first : Times, last : Times, count : Nat \ {0}]
  <1>1. ASSUME NEW r \in Some PROVE r # None /\ r \in Observation
    <2>1. r.count # 0 /\ None.count = 0
      BY DEF None
    <2> QED
      BY <2>1 DEF Observation
  <1>2. CASE o = None \/ o.sig # sig \/ now - o.last > Gap
    <2>1. n = [sig |-> sig, first |-> now, last |-> now, count |-> 1]
      BY <1>2 DEF Sighted
    <2>2. n \in Some
      BY <2>1
    <2> QED
      BY <1>1, <1>2, <2>1, <2>2
  <1>3. CASE ~(o = None \/ o.sig # sig \/ now - o.last > Gap)
    <2>1. n = [o EXCEPT !.last = now, !.count = @ + 1]
      BY <1>3 DEF Sighted
    <2>2. o \in Some
      BY <1>3, SightingIsSome
    <2>3. n = [sig |-> o.sig, first |-> o.first, last |-> now, count |-> o.count + 1]
      BY <2>1, <2>2
    <2>4. n \in Some
      BY <2>2, <2>3
    <2>5. n \in Observation /\ n # None
      BY <1>1, <2>4
    <2>6. n.sig = sig /\ n.last = now /\ n.count = o.count + 1 /\ n.first = o.first
      BY <1>3, <2>3
    <2> QED
      BY <1>3, <2>5, <2>6
  <1> QED
    BY <1>2, <1>3

\* It stands for the end of the longer log.
LEMMA StandsOn ==
    ASSUME NEW o \in Observation, NEW l \in Logs, NEW sig \in Signatures, NEW now \in Times,
           sig # Healthy, Stands(o, l), NEW n, n = Sighted(o, sig, now),
           NEW m, m = Append(l, [at |-> now, row |-> sig])
    PROVE  Stands(n, m)
  <1>1. PICK x \in Answer : x.at = now /\ x.row = sig /\ m = Append(l, x)
    BY DEF Answer, Rows
  <1>2. /\ m \in Logs /\ Len(m) = Len(l) + 1 /\ Len(l) \in Nat
        /\ \A j \in 1 .. Len(l) : m[j] = l[j] /\ l[j] \in Answer
        /\ m[Len(l) + 1] = x
    BY <1>1, LogAppend
  <1>3. Gap \in Int /\ now \in Int
    BY UiAssumption, TimesNat
  <1>4. /\ n \in Observation /\ n # None /\ n.sig = sig /\ n.last = now
        /\ \/ n.count = 1 /\ n.first = now
           \/ /\ o # None /\ o.sig = sig /\ ~(now - o.last > Gap)
              /\ n.count = o.count + 1 /\ n.first = o.first
    BY SightedCases
  <1>5. n.count \in Nat \ {0}
    BY <1>4, SightingIsSome
  <1>6. CASE n.count = 1 /\ n.first = now
    <2>1. Begin(n, m) = Len(m) /\ Len(m) = Len(l) + 1 /\ n.count <= Len(m)
      BY <1>2, <1>6 DEF Begin
    <2>2. m[Len(m)].row = n.sig /\ m[Len(m)].at = n.first /\ m[Len(m)].at = n.last
      BY <1>1, <1>2, <1>4, <1>6
    <2> QED
      BY <1>2, <1>4, <2>1, <2>2 DEF Stands
  <1>7. CASE o # None /\ o.sig = sig /\ ~(now - o.last > Gap)
             /\ n.count = o.count + 1 /\ n.first = o.first
    <2>1. o.count \in Nat \ {0} /\ o.last \in Int /\ o.count <= Len(l)
      BY <1>7, SightingIsSome, TimesNat DEF Stands
    <2>2. Begin(n, m) = Begin(o, l) /\ Begin(o, l) \in 1 .. Len(l) /\ n.count <= Len(m)
      BY <1>2, <1>7, <2>1 DEF Begin
    <2>3. \A j \in Begin(n, m) .. Len(m) : m[j].row = n.sig
      BY <1>1, <1>2, <1>4, <1>7, <2>2 DEF Stands
    <2>4. now - l[Len(l)].at <= Gap
      BY <1>3, <1>7, <2>1 DEF Stands
    <2>5. ASSUME NEW j \in Begin(n, m) .. Len(m) - 1 PROVE m[j + 1].at - m[j].at <= Gap
      <3>1. CASE j = Len(l)
        BY <1>1, <1>2, <2>2, <2>4, <3>1
      <3>2. CASE j # Len(l)
        <4>1. j \in Begin(o, l) .. Len(l) - 1 /\ j \in 1 .. Len(l) /\ j + 1 \in 1 .. Len(l)
          BY <1>2, <2>2, <3>2
        <4>2. l[j + 1].at - l[j].at <= Gap
          BY <1>7, <4>1 DEF Stands
        <4> QED
          BY <1>2, <4>1, <4>2
      <3> QED
        BY <3>1, <3>2
    <2>6. m[Begin(n, m)].at = n.first /\ m[Len(m)].at = n.last
      BY <1>1, <1>2, <1>4, <1>7, <2>2 DEF Stands
    <2> QED
      BY <1>4, <2>2, <2>3, <2>5, <2>6 DEF Stands
  <1> QED
    BY <1>4, <1>6, <1>7

\* And it is whole again.
LEMMA WholeOn ==
    ASSUME NEW o \in Observation, NEW l \in Logs, NEW sig \in Signatures, NEW now \in Times,
           sig # Healthy, Stands(o, l), Whole(o, l), NEW n, n = Sighted(o, sig, now),
           NEW m, m = Append(l, [at |-> now, row |-> sig])
    PROVE  Whole(n, m)
  <1>1. PICK x \in Answer : x.at = now /\ x.row = sig /\ m = Append(l, x)
    BY DEF Answer, Rows
  <1>2. /\ m \in Logs /\ Len(m) = Len(l) + 1 /\ Len(l) \in Nat
        /\ \A j \in 1 .. Len(l) : m[j] = l[j] /\ l[j] \in Answer
        /\ m[Len(l) + 1] = x
    BY <1>1, LogAppend
  <1>4. /\ n \in Observation /\ n # None /\ n.sig = sig
        /\ \/ /\ o = None \/ o.sig # sig \/ now - o.last > Gap
              /\ n.count = 1
           \/ /\ o # None /\ o.sig = sig
              /\ n.count = o.count + 1
    BY SightedCases
  <1>5. CASE n.count = 1 /\ (o = None \/ o.sig # sig \/ now - o.last > Gap)
    <2>1. Begin(n, m) = Len(l) + 1
      BY <1>2, <1>5 DEF Begin
    <2>2. CASE Len(l) = 0
      BY <1>4, <2>1, <2>2 DEF Whole
    <2>3. CASE Len(l) # 0 /\ o = None
      <3>1. l[Len(l)].row = Healthy /\ Len(l) \in 1 .. Len(l)
        BY <1>2, <2>3 DEF Whole
      <3> QED
        BY <1>2, <1>4, <2>1, <3>1 DEF Whole
    <2>4. CASE Len(l) # 0 /\ o # None
      <3>1. /\ Len(l) \in 1 .. Len(l) /\ o.count \in Nat \ {0}
            /\ Begin(o, l) \in 1 .. Len(l)
        BY <1>2, <2>4, SightingIsSome DEF Begin, Stands
      <3>2. l[Len(l)].row = o.sig /\ l[Len(l)].at = o.last
        BY <1>2, <2>4, <3>1 DEF Stands
      <3>3. m[Len(l)].row # n.sig \/ m[Len(l) + 1].at - m[Len(l)].at > Gap
        BY <1>1, <1>2, <1>4, <1>5, <2>4, <3>1, <3>2
      <3> QED
        BY <1>2, <1>4, <2>1, <3>3 DEF Whole
    <2> QED
      BY <2>2, <2>3, <2>4
  <1>6. CASE o # None /\ o.sig = sig /\ n.count = o.count + 1
    <2>1. o.count \in Nat \ {0} /\ o.count <= Len(l)
      BY <1>6, SightingIsSome DEF Stands
    <2>2. Begin(n, m) = Begin(o, l) /\ Begin(o, l) \in 1 .. Len(l)
      BY <1>2, <1>6, <2>1 DEF Begin
    <2> QED
      BY <1>2, <1>4, <1>6, <2>2 DEF Whole
  <1> QED
    BY <1>4, <1>5, <1>6, Zenon

\* An answer keeps the log ordered.
LEMMA OrderedOn ==
    ASSUME NEW l \in Logs, NEW x \in Answer, Ordered(l), NEW m, m = Append(l, x)
    PROVE  Ordered(m)
  <1>1. /\ m \in Logs /\ Len(m) = Len(l) + 1 /\ Len(l) \in Nat
        /\ \A j \in 1 .. Len(l) : m[j] = l[j] /\ l[j] \in Answer
        /\ m[Len(l) + 1] = x
    BY LogAppend
  <1>2. \A j \in 1 .. Len(m) : m[j].at \in Nat
    <2>1. \A j \in 1 .. Len(m) : m[j] \in Answer
      BY <1>1
    <2> QED
      BY <2>1, AnswerAt
  <1> SUFFICES ASSUME Monotone(m), NEW i \in 1 .. Len(m), NEW j \in 1 .. Len(m), i <= j
               PROVE  m[i].at <= m[j].at
    BY DEF Ordered
  <1>3. \A k \in 1 .. Len(l) : m[k].at <= m[k + 1].at
    BY <1>1 DEF Monotone
  <1>4. Monotone(l)
    <2> SUFFICES ASSUME NEW k \in 1 .. Len(l) - 1 PROVE l[k].at <= l[k + 1].at
      BY DEF Monotone
    <2>1. k \in 1 .. Len(l) /\ k + 1 \in 1 .. Len(l)
      BY <1>1
    <2> QED
      BY <1>1, <1>3, <2>1
  <1>5. \A a, b \in 1 .. Len(l) : a <= b => m[a].at <= m[b].at
    BY <1>1, <1>4 DEF Ordered
  <1>6. CASE j = Len(m) /\ i # j
    <2>1. i \in 1 .. Len(l) /\ Len(l) \in 1 .. Len(l)
      BY <1>1, <1>6
    <2>2. m[i].at <= m[Len(l)].at /\ m[Len(l)].at <= m[Len(l) + 1].at
      BY <1>1, <1>3, <1>5, <2>1
    <2>3. m[i].at \in Nat /\ m[Len(l)].at \in Nat /\ m[Len(l) + 1].at \in Nat
      BY <1>1, <1>2, <2>1
    <2> QED
      BY <1>1, <1>6, <2>2, <2>3
  <1>7. CASE j # Len(m)
    BY <1>1, <1>5, <1>7
  <1> QED
    BY <1>2, <1>6, <1>7

\* A due observation is persistent evidence of the process and session it names.
LEMMA DueIsPersistent ==
    ASSUME NEW o \in Observation, NEW l \in Logs, o # None, Stands(o, l),
           Due(o, l[Len(l)].at)
    PROVE  Persistent(l) /\ l[Len(l)].row = o.sig
  <1> DEFINE b == Begin(o, l)
  <1>1. o.count \in Nat \ {0} /\ o.count <= Len(l) /\ Len(l) \in Nat
    BY SightingIsSome DEF Stands, Logs
  <1>2. b \in 1 .. Len(l) /\ Len(l) - b + 1 = o.count
    BY <1>1 DEF Begin
  <1>3. \A j \in b .. Len(l) : l[j].row = o.sig
    BY DEF Stands
  <1>4. b \in DOMAIN l /\ l[b].row = o.sig /\ l[Len(l)].row = o.sig
    BY <1>1, <1>2, <1>3 DEF Logs
  <1>5. l[b].row # Healthy /\ \A j \in b .. Len(l) : l[j].row = l[b].row
    BY <1>3, <1>4 DEF Stands
  <1>6. \A j \in b .. Len(l) - 1 : l[j + 1].at - l[j].at <= Gap
    BY DEF Stands
  <1>7. Len(l) - b + 1 >= Sightings /\ l[Len(l)].at - l[b].at >= Span
    BY <1>2 DEF Due, Stands
  <1> HIDE DEF b
  <1> QED
    BY <1>4, <1>5, <1>6, <1>7 DEF Persistent

\* And persistent evidence has a due observation, while the clock only advances:
\* what the log shows, the observation has counted.
LEMMA PersistentIsDue ==
    ASSUME Sightings >= 2, NEW o \in Observation, NEW l \in Logs, l # <<>>,
           Stands(o, l), Whole(o, l), Ordered(l), Monotone(l), Persistent(l)
    PROVE  o # None /\ Due(o, l[Len(l)].at)
  <1>1. PICK i \in DOMAIN l :
          /\ l[i].row # Healthy
          /\ \A j \in i .. Len(l) : l[j].row = l[i].row
          /\ \A j \in i .. Len(l) - 1 : l[j + 1].at - l[j].at <= Gap
          /\ Len(l) - i + 1 >= Sightings
          /\ l[Len(l)].at - l[i].at >= Span
    BY DEF Persistent
  <1>2. Len(l) \in Nat /\ i \in 1 .. Len(l) /\ \A j \in 1 .. Len(l) : l[j] \in Answer
    BY DEF Logs
  <1>3. l[Len(l)].row = l[i].row
    BY <1>1, <1>2
  <1>4. o # None
    BY <1>1, <1>3 DEF Whole
  <1>5. o.count \in Nat \ {0} /\ o.count <= Len(l)
    BY <1>4, SightingIsSome DEF Stands
  <1> DEFINE b == Begin(o, l)
  <1>6. b \in 1 .. Len(l) /\ o.count = Len(l) - b + 1
    BY <1>2, <1>5 DEF Begin
  <1>7. l[Len(l)].row = o.sig /\ l[b].at = o.first
    BY <1>2, <1>4, <1>6 DEF Stands
  <1>8. b - 1 = 0 \/ l[b - 1].row # o.sig \/ l[b].at - l[b - 1].at > Gap
    BY <1>4, <1>6 DEF Whole
  <1> HIDE DEF b
  <1>9. b <= i
    <2> SUFFICES ASSUME i < b PROVE FALSE
      BY <1>2, <1>6
    <2>1. b - 1 \in i .. Len(l) /\ b - 1 \in i .. Len(l) - 1 /\ b - 1 # 0 /\ (b - 1) + 1 = b
      BY <1>2, <1>6
    <2>2. l[b - 1].row = o.sig /\ l[b].at - l[b - 1].at <= Gap
      BY <1>1, <1>3, <1>7, <2>1
    <2>3. l[b].at \in Int /\ l[b - 1].at \in Int /\ Gap \in Int
      <3>1. b \in 1 .. Len(l) /\ b - 1 \in 1 .. Len(l)
        BY <1>2, <1>6, <2>1
      <3>2. l[b] \in Answer /\ l[b - 1] \in Answer
        BY <1>2, <3>1
      <3> QED
        BY <3>2, AnswerAt, UiAssumption
    <2> QED
      BY <1>8, <2>1, <2>2, <2>3
  <1>10. l[b].at <= l[i].at
    BY <1>2, <1>6, <1>9 DEF Ordered
  <1>11. l[b].at \in Int /\ l[i].at \in Int /\ l[Len(l)].at \in Int
    <2>1. l[b] \in Answer /\ l[i] \in Answer /\ l[Len(l)] \in Answer
      BY <1>2, <1>6
    <2> QED
      BY <2>1, AnswerAt
  <1>12. Sightings \in Nat /\ Span \in Nat
    BY UiAssumption
  <1>13. o.count >= Sightings /\ o.count > 1
    BY <1>1, <1>2, <1>6, <1>9, <1>12
  <1>14. l[Len(l)].at - o.first >= Span
    BY <1>1, <1>7, <1>10, <1>11, <1>12
  <1> QED
    BY <1>4, <1>13, <1>14 DEF Due

-------------------------------------------------------------------------------
\* Every observation is an Observation, every log a log.
LEMMA Kept ==
    ASSUME TypeOK, NEW s \in Slots
    PROVE  observations[s] \in Observation /\ log[s] \in Logs
  <1>1. observations[s] \in {None} \cup Sighting /\ log[s] \in Logs
    BY DEF TypeOK, Logs, Answer
  <1>2. 1 .. MaxPasses \subseteq Nat \ {0}
    OBVIOUS
  <1> QED
    BY <1>1, <1>2 DEF Observation, Sighting

\* What a look at a slot makes of its observation.
Seen(s, row) == IF row = Healthy THEN None ELSE Sighted(observations[s], row, clock)

\* A look at a slot keeps the observation true to the log.
LEMMA ObserveStands ==
    ASSUME TypeOK, ObservationsStand, NEW s \in Slots, NEW row \in Signatures \cup {Healthy},
           Observe(s, row)
    PROVE  /\ log'[s] \in Logs /\ Len(log'[s]) <= MaxPasses /\ log'[s] # <<>>
           /\ log'[s][Len(log'[s])].at = clock
           /\ observations'[s] = Seen(s, row) /\ observations'[s] \in Observation
           /\ observations'[s] # None => row \in Signatures /\ observations'[s].sig = row
           /\ Stands(observations'[s], log'[s]) /\ Whole(observations'[s], log'[s])
           /\ Ordered(log'[s])
  <1> DEFINE o == observations[s]
             l == log[s]
             x == [at |-> clock, row |-> row]
             n == Seen(s, row)
             m == Append(l, x)
  <1>1. observations'[s] = n /\ log'[s] = m
    BY DEF Observe, TypeOK, Seen
  <1>2. o \in Observation /\ l \in Logs /\ clock \in Times /\ x \in Answer
    BY Kept DEF TypeOK, Answer, Rows
  <1>3. Stands(o, l) /\ Whole(o, l) /\ Ordered(l) /\ Len(l) < MaxPasses
    BY DEF ObservationsStand, Observe
  <1>4. /\ m \in Logs /\ Len(m) = Len(l) + 1 /\ Len(l) \in Nat /\ m # <<>>
        /\ m[Len(l) + 1] = x
    BY <1>2, LogAppend
  <1>5. Len(m) <= MaxPasses /\ m[Len(m)].at = clock
    BY <1>3, <1>4, UiAssumption
  <1>6. Ordered(m)
    BY <1>2, <1>3, OrderedOn
  <1>7. CASE row = Healthy
    <2>1. n = None
      BY <1>7 DEF Seen
    <2>2. m[Len(m)].row = Healthy
      BY <1>4, <1>7
    <2>3. Stands(n, m) /\ Whole(n, m) /\ n \in Observation
      BY <2>1, <2>2 DEF Stands, Whole, Observation
    <2> QED
      BY <1>1, <1>4, <1>5, <1>6, <2>1, <2>3
  <1>8. CASE row # Healthy
    <2>1. n = Sighted(o, row, clock) /\ row \in Signatures
      BY <1>8 DEF Seen
    <2>2. n \in Observation /\ n.sig = row
      BY <1>2, <2>1, SightedCases
    <2>3. Stands(n, m)
      BY <1>2, <1>3, <1>8, <2>1, StandsOn
    <2>4. Whole(n, m)
      BY <1>2, <1>3, <1>8, <2>1, WholeOn
    <2> QED
      BY <1>1, <1>4, <1>5, <1>6, <2>1, <2>2, <2>3, <2>4
  <1> QED
    BY <1>7, <1>8

\* Every step keeps the types.
LEMMA NextTypeOK ==
    TypeOK /\ ObservationsStand /\ CurKnown /\ [Next]_vars => TypeOK'
  <1> SUFFICES ASSUME TypeOK, ObservationsStand, CurKnown, [Next]_vars PROVE TypeOK'
    OBVIOUS
  <1>1. ASSUME NEW s \in Slots, NEW row \in Signatures \cup {Healthy}, Observe(s, row)
        PROVE  TypeOK'
    <2>1. observations'[s] \in {None} \cup Sighting
      <3>1. CASE observations'[s] # None
        <4>1. observations'[s].count <= MaxPasses /\ MaxPasses \in Nat
          <5>1. observations'[s].count <= Len(log'[s]) /\ Len(log'[s]) <= MaxPasses
            BY <1>1, <3>1, ObserveStands DEF Stands
          <5>2. observations'[s].count \in Nat /\ Len(log'[s]) \in Nat /\ MaxPasses \in Nat
            BY <1>1, <3>1, ObserveStands, SightingIsSome, UiAssumption DEF Logs
          <5> QED
            BY <5>1, <5>2
        <4>2. observations'[s] \in [sig : Signatures, first : Times, last : Times, count : Nat \ {0}]
          BY <1>1, <3>1, ObserveStands, SightingIsSome
        <4> QED
          BY <4>1, <4>2 DEF Sighting
      <3> QED
        BY <3>1
    <2>2. observations' = [observations EXCEPT ![s] = Seen(s, row)]
      BY <1>1 DEF Observe, Seen
    <2>3. Seen(s, row) \in {None} \cup Sighting
      BY <1>1, <2>1, ObserveStands
    <2>4. observations' \in [Slots -> {None} \cup Sighting]
      BY <2>2, <2>3 DEF TypeOK
    <2>5. log' \in [Slots -> Logs]
      <3>1. log'[s] \in Logs
        BY <1>1, ObserveStands
      <3> QED
        BY <1>1, <3>1 DEF Observe, TypeOK, Logs, Answer
    <2>6. /\ step' \in {"pass", "reserve", "replace", "fence"}
          /\ cur' \in {NoFence} \cup [slot : Slots, sig : Signatures, now : Times \cup {0}]
      <3>1. CASE UNCHANGED <<step, cur>>
        BY <3>1 DEF TypeOK
      <3>2. CASE observations'[s] # None /\ step' = "reserve"
                 /\ cur' = [slot |-> s, sig |-> row, now |-> 0]
        BY <1>1, <3>2, ObserveStands
      <3> QED
        BY <1>1, <3>1, <3>2, <2>2, ObserveStands DEF Observe, Seen
    <2> QED
      BY <1>1, <2>4, <2>5, <2>6 DEF TypeOK, Observe, Logs, Answer
  <1>2. CASE Reserve
    BY <1>2 DEF TypeOK, Reserve, CurKnown
  <1>3. CASE Replace
    <2>1. cur \in [slot : Slots, sig : Signatures, now : Times \cup {0}] /\ cur.now \in Times
      BY <1>3 DEF Replace, CurKnown
    <2>2. budget' \in [all : Times \cup {0}, of : [Slots -> Times \cup {0}]]
      BY <1>3, <2>1 DEF Replace, TypeOK
    <2>3. granted' \subseteq [slot : Slots, target : Signatures, at : Times]
      BY <1>3, <2>1 DEF Replace, TypeOK
    <2> QED
      BY <1>3, <2>1, <2>2, <2>3 DEF Replace, TypeOK
  <1>4. CASE Fence
    BY <1>4 DEF TypeOK, Fence
  <1>5. CASE Crash
    BY <1>5 DEF TypeOK, Crash
  <1>6. CASE SetClock
    BY <1>6 DEF TypeOK, SetClock
  <1>7. CASE UNCHANGED vars
    BY <1>7 DEF TypeOK, vars
  <1> QED
    BY <1>1, <1>2, <1>3, <1>4, <1>5, <1>6, <1>7 DEF Next

\* Nothing seen stands for no answers.
LEMMA EmptyStands ==
    Stands(None, <<>>) /\ Whole(None, <<>>) /\ Ordered(<<>>) /\ Len(<<>>) <= MaxPasses
  <1>1. Len(<<>>) = 0 /\ MaxPasses \in Nat
    BY UiAssumption
  <1> QED
    BY <1>1 DEF Stands, Whole, Ordered

\* The observations stand for the logs after every step.
LEMMA NextObservationsStand ==
    TypeOK /\ ObservationsStand /\ [Next]_vars => ObservationsStand'
  <1> SUFFICES ASSUME TypeOK, ObservationsStand, [Next]_vars, NEW s \in Slots
               PROVE  /\ Stands(observations'[s], log'[s]) /\ Whole(observations'[s], log'[s])
                      /\ Ordered(log'[s]) /\ Len(log'[s]) <= MaxPasses
    BY DEF ObservationsStand
  <1>1. ASSUME NEW r \in Slots, NEW row \in Signatures \cup {Healthy}, Observe(r, row), r = s
        PROVE  /\ Stands(observations'[s], log'[s]) /\ Whole(observations'[s], log'[s])
               /\ Ordered(log'[s]) /\ Len(log'[s]) <= MaxPasses
    BY <1>1, ObserveStands
  <1>2. CASE observations'[s] = observations[s] /\ log'[s] = log[s]
    BY <1>2 DEF ObservationsStand
  <1>3. CASE Crash
    <2>1. observations'[s] = None /\ log'[s] = <<>>
      BY <1>3 DEF Crash
    <2> QED
      BY <2>1, EmptyStands
  <1>4. ASSUME NEW r \in Slots, NEW row \in Signatures \cup {Healthy}, Observe(r, row), r # s
        PROVE  observations'[s] = observations[s] /\ log'[s] = log[s]
    BY <1>4 DEF Observe, TypeOK
  <1>5. CASE Reserve \/ Replace \/ Fence \/ SetClock \/ UNCHANGED vars
    BY <1>2, <1>5 DEF Reserve, Replace, Fence, SetClock, vars
  <1> QED
    BY <1>1, <1>2, <1>3, <1>4, <1>5 DEF Next

\* The fence under way has a target, and the file's leave when it writes.
LEMMA NextCurKnown ==
    TypeOK /\ ObservationsStand /\ CurKnown /\ [Next]_vars => CurKnown'
  <1> SUFFICES ASSUME TypeOK, ObservationsStand, CurKnown, [Next]_vars PROVE CurKnown'
    OBVIOUS
  <1>1. ASSUME NEW s \in Slots, NEW row \in Signatures \cup {Healthy}, Observe(s, row)
        PROVE  CurKnown'
    <2>1. \/ UNCHANGED <<step, cur>>
          \/ /\ observations'[s] # None /\ step' = "reserve"
             /\ cur' = [slot |-> s, sig |-> row, now |-> 0]
      BY <1>1, ObserveStands DEF Observe, Seen
    <2>2. observations'[s] # None => row \in Signatures
      BY <1>1, ObserveStands
    <2>3. step = "pass"
      BY <1>1 DEF Observe
    <2> QED
      BY <2>1, <2>2, <2>3 DEF CurKnown
  <1>2. CASE Reserve
    <2>1. CASE Refuses(cur.slot, clock)
      BY <1>2, <2>1 DEF Reserve, CurKnown
    <2>2. CASE ~Refuses(cur.slot, clock)
      <3>1. step' = "replace" /\ cur' = [cur EXCEPT !.now = clock] /\ budget' = budget
        BY <1>2, <2>2 DEF Reserve
      <3>2. cur \in [slot : Slots, sig : Signatures, now : Times \cup {0}]
        BY <1>2 DEF Reserve, CurKnown
      <3>3. cur' = [slot |-> cur.slot, sig |-> cur.sig, now |-> clock]
        BY <3>1, <3>2
      <3>4. cur'.slot = cur.slot /\ cur'.now = clock /\ clock \in Times
        BY <3>3 DEF TypeOK
      <3>5. ~Refuses(cur.slot, cur.now)'
        BY <2>2, <3>1, <3>4 DEF Refuses
      <3> QED
        BY <3>1, <3>2, <3>3, <3>4, <3>5 DEF CurKnown
    <2> QED
      BY <2>1, <2>2
  <1>3. CASE Replace
    BY <1>3 DEF Replace, CurKnown
  <1>4. CASE Fence
    BY <1>4 DEF Fence, CurKnown
  <1>5. CASE Crash
    BY <1>5 DEF Crash, CurKnown
  <1>6. CASE SetClock
    BY <1>6 DEF SetClock, CurKnown, Refuses
  <1>7. CASE UNCHANGED vars
    BY <1>7 DEF vars, CurKnown, Refuses
  <1> QED
    BY <1>1, <1>2, <1>3, <1>4, <1>5, <1>6, <1>7 DEF Next

\* The evidence: a fence starts from a due observation, and nothing is looked at
\* until it is over.
LEMMA NextFencedOnEvidence ==
    TypeOK /\ ObservationsStand /\ CurKnown /\ FencedOnEvidence /\ [Next]_vars
    => FencedOnEvidence'
  <1> SUFFICES ASSUME TypeOK, ObservationsStand, CurKnown, FencedOnEvidence, [Next]_vars
               PROVE FencedOnEvidence'
    OBVIOUS
  <1>1. ASSUME NEW s \in Slots, NEW row \in Signatures \cup {Healthy}, Observe(s, row)
        PROVE  FencedOnEvidence'
    <2>1. CASE UNCHANGED step
      BY <1>1, <2>1 DEF Observe, FencedOnEvidence
    <2>2. CASE step' # step
      <3>1. /\ cur' = [slot |-> s, sig |-> row, now |-> 0]
            /\ observations'[s] # None /\ Due(observations'[s], clock)
        BY <1>1, <2>2, ObserveStands DEF Observe, Seen
      <3>2. Persistent(log'[s]) /\ log'[s][Len(log'[s])].row = observations'[s].sig
        BY <1>1, <3>1, ObserveStands, DueIsPersistent
      <3>3. observations'[s].sig = row /\ cur'.slot = s /\ cur'.sig = row
        BY <1>1, <3>1, ObserveStands
      <3> QED
        BY <3>2, <3>3 DEF FencedOnEvidence
    <2> QED
      BY <2>1, <2>2
  <1>2. CASE Reserve
    <2>1. CASE step' = "pass"
      BY <2>1 DEF FencedOnEvidence
    <2>2. CASE step' # "pass"
      <3>1. cur' = [cur EXCEPT !.now = clock] /\ log' = log /\ step # "pass"
        BY <1>2, <2>2 DEF Reserve
      <3>2. cur \in [slot : Slots, sig : Signatures, now : Times \cup {0}]
        BY <3>1 DEF CurKnown
      <3>3. cur'.slot = cur.slot /\ cur'.sig = cur.sig
        BY <3>1, <3>2
      <3> QED
        BY <3>1, <3>3 DEF FencedOnEvidence
    <2> QED
      BY <2>1, <2>2
  <1>3. CASE Replace
    BY <1>3 DEF Replace, FencedOnEvidence
  <1>4. CASE Fence
    BY <1>4 DEF Fence, FencedOnEvidence
  <1>5. CASE Crash
    BY <1>5 DEF Crash, FencedOnEvidence
  <1>6. CASE SetClock
    BY <1>6 DEF SetClock, FencedOnEvidence
  <1>7. CASE UNCHANGED vars
    BY <1>7 DEF vars, FencedOnEvidence
  <1> QED
    BY <1>1, <1>2, <1>3, <1>4, <1>5, <1>6, <1>7 DEF Next

\* What every step but the writing of a grant leaves alone.
LEMMA FileSame == [Next]_vars => UNCHANGED <<budget, granted>> \/ Replace
  BY DEF Next, vars, Observe, Reserve, Fence, Crash, SetClock

\* The file holds readings, or zero for none.
LEMMA BudgetNat == TypeOK => budget.all \in Nat /\ budget.of \in [Slots -> Nat]
  <1>1. Times \cup {0} \subseteq Nat
    BY TimesNat
  <1> QED
    BY <1>1 DEF TypeOK

\* The grant written is one that the Throttle allows: no earlier one is too
\* close, because the file was no earlier than any of them.
LEMMA ReplaceGrants ==
    ASSUME TypeOK, CurKnown, BudgetCovers, Replace
    PROVE  /\ cur.slot \in Slots /\ cur.sig \in Signatures /\ cur.now \in Times
           /\ Abstract!Grant(cur.slot, cur.sig, cur.now)
           /\ budget.all <= cur.now /\ budget.of[cur.slot] <= cur.now
  <1>1. cur.slot \in Slots /\ cur.sig \in Signatures /\ cur.now \in Times
    BY DEF Replace, CurKnown
  <1>2. ~(cur.now - budget.all < Global) /\ ~(cur.now - budget.of[cur.slot] < PerSlot)
    BY DEF Replace, CurKnown, Refuses
  <1>3. /\ cur.now \in Nat /\ budget.all \in Nat /\ budget.of \in [Slots -> Nat]
        /\ Global \in Nat /\ PerSlot \in Nat
    BY <1>1, TimesNat, BudgetNat, UiAssumption
  <1>4. ASSUME NEW g \in granted PROVE Abstract!Far(g, cur.slot, cur.now)
    <2>1. g.at <= budget.all /\ g.at <= budget.of[g.slot] /\ g.at \in Nat /\ g.slot \in Slots
      BY TimesNat DEF BudgetCovers, TypeOK
    <2>2. cur.now - g.at >= Global
      BY <1>2, <1>3, <2>1
    <2>3. g.slot = cur.slot => cur.now - g.at >= PerSlot
      BY <1>1, <1>2, <1>3, <2>1
    <2> QED
      BY <2>2, <2>3 DEF Abstract!Far
  <1>5. budget.all <= cur.now /\ budget.of[cur.slot] <= cur.now
    BY <1>1, <1>2, <1>3
  <1> QED
    BY <1>1, <1>4, <1>5 DEF Abstract!Grant, Replace

\* The file covers the grants after every step.
LEMMA NextBudgetCovers ==
    TypeOK /\ CurKnown /\ BudgetCovers /\ [Next]_vars => BudgetCovers'
  <1> SUFFICES ASSUME TypeOK, CurKnown, BudgetCovers, [Next]_vars PROVE BudgetCovers'
    OBVIOUS
  <1>1. CASE UNCHANGED <<budget, granted>>
    BY <1>1 DEF BudgetCovers
  <1>2. CASE Replace
    <2>1. /\ cur.slot \in Slots /\ cur.now \in Nat
          /\ budget.all <= cur.now /\ budget.of[cur.slot] <= cur.now
          /\ budget.all \in Nat /\ budget.of \in [Slots -> Nat]
      BY <1>2, ReplaceGrants, TimesNat, BudgetNat
    <2>2. /\ budget'.all = cur.now /\ budget'.of[cur.slot] = cur.now
          /\ \A s \in Slots : s # cur.slot => budget'.of[s] = budget.of[s]
      BY <1>2, <2>1 DEF Replace
    <2> SUFFICES ASSUME NEW g \in granted' PROVE g.at <= budget'.all /\ g.at <= budget'.of[g.slot]
      BY DEF BudgetCovers
    <2>3. CASE g \in granted
      <3>1. g.slot \in Slots /\ g.at \in Nat /\ g.at <= budget.all /\ g.at <= budget.of[g.slot]
        BY <2>3, TimesNat DEF TypeOK, BudgetCovers
      <3> QED
        BY <2>1, <2>2, <3>1
    <2>4. CASE g = [slot |-> cur.slot, target |-> cur.sig, at |-> cur.now]
      BY <2>1, <2>2, <2>4
    <2> QED
      BY <1>2, <2>3, <2>4 DEF Replace
  <1> QED
    BY <1>1, <1>2, FileSame

\* The invariant is an invariant.
LEMMA Invariance == Spec => []IInv
  <1>1. Init => IInv
    <2> SUFFICES ASSUME Init PROVE IInv
      OBVIOUS
    <2>1. TypeOK
      <3>1. log \in [Slots -> Seq([at : Times, row : Rows])]
        BY DEF Init
      <3>2. budget \in [all : Times \cup {0}, of : [Slots -> Times \cup {0}]]
        BY DEF Init
      <3>3. observations \in [Slots -> {None} \cup Sighting] /\ clock \in Times
        BY DEF Init
      <3>4. step = "pass" /\ cur = NoFence /\ todo = Slots /\ granted = {}
        BY DEF Init
      <3> QED
        BY <3>1, <3>2, <3>3, <3>4 DEF TypeOK
    <2>2. ObservationsStand
      <3>1. \A s \in Slots : observations[s] = None /\ log[s] = <<>>
        BY DEF Init
      <3> QED
        BY <3>1, EmptyStands DEF ObservationsStand
    <2>3. CurKnown /\ BudgetCovers /\ FencedOnEvidence
      BY DEF Init, CurKnown, BudgetCovers, FencedOnEvidence
    <2> QED
      BY <2>1, <2>2, <2>3 DEF IInv
  <1>2. IInv /\ [Next]_vars => IInv'
    BY NextTypeOK, NextObservationsStand, NextCurKnown, NextBudgetCovers,
       NextFencedOnEvidence DEF IInv
  <1> QED
    BY <1>1, <1>2, PTL DEF Spec

-------------------------------------------------------------------------------
\* The variables of UiRecovery keep their types.
THEOREM TypeCorrect == Spec => []TypeOK
  BY Invariance, PTL DEF IInv

\* A terminal is fenced for its UI only while the last answers about it show a UI
\* error, whichever of them, of the same process and generation, for as long and
\* as often as required (ui_recovery.py:28-37).
THEOREM EvidenceNeeded == Spec => []FencedOnEvidence
  BY Invariance, PTL DEF IInv

\* And when they do, at readings in order, the fence starts with the very answer
\* that completes the evidence. One sighting is never enough, so at least two
\* must be required; the code requires three.
THEOREM EvidenceSuffices == ASSUME Sightings >= 2 PROVE Spec => EvidenceIsActedOn
  <1>1. ASSUME IInv, [Next]_vars, NEW s \in Slots, log'[s] # log[s], log'[s] # <<>>,
               Monotone(log'[s]), Persistent(log'[s])
        PROVE  step' = "reserve" /\ cur'.slot = s
    <2>1. PICK row \in Signatures \cup {Healthy} : Observe(s, row)
      <3>1. ~(Reserve \/ Replace \/ Fence \/ Crash \/ SetClock \/ UNCHANGED vars)
        BY <1>1 DEF Reserve, Replace, Fence, Crash, SetClock, vars
      <3>2. PICK r \in Slots, row \in Signatures \cup {Healthy} : Observe(r, row)
        BY <1>1, <3>1 DEF Next
      <3>3. r = s
        BY <1>1, <3>2 DEF Observe, IInv, TypeOK
      <3> QED
        BY <3>2, <3>3
    <2>2. observations'[s] # None /\ Due(observations'[s], clock) /\ observations'[s] = Seen(s, row)
      BY <1>1, <2>1, ObserveStands, PersistentIsDue DEF IInv
    <2>3. IF Seen(s, row) # None /\ Due(Seen(s, row), clock)
          THEN step' = "reserve" /\ cur' = [slot |-> s, sig |-> row, now |-> 0]
          ELSE UNCHANGED <<step, cur>>
      BY <2>1 DEF Observe, Seen
    <2> QED
      BY <2>2, <2>3
  <1>2. IInv /\ [Next]_vars =>
          [\A s \in Slots :
              /\ log'[s] # log[s] /\ log'[s] # <<>>
              /\ Monotone(log'[s]) /\ Persistent(log'[s])
              => step' = "reserve" /\ cur'.slot = s]_vars
    BY <1>1
  <1> QED
    BY <1>2, Invariance, PTL DEF Spec, EvidenceIsActedOn

\* The budget file implements the Throttle: every step grants at most one
\* recovery, and only when the Throttle does.
THEOREM Refinement == Spec => ImplementsThrottle
  <1>1. Init => Abstract!Init
    BY DEF Init, Abstract!Init
  <1>2. IInv /\ [Next]_vars => [Abstract!Next]_granted
    <2> SUFFICES ASSUME IInv, [Next]_vars PROVE [Abstract!Next]_granted
      OBVIOUS
    <2>1. CASE Replace
      BY <2>1, ReplaceGrants DEF IInv, Abstract!Next
    <2> QED
      BY <2>1, FileSame
  <1> QED
    BY <1>1, <1>2, Invariance, PTL DEF Spec, ImplementsThrottle, Abstract!Spec
-------------------------------------------------------------------------------
\* What the Throttle grants is apart, whichever of two grants came first.
LEMMA ThrottleSpaces == Abstract!Spec => []Abstract!Spaced
  <1>1. Abstract!Init => Abstract!Spaced
    BY DEF Abstract!Init, Abstract!Spaced
  <1>2. Abstract!Spaced /\ [Abstract!Next]_granted => Abstract!Spaced'
    <2> SUFFICES ASSUME Abstract!Spaced, [Abstract!Next]_granted,
                        NEW g \in granted', NEW h \in granted', g # h
                 PROVE  Abstract!Far(g, h.slot, h.at) \/ Abstract!Far(h, g.slot, g.at)
      BY DEF Abstract!Spaced
    <2>1. CASE UNCHANGED granted
      BY <2>1 DEF Abstract!Spaced
    <2>2. ASSUME NEW s \in Slots, NEW w \in Signatures, NEW t \in Times, Abstract!Grant(s, w, t)
          PROVE  Abstract!Far(g, h.slot, h.at) \/ Abstract!Far(h, g.slot, g.at)
      <3> DEFINE new == [slot |-> s, target |-> w, at |-> t]
      <3>1. new.slot = s /\ new.at = t
        OBVIOUS
      <3>2. (g \in granted \/ g = new) /\ (h \in granted \/ h = new)
        BY <2>2 DEF Abstract!Grant
      <3>3. CASE g \in granted /\ h \in granted
        BY <3>3 DEF Abstract!Spaced
      <3>4. CASE g \in granted /\ h = new
        BY <2>2, <3>1, <3>4 DEF Abstract!Grant
      <3>5. CASE h \in granted /\ g = new
        BY <2>2, <3>1, <3>5 DEF Abstract!Grant
      <3> QED
        BY <3>2, <3>3, <3>4, <3>5
    <2> QED
      BY <2>1, <2>2 DEF Abstract!Next
  <1> QED
    BY <1>1, <1>2, PTL DEF Abstract!Spec

\* Fences that the saved budget allowed (ui_recovery.py reserve) keep the global
\* distance and the slot's own, in the readings they were granted under.
THEOREM FencesSpaced == Spec => []Abstract!Spaced
  BY Refinement, ThrottleSpaces DEF ImplementsThrottle

===============================================================================
