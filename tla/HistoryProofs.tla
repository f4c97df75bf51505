---------------------------- MODULE HistoryProofs ----------------------------
(***************************************************************************)
(* Theorems about History, for any finite set of deals, any length of a     *)
(* window and any limits: what a result and the cursors of an import stand  *)
(* for.                                                                     *)
(***************************************************************************)
EXTENDS History, FiniteSetTheorems, TLAPS

Oldest == End - Span       \* where the recent window ends and the backfill begins

\* The recent window is read from its end down to its floor, the backfill below.
PagesOrdered ==
    /\ recent # NoPage => recent.floor = Oldest /\ recent.floor < recent.before
    /\ before # Unset => before <= Oldest

\* A job is planned from a cursor, and stays at it.
JobFits ==
    pc # "idle" =>
        \/ /\ job.kind = "recent" /\ recent # NoPage
           /\ job.end = recent.before /\ job.floor = recent.floor
        \/ job.kind = "backfill" /\ job.end = before /\ before # Unset

\* The batch holds what is owed of its window.
WindowRead ==
    pc \in {"recount", "older", "again", "positions", "last", "result"} =>
        \A d \in owed : job.start <= at[d] /\ at[d] < job.end => d \in job.batch

\* Two empty counts mean that nothing owed is older.
NothingOlder ==
    pc \in {"again", "positions", "last", "result"} /\ job.older =>
        \A d \in owed : job.start < at[d]

\* What lies above a cursor is committed; with a finished scan only the unread
\* rest of the recent window is missing.
ImportCovers ==
    /\ \A d \in owed : Oldest <= at[d] /\ (recent = NoPage \/ recent.before <= at[d])
         => d \in collected
    /\ before # Unset =>
         \A d \in owed : before <= at[d] /\ at[d] < Oldest => d \in collected
    /\ complete =>
         \A d \in owed : d \notin collected =>
            recent # NoPage /\ recent.floor <= at[d] /\ at[d] < recent.before

\* A session that is lost does not come back within the job.
SessionSeen ==
    /\ granted \in {"readonly", "trading"}
    /\ pc # "idle" => /\ job.session \in {granted, "other"}
                      /\ job.seen \subseteq {granted, job.session}

\* What is counted again is still there to be counted.
BatchKnown == pc = "recount" => job.batch \subseteq Raw(known, job.start, job.end)

IInv == /\ TypeOK /\ PagesOrdered /\ JobFits /\ WindowRead /\ NothingOlder
        /\ ImportCovers /\ SessionSeen /\ OneAccount /\ BatchKnown

-----------------------------------------------------------------------------
(***************************************************************************)
(* Whole seconds.                                                          *)
(***************************************************************************)
Whole(t) == t \in Nat /\ t % Second = 0

\* A whole second is a number of seconds.
LEMMA Multiple ==
    ASSUME NEW t, Whole(t)
    PROVE  t \div Second \in Nat /\ (t \div Second) * Second = t
  BY HistoryAssumption DEF Whole

\* A number of seconds is a whole second.
LEMMA OfSeconds ==
    ASSUME NEW n \in Nat
    PROVE  Whole(n * Second)
<1>1. n * Second \in Nat  BY HistoryAssumption
<1>2. (n * Second) % Second = 0  BY HistoryAssumption
<1>3. QED  BY <1>1, <1>2 DEF Whole

\* More seconds take longer by a second at least.
LEMMA MoreSeconds ==
    ASSUME NEW m \in Nat, NEW n \in Nat, m < n
    PROVE  m * Second + Second <= n * Second
  BY HistoryAssumption

\* Whole seconds add up to whole seconds.
LEMMA WholeSum ==
    ASSUME NEW t, NEW u, Whole(t), Whole(u)
    PROVE  Whole(t + u)
<1> DEFINE m == t \div Second
           n == u \div Second
<1>1. m \in Nat /\ m * Second = t  BY Multiple
<1>2. n \in Nat /\ n * Second = u  BY Multiple
<1> HIDE DEF m, n
<1>3. (m + n) * Second = t + u  BY <1>1, <1>2, HistoryAssumption
<1>4. m + n \in Nat  BY <1>1, <1>2
<1>5. QED  BY <1>3, <1>4, OfSeconds

\* So do they when one is taken from another.
LEMMA WholeDifference ==
    ASSUME NEW t, NEW u, Whole(t), Whole(u), u <= t
    PROVE  Whole(t - u)
<1> DEFINE m == t \div Second
           n == u \div Second
<1>1. m \in Nat /\ m * Second = t  BY Multiple
<1>2. n \in Nat /\ n * Second = u  BY Multiple
<1> HIDE DEF m, n
<1>3. n <= m
  <2>1. SUFFICES ASSUME m < n PROVE FALSE  BY <1>1, <1>2
  <2>2. m * Second + Second <= n * Second  BY <1>1, <1>2, <2>1, MoreSeconds
  <2>3. QED  BY <1>1, <1>2, <2>2, HistoryAssumption DEF Whole
<1>4. (m - n) * Second = t - u  BY <1>1, <1>2, HistoryAssumption
<1>5. m - n \in Nat  BY <1>1, <1>2, <1>3
<1>6. QED  BY <1>4, <1>5, OfSeconds

\* mt5_bounds rounds a start down, by less than a second.
LEMMA FloorBelow ==
    ASSUME NEW t \in Nat
    PROVE  Whole(Floor(t)) /\ Floor(t) <= t /\ t < Floor(t) + Second
<1>1. t \div Second \in Nat  BY HistoryAssumption
<1>2. Whole(Floor(t))  BY <1>1, OfSeconds DEF Floor
<1>3. (t \div Second) * Second <= t /\ t < (t \div Second) * Second + Second
  BY HistoryAssumption
<1>4. QED  BY <1>2, <1>3 DEF Floor

\* No whole second lies between a time and its rounding.
LEMMA FloorNearest ==
    ASSUME NEW t, Whole(t), NEW u \in Nat, t <= u
    PROVE  t <= Floor(u)
<1> DEFINE m == t \div Second
           n == u \div Second
<1>1. m \in Nat /\ m * Second = t  BY Multiple
<1>2. n \in Nat  BY HistoryAssumption
<1>3. Floor(u) = n * Second /\ Floor(u) \in Nat /\ u < Floor(u) + Second
  BY FloorBelow DEF Floor, Whole
<1> HIDE DEF m, n
<1>4. SUFFICES ASSUME Floor(u) < t PROVE FALSE  BY <1>3 DEF Whole
<1>5. CASE n < m
  <2>1. n * Second + Second <= m * Second  BY <1>1, <1>2, <1>5, MoreSeconds
  <2>2. QED  BY <1>1, <1>3, <2>1, HistoryAssumption DEF Whole
<1>6. CASE m < n
  <2>1. m * Second + Second <= n * Second  BY <1>1, <1>2, <1>6, MoreSeconds
  <2>2. QED  BY <1>1, <1>3, <1>4, <2>1, HistoryAssumption DEF Whole
<1>7. CASE m = n  BY <1>1, <1>3, <1>4, <1>7 DEF Whole
<1>8. QED  BY <1>1, <1>2, <1>5, <1>6, <1>7

\* A whole second is its own start.
LEMMA FloorOfWhole ==
    ASSUME NEW t, Whole(t)
    PROVE  Floor(t) = t
<1>1. t \in Nat  BY DEF Whole
<1>2. Whole(Floor(t)) /\ Floor(t) <= t  BY <1>1, FloorBelow
<1>3. t <= Floor(t)  BY <1>1, FloorNearest
<1>4. QED  BY <1>1, <1>2, <1>3 DEF Whole

\* mt5_bounds rounds an end up.
LEMMA CeilingAbove ==
    ASSUME NEW t \in Nat
    PROVE  Ceiling(t) \in Nat /\ t <= Ceiling(t)
<1>1. t + Second - 1 \in Nat  BY HistoryAssumption
<1>2. Whole(Ceiling(t)) /\ t + Second - 1 < Ceiling(t) + Second
  BY <1>1, FloorBelow DEF Ceiling
<1>3. QED  BY <1>2, HistoryAssumption DEF Whole

\* The recent window is of whole seconds, and ends after it starts.
LEMMA WindowOfNow ==
    /\ Whole(End) /\ Whole(Oldest) /\ Whole(Span)
    /\ Oldest < End /\ End = Oldest + Span
<1>1. Whole(Now) /\ Whole(Ahead) /\ Whole(Span)  BY HistoryAssumption DEF Whole
<1>2. Whole(End)  BY <1>1, WholeSum DEF End
<1>3. Span <= End  BY HistoryAssumption DEF End
<1>4. Whole(Oldest)  BY <1>1, <1>2, <1>3, WholeDifference DEF Oldest
<1>5. QED  BY <1>1, <1>2, <1>3, <1>4, HistoryAssumption DEF Oldest, Whole

\* The seconds of the model are its whole seconds up to the end.
LEMMA SecondsAreWhole ==
    ASSUME NEW t
    PROVE  t \in Seconds <=> Whole(t) /\ t <= End
<1>1. End \in Nat  BY WindowOfNow DEF Whole
<1>2. QED  BY <1>1 DEF Seconds, Whole

-----------------------------------------------------------------------------
(***************************************************************************)
(* Windows and counts.                                                     *)
(***************************************************************************)
\* A deal's time is a number.
LEMMA TimesAreNat ==
    ASSUME TypeOK, NEW d \in Deals
    PROVE  at[d] \in Nat
<1>1. End \in Nat  BY WindowOfNow DEF Whole
<1>2. at[d] \in 1 .. End - 1  BY DEF TypeOK, Times
<1>3. QED  BY <1>1, <1>2

\* MT5 counts a number of deals.
LEMMA CountIsNat ==
    ASSUME NEW ds, ds \subseteq Deals, NEW s, NEW e
    PROVE  /\ IsFiniteSet(Raw(ds, s, e))
           /\ Cardinality(Raw(ds, s, e)) \in Nat
<1>1. Raw(ds, s, e) \in SUBSET Deals  BY DEF Raw
<1>2. IsFiniteSet(Raw(ds, s, e))  BY <1>1, HistoryAssumption, FS_Subset
<1>3. QED  BY <1>2, FS_CardinalityType

\* MT5's answer for a window holds what the window holds.
LEMMA RawHoldsInside ==
    ASSUME TypeOK, NEW ds, ds \subseteq Deals, NEW s \in Nat, NEW e \in Nat
    PROVE  Inside(ds, s, e) \subseteq Raw(ds, s, e)
<1>1. SUFFICES ASSUME NEW d \in ds, s <= at[d], at[d] < e
               PROVE  Floor(s) <= at[d] /\ at[d] <= Ceiling(e)
  BY DEF Inside, Raw
<1>2. at[d] \in Nat  BY TimesAreNat
<1>3. Whole(Floor(s)) /\ Floor(s) <= s  BY FloorBelow
<1>4. Ceiling(e) \in Nat /\ e <= Ceiling(e)  BY CeilingAbove
<1>5. QED  BY <1>1, <1>2, <1>3, <1>4 DEF Whole

\* An empty count from the epoch to a second leaves no deal up to that second.
LEMMA NoneOlder ==
    ASSUME TypeOK, NEW s, Whole(s), Count(0, Floor(s)) = 0, NEW d \in known
    PROVE  s < at[d]
<1>1. s \in Nat /\ Floor(s) = s  BY FloorOfWhole DEF Whole
<1>2. known \subseteq Deals  BY DEF TypeOK
<1>3. at[d] \in Nat  BY <1>2, TimesAreNat
<1>4. IsFiniteSet(Raw(known, 0, s))  BY <1>2, CountIsNat
<1>5. Raw(known, 0, s) = {}  BY <1>1, <1>4, FS_EmptySet DEF Count
<1>6. Whole(Floor(0)) /\ Floor(0) <= 0  BY FloorBelow
<1>7. Ceiling(s) \in Nat /\ s <= Ceiling(s)  BY <1>1, CeilingAbove
<1>8. ~(Floor(0) <= at[d] /\ at[d] <= Ceiling(s))  BY <1>5 DEF Raw
<1>9. QED  BY <1>1, <1>3, <1>6, <1>7, <1>8 DEF Whole

\* The middle of a window that is longer than a second lies in it.
LEMMA MiddleInside ==
    ASSUME NEW s, NEW e, Whole(s), Whole(e), s < e
    PROVE  /\ Whole(Floor((s + e) \div 2))
           /\ s <= Floor((s + e) \div 2) /\ Floor((s + e) \div 2) < e
<1>1. s \in Nat /\ e \in Nat  BY DEF Whole
<1>2. (s + e) \div 2 \in Nat /\ s <= (s + e) \div 2 /\ (s + e) \div 2 < e
  BY <1>1
<1>3. Whole(Floor((s + e) \div 2)) /\ Floor((s + e) \div 2) <= (s + e) \div 2
  BY <1>2, FloorBelow
<1>4. s <= Floor((s + e) \div 2)  BY <1>2, FloorNearest
<1>5. QED  BY <1>1, <1>2, <1>3, <1>4 DEF Whole

\* Where a job is under way its window is of whole seconds, and not empty.
LEMMA JobWindow ==
    ASSUME TypeOK
    PROVE  /\ Whole(job.start) /\ Whole(job.end) /\ Whole(job.floor)
           /\ job.start <= End /\ job.end <= End /\ job.floor <= End
           /\ pc # "idle" => job.start < job.end
<1>1. job.start \in Seconds /\ job.end \in Seconds /\ job.floor \in Seconds
  BY DEF TypeOK, Jobs
<1>2. QED  BY <1>1, SecondsAreWhole DEF TypeOK

\* No job and no page are of whole seconds, too.
LEMMA Nothing ==
    0 \in Seconds /\ NoJob \in Jobs /\ NoPage \in Pages
<1>1. Whole(0)  BY HistoryAssumption DEF Whole
<1>2. 0 \in Seconds  BY <1>1, WindowOfNow, SecondsAreWhole DEF Whole
<1>3. 0 \in 0 .. Tries  BY HistoryAssumption
<1>4. NoJob \in Jobs  BY <1>2, <1>3 DEF NoJob, Jobs, Sessions
<1>5. NoPage \in Pages  BY <1>2 DEF NoPage, Pages
<1>6. QED  BY <1>2, <1>4, <1>5

-----------------------------------------------------------------------------
(***************************************************************************)
(* The invariant holds at the start.                                       *)
(***************************************************************************)
LEMMA InitIInv == Init => IInv
<1> SUFFICES ASSUME Init PROVE IInv  OBVIOUS
<1>1. /\ End \in Nat /\ Oldest \in Nat /\ Oldest < End
      /\ End \in Seconds /\ Oldest \in Seconds
  BY WindowOfNow, SecondsAreWhole DEF Whole
<1>2. recent = [before |-> End, floor |-> Oldest]  BY DEF Init, NewImport, Oldest
<1>3. recent \in Pages /\ recent # NoPage
      /\ recent.before = End /\ recent.floor = Oldest
  <2>1. recent.before = End /\ recent.floor = Oldest /\ recent \in Pages
    BY <1>1, <1>2 DEF Pages
  <2>2. NoPage.before = 0  BY DEF NoPage
  <2>3. QED  BY <1>1, <2>1, <2>2
<1>4. TypeOK
  <2>1. positions \in Nat  BY HistoryAssumption DEF Init
  <2>2. MaxFailures \in 0 .. MaxFailures  BY HistoryAssumption
  <2>3. QED  BY <1>1, <1>3, <2>1, <2>2, Nothing DEF Init, TypeOK, Unset, Sessions
<1>5. PagesOrdered  BY <1>1, <1>3 DEF Init, PagesOrdered, Unset
<1>6. JobFits /\ WindowRead /\ NothingOlder /\ SessionSeen /\ OneAccount /\ BatchKnown
  BY DEF Init, JobFits, WindowRead, NothingOlder, SessionSeen, OneAccount, BatchKnown
<1>7. ImportCovers
  <2>1. \A d \in owed : at[d] < End
    <3>1. SUFFICES ASSUME NEW d \in owed PROVE at[d] < End  OBVIOUS
    <3>2. d \in Deals /\ at[d] \in 1 .. End - 1  BY DEF Init, Times
    <3>3. QED  BY <1>1, <3>2
  <2>2. \A d \in owed : at[d] \in Nat  BY <1>4, TimesAreNat DEF TypeOK
  <2>3. \A d \in owed : ~(recent = NoPage \/ recent.before <= at[d])
    BY <1>1, <1>3, <2>1, <2>2
  <2>4. before = Unset /\ ~complete  BY DEF Init
  <2>5. QED  BY <2>3, <2>4 DEF ImportCovers
<1>8. QED  BY <1>4, <1>5, <1>6, <1>7 DEF IInv

-----------------------------------------------------------------------------
(***************************************************************************)
(* A job that reads: its window and the cursors stay.                      *)
(***************************************************************************)
\* What the API keeps is covered as before.
LEMMA CursorsKept ==
    ASSUME IInv, UNCHANGED <<account, api>>
    PROVE  PagesOrdered' /\ ImportCovers'
  BY DEF IInv, account, api, PagesOrdered, ImportCovers, NoPage, Unset, Oldest, End

\* A job that stays at its end and its floor still fits the cursors.
LEMMA StillFits ==
    ASSUME IInv, UNCHANGED <<account, api>>, pc # "idle",
           job'.kind = job.kind, job'.end = job.end, job'.floor = job.floor
    PROVE  JobFits'
  BY DEF IInv, account, api, JobFits, NoPage, Unset, End

\* The end of a job, however it ends, leaves nothing behind.
LEMMA Discarded ==
    ASSUME IInv, Discard, UNCHANGED <<account, api, known>>,
           failures' \in 0 .. MaxFailures
    PROVE  IInv'
<1>1. TypeOK'  BY Nothing DEF IInv, TypeOK, Discard, account, api, Times, End, Pages,
                              Seconds, Jobs, Sessions
<1>2. PagesOrdered' /\ ImportCovers'  BY CursorsKept
<1>3. pc' = "idle"  BY DEF Discard
<1>4. /\ JobFits' /\ WindowRead' /\ NothingOlder' /\ OneAccount' /\ BatchKnown'
  BY <1>3 DEF JobFits, WindowRead, NothingOlder, OneAccount, BatchKnown
<1>5. SessionSeen'  BY <1>3 DEF IInv, SessionSeen, account
<1>6. QED  BY <1>1, <1>2, <1>4, <1>5 DEF IInv

\* A planned job: a window of whole seconds that ends at a cursor.
LEMMA Opened ==
    ASSUME IInv, NEW kind \in {"recent", "backfill"},
           NEW start \in Seconds, NEW end \in Seconds, NEW floor \in Seconds,
           start < end, end - start <= Span,
           Open(kind, start, end, floor), UNCHANGED <<account, known, api, failures>>,
           \/ kind = "recent" /\ recent # NoPage /\ end = recent.before
              /\ floor = recent.floor
           \/ kind = "backfill" /\ end = before /\ before # Unset
    PROVE  IInv'
<1>1. /\ job'.kind = kind /\ job'.start = start /\ job'.end = end /\ job'.floor = floor
      /\ job'.session = granted /\ job'.seen = {} /\ pc' \in {"shrink", "first"}
      /\ job' = [kind |-> kind, start |-> start, end |-> end, floor |-> floor,
                 tries |-> Tries, expected |-> 0, batch |-> {}, older |-> FALSE,
                 session |-> granted, seen |-> {}]
  BY DEF Open, NoJob
<1>2. Tries \in 0 .. Tries  BY HistoryAssumption
<1>3. granted \in Sessions  BY DEF IInv, TypeOK
<1>4. job' \in Jobs  BY <1>1, <1>2, <1>3 DEF Jobs
<1>5. TypeOK'
  BY <1>1, <1>4 DEF IInv, TypeOK, account, api, Times, End, Pages, Seconds, Jobs, Sessions
<1>6. PagesOrdered' /\ ImportCovers'  BY CursorsKept
<1>7. JobFits'  BY <1>1 DEF JobFits, api, NoPage, Unset, End
<1>8. WindowRead' /\ NothingOlder' /\ OneAccount' /\ BatchKnown'
  BY <1>1 DEF WindowRead, NothingOlder, OneAccount, BatchKnown
<1>9. SessionSeen'  BY <1>1 DEF IInv, SessionSeen, account
<1>10. QED  BY <1>5, <1>6, <1>7, <1>8, <1>9 DEF IInv

LEMMA PlanRecentStep == IInv /\ PlanRecent => IInv'
<1> SUFFICES ASSUME IInv, PlanRecent PROVE IInv'  OBVIOUS
<1>1. recent.floor \in Seconds /\ recent.before \in Seconds
  BY DEF IInv, TypeOK, Pages
<1>2. recent # NoPage /\ recent.floor = Oldest /\ recent.floor < recent.before
  BY DEF IInv, PagesOrdered, PlanRecent
<1>3. recent.before <= End  BY <1>1, SecondsAreWhole
<1>4. recent.before - recent.floor <= Span
  BY <1>1, <1>2, <1>3, WindowOfNow, SecondsAreWhole DEF Whole
<1>5. Open("recent", recent.floor, recent.before, recent.floor)
  BY DEF PlanRecent
<1>6. QED  BY <1>1, <1>2, <1>4, <1>5, Opened DEF PlanRecent

LEMMA PlanBackfillStep == IInv /\ PlanBackfill => IInv'
<1> SUFFICES ASSUME IInv, PlanBackfill PROVE IInv'  OBVIOUS
<1>1. before \in Seconds /\ before # 0 /\ before # Unset
  BY DEF IInv, TypeOK, PlanBackfill
<1>2. Whole(before) /\ before <= End /\ Whole(Span) /\ Span # 0 /\ Whole(0)
  BY <1>1, SecondsAreWhole, WindowOfNow, Nothing, HistoryAssumption
<1>3. /\ Whole(Earliest(before))
      /\ Earliest(before) < before /\ before - Earliest(before) <= Span
  <2>1. CASE before > Span
    <3>1. Span <= before  BY <1>2, <2>1 DEF Whole
    <3>2. Whole(before - Span)  BY <1>2, <3>1, WholeDifference
    <3>3. QED  BY <1>2, <2>1, <3>2 DEF Earliest, Whole
  <2>2. CASE ~(before > Span)  BY <1>1, <1>2, <2>2 DEF Earliest, Whole
  <2>3. QED  BY <2>1, <2>2
<1>4. Earliest(before) \in Seconds
  BY <1>2, <1>3, SecondsAreWhole, WindowOfNow DEF Whole
<1>5. Open("backfill", Earliest(before), before, 0)  BY DEF PlanBackfill
<1>6. QED  BY <1>1, <1>3, <1>4, <1>5, Nothing, Opened DEF PlanBackfill

\* A dense window keeps its newer half.
LEMMA ShrinkStep == IInv /\ Shrink => IInv'
<1> SUFFICES ASSUME IInv, Shrink PROVE IInv'  OBVIOUS
<1>0. /\ pc = "shrink" /\ UNCHANGED <<account, known, api, failures>>
      /\ job \in Jobs /\ job.start < job.end /\ job.end - job.start <= Span
  BY DEF IInv, TypeOK, Shrink
<1>1. CASE Stay("first")
  <2>1. TypeOK'
    BY <1>0, <1>1 DEF IInv, TypeOK, Stay, account, api, Times, End, Pages, Seconds,
                      Jobs, Sessions
  <2>2. PagesOrdered' /\ ImportCovers'  BY <1>0, CursorsKept
  <2>3. JobFits'  BY <1>0, <1>1, StillFits DEF Stay
  <2>4. WindowRead' /\ NothingOlder' /\ OneAccount' /\ BatchKnown'
    BY <1>1 DEF Stay, WindowRead, NothingOlder, OneAccount, BatchKnown
  <2>5. SessionSeen'  BY <1>0, <1>1 DEF IInv, Stay, SessionSeen, account
  <2>6. QED  BY <2>1, <2>2, <2>3, <2>4, <2>5 DEF IInv
<1>2. CASE job.tries > 0 /\ Halve /\ UNCHANGED pc
  <2>1. Whole(job.start) /\ Whole(job.end) /\ job.end <= End
    BY JobWindow DEF IInv
  <2>2. Whole(Middle) /\ job.start <= Middle /\ Middle < job.end
    BY <1>0, <2>1, MiddleInside DEF Middle
  <2>3. Middle \in Seconds
    BY <2>1, <2>2, SecondsAreWhole, WindowOfNow DEF Whole
  <2>4. job.tries - 1 \in 0 .. Tries
    BY <1>0, <1>2, HistoryAssumption DEF Jobs
  <2>5. job' = [job EXCEPT !.start = Middle, !.tries = job.tries - 1]
    BY <1>2 DEF Halve
  <2>6. /\ job'.kind = job.kind /\ job'.start = Middle /\ job'.end = job.end
        /\ job'.floor = job.floor /\ job'.session = job.session /\ job'.seen = job.seen
    BY <1>0, <2>5 DEF Jobs
  <2>7. job' \in Jobs  BY <1>0, <2>3, <2>4, <2>5 DEF Jobs
  <2>8. job'.end - job'.start <= Span
    BY <1>0, <2>1, <2>2, <2>6, WindowOfNow DEF Whole
  <2>9. TypeOK'
    BY <1>0, <1>2, <2>2, <2>6, <2>7, <2>8
    DEF IInv, TypeOK, account, api, Times, End, Pages, Seconds, Jobs, Sessions
  <2>10. PagesOrdered' /\ ImportCovers'  BY <1>0, CursorsKept
  <2>11. JobFits'  BY <1>0, <2>6, StillFits
  <2>12. WindowRead' /\ NothingOlder' /\ OneAccount' /\ BatchKnown'
    BY <1>0, <1>2 DEF WindowRead, NothingOlder, OneAccount, BatchKnown
  <2>13. SessionSeen'  BY <1>0, <1>2, <2>6 DEF IInv, SessionSeen, account
  <2>14. QED  BY <2>9, <2>10, <2>11, <2>12, <2>13 DEF IInv
<1>3. CASE Discard
  <2>1. failures' \in 0 .. MaxFailures  BY <1>0 DEF IInv, TypeOK
  <2>2. QED  BY <1>0, <1>3, <2>1, Discarded
<1>4. QED  BY <1>1, <1>2, <1>3 DEF Shrink

-----------------------------------------------------------------------------
(***************************************************************************)
(* Reading one window.                                                     *)
(***************************************************************************)
\* The reading steps share this: the window, the session and the cursors stay,
\* and each step has to say what becomes of the batch and of what is older.
LEMMA ReadOn ==
    ASSUME IInv, UNCHANGED <<account, known, api, failures>>,
           pc \notin {"idle", "result"},
           pc' \in {"expect", "final", "recount", "older", "again", "positions", "last",
                    "result"},
           job' \in Jobs,
           job'.kind = job.kind, job'.start = job.start, job'.end = job.end,
           job'.floor = job.floor, job'.session = job.session,
           job'.seen \in {job.seen, Seen}
    PROVE  TypeOK' /\ PagesOrdered' /\ ImportCovers' /\ JobFits' /\ SessionSeen'
<1>1. TypeOK'
  BY DEF IInv, TypeOK, account, api, Times, End, Pages, Seconds, Jobs, Sessions
<1>2. PagesOrdered' /\ ImportCovers'  BY CursorsKept
<1>3. JobFits'  BY StillFits
<1>4. SessionSeen'  BY DEF IInv, SessionSeen, account, Seen
<1>5. QED  BY <1>1, <1>2, <1>3, <1>4

LEMMA FirstReadStep == IInv /\ FirstRead => IInv'
<1> SUFFICES ASSUME IInv, FirstRead PROVE IInv'  OBVIOUS
<1>0. /\ pc = "first" /\ UNCHANGED <<account, known, api, failures>> /\ job \in Jobs
      /\ failures' \in 0 .. MaxFailures
  BY DEF IInv, TypeOK, FirstRead
<1>1. CASE Stay("expect")
  <2>1. TypeOK' /\ PagesOrdered' /\ ImportCovers' /\ JobFits' /\ SessionSeen'
    BY <1>0, <1>1, ReadOn DEF Stay
  <2>2. WindowRead' /\ NothingOlder' /\ OneAccount' /\ BatchKnown'
    BY <1>1 DEF Stay, WindowRead, NothingOlder, OneAccount, BatchKnown
  <2>3. QED  BY <2>1, <2>2 DEF IInv
<1>2. CASE Discard  BY <1>0, <1>2, Discarded
<1>3. QED  BY <1>1, <1>2 DEF FirstRead

LEMMA ExpectStep == IInv /\ Expect => IInv'
<1> SUFFICES ASSUME IInv, Expect PROVE IInv'  OBVIOUS
<1>0. /\ pc = "expect" /\ UNCHANGED <<account, known, api, failures>> /\ job \in Jobs
      /\ failures' \in 0 .. MaxFailures /\ known \subseteq Deals
  BY DEF IInv, TypeOK, Expect
<1>1. CASE /\ pc' = "final"
           /\ job' = [job EXCEPT !.expected = Count(job.start, job.end)]
  <2>1. Count(job.start, job.end) \in Nat  BY <1>0, CountIsNat DEF Count
  <2>2. /\ job' \in Jobs /\ job'.kind = job.kind /\ job'.start = job.start
        /\ job'.end = job.end /\ job'.floor = job.floor /\ job'.session = job.session
        /\ job'.seen = job.seen
    BY <1>0, <1>1, <2>1 DEF Jobs
  <2>3. TypeOK' /\ PagesOrdered' /\ ImportCovers' /\ JobFits' /\ SessionSeen'
    BY <1>0, <1>1, <2>2, ReadOn
  <2>4. WindowRead' /\ NothingOlder' /\ OneAccount' /\ BatchKnown'
    BY <1>1 DEF WindowRead, NothingOlder, OneAccount, BatchKnown
  <2>5. QED  BY <2>3, <2>4 DEF IInv
<1>2. CASE Discard  BY <1>0, <1>2, Discarded
<1>3. QED  BY <1>1, <1>2 DEF Expect

\* The batch is all that the terminal has, and what is owed is among it.
LEMMA FinalReadStep == IInv /\ FinalRead => IInv'
<1> SUFFICES ASSUME IInv, FinalRead PROVE IInv'  OBVIOUS
<1>0. /\ pc = "final" /\ UNCHANGED <<account, known, api, failures>> /\ job \in Jobs
      /\ failures' \in 0 .. MaxFailures /\ known \subseteq Deals /\ owed \subseteq known
      /\ granted \in Sessions
  BY DEF IInv, TypeOK, FinalRead
<1>1. CASE /\ pc' = "recount"
           /\ job' = [job EXCEPT !.batch = Raw(known, job.start, job.end), !.seen = Seen]
  <2>1. Raw(known, job.start, job.end) \subseteq Deals  BY <1>0 DEF Raw
  <2>2. Seen \subseteq Sessions  BY <1>0 DEF Seen, Jobs
  <2>3. /\ job' \in Jobs /\ job'.kind = job.kind /\ job'.start = job.start
        /\ job'.end = job.end /\ job'.floor = job.floor /\ job'.session = job.session
        /\ job'.seen = Seen /\ job'.batch = Raw(known, job.start, job.end)
    BY <1>0, <1>1, <2>1, <2>2 DEF Jobs
  <2>4. TypeOK' /\ PagesOrdered' /\ ImportCovers' /\ JobFits' /\ SessionSeen'
    BY <1>0, <1>1, <2>3, ReadOn
  <2>5. WindowRead'
    <3>1. job.start \in Nat /\ job.end \in Nat  BY JobWindow DEF IInv, Whole
    <3>2. Inside(known, job.start, job.end) \subseteq Raw(known, job.start, job.end)
      BY <1>0, <3>1, RawHoldsInside DEF IInv
    <3>3. at' = at /\ owed' = owed  BY <1>0 DEF account
    <3>4. \A d \in owed : job.start <= at[d] /\ at[d] < job.end
            => d \in Raw(known, job.start, job.end)
      BY <1>0, <3>2 DEF Inside
    <3>5. QED  BY <2>3, <3>3, <3>4 DEF WindowRead
  <2>6. NothingOlder' /\ OneAccount'  BY <1>1 DEF NothingOlder, OneAccount
  <2>7. BatchKnown'  BY <1>0, <2>3 DEF BatchKnown, Raw, Floor, Ceiling, account
  <2>8. QED  BY <2>4, <2>5, <2>6, <2>7 DEF IInv
<1>2. CASE Discard  BY <1>0, <1>2, Discarded
<1>3. QED  BY <1>1, <1>2 DEF FinalRead

\* Cutting the batch to the exact window loses nothing of the window.
LEMMA RecountStep == IInv /\ Recount => IInv'
<1> SUFFICES ASSUME IInv, Recount PROVE IInv'  OBVIOUS
<1>0. /\ pc = "recount" /\ UNCHANGED <<account, known, api, failures>> /\ job \in Jobs
      /\ failures' \in 0 .. MaxFailures
  BY DEF IInv, TypeOK, Recount
<1>1. CASE /\ pc' = "older"
           /\ job' = [job EXCEPT !.batch = Inside(job.batch, job.start, job.end)]
  <2>1. Inside(job.batch, job.start, job.end) \subseteq Deals
    BY <1>0 DEF Inside, Jobs
  <2>2. /\ job' \in Jobs /\ job'.kind = job.kind /\ job'.start = job.start
        /\ job'.end = job.end /\ job'.floor = job.floor /\ job'.session = job.session
        /\ job'.seen = job.seen /\ job'.batch = Inside(job.batch, job.start, job.end)
    BY <1>0, <1>1, <2>1 DEF Jobs
  <2>3. TypeOK' /\ PagesOrdered' /\ ImportCovers' /\ JobFits' /\ SessionSeen'
    BY <1>0, <1>1, <2>2, ReadOn
  <2>4. WindowRead'  BY <1>0, <2>2 DEF IInv, WindowRead, Inside, account
  <2>5. NothingOlder' /\ OneAccount' /\ BatchKnown'
    BY <1>1 DEF NothingOlder, OneAccount, BatchKnown
  <2>6. QED  BY <2>3, <2>4, <2>5 DEF IInv
<1>2. CASE Discard  BY <1>0, <1>2, Discarded
<1>3. QED  BY <1>1, <1>2 DEF Recount

LEMMA OlderStep == IInv /\ Older => IInv'
<1> SUFFICES ASSUME IInv, Older PROVE IInv'  OBVIOUS
<1>0. /\ pc = "older" /\ UNCHANGED <<account, known, api, failures>> /\ job \in Jobs
      /\ pc' = "again" /\ owed \subseteq known
  BY DEF IInv, TypeOK, Older
<1>1. /\ job' \in Jobs /\ job'.kind = job.kind /\ job'.start = job.start
      /\ job'.end = job.end /\ job'.floor = job.floor /\ job'.session = job.session
      /\ job'.seen = job.seen /\ job'.batch = job.batch
      /\ job'.older = (Count(0, Floor(job.start)) = 0)
  BY <1>0 DEF Jobs, Older
<1>2. TypeOK' /\ PagesOrdered' /\ ImportCovers' /\ JobFits' /\ SessionSeen'
  BY <1>0, <1>1, ReadOn
<1>3. WindowRead'  BY <1>0, <1>1 DEF IInv, WindowRead, account
<1>4. NothingOlder'
  <2>1. Whole(job.start)  BY JobWindow DEF IInv
  <2>2. job'.older => \A d \in owed : job.start < at[d]
    BY <1>0, <1>1, <2>1, NoneOlder DEF IInv
  <2>3. QED  BY <1>0, <1>1, <2>2 DEF NothingOlder, account
<1>5. OneAccount' /\ BatchKnown'  BY <1>0 DEF OneAccount, BatchKnown
<1>6. QED  BY <1>2, <1>3, <1>4, <1>5 DEF IInv

LEMMA OlderAgainStep == IInv /\ OlderAgain => IInv'
<1> SUFFICES ASSUME IInv, OlderAgain PROVE IInv'  OBVIOUS
<1>0. /\ pc = "again" /\ UNCHANGED <<account, known, api, failures>> /\ job \in Jobs
      /\ failures' \in 0 .. MaxFailures
  BY DEF IInv, TypeOK, OlderAgain
<1>1. CASE /\ pc' = "positions"
           /\ job' = [job EXCEPT !.older = job.older /\ Count(0, Floor(job.start)) = 0]
  <2>1. job.older \in BOOLEAN  BY <1>0 DEF Jobs
  <2>2. /\ job' \in Jobs /\ job'.kind = job.kind /\ job'.start = job.start
        /\ job'.end = job.end /\ job'.floor = job.floor /\ job'.session = job.session
        /\ job'.seen = job.seen /\ job'.batch = job.batch
        /\ job'.older => job.older
    BY <1>0, <1>1, <2>1 DEF Jobs
  <2>3. TypeOK' /\ PagesOrdered' /\ ImportCovers' /\ JobFits' /\ SessionSeen'
    BY <1>0, <1>1, <2>2, ReadOn
  <2>4. WindowRead' /\ NothingOlder'
    BY <1>0, <2>2 DEF IInv, WindowRead, NothingOlder, account
  <2>5. OneAccount' /\ BatchKnown'  BY <1>1 DEF OneAccount, BatchKnown
  <2>6. QED  BY <2>3, <2>4, <2>5 DEF IInv
<1>2. CASE Discard  BY <1>0, <1>2, Discarded
<1>3. QED  BY <1>1, <1>2 DEF OlderAgain

LEMMA ReadPositionsStep == IInv /\ ReadPositions => IInv'
<1> SUFFICES ASSUME IInv, ReadPositions PROVE IInv'  OBVIOUS
<1>0. /\ pc = "positions" /\ UNCHANGED <<account, known, api, failures>> /\ job \in Jobs
      /\ pc' = "last"
  BY DEF IInv, TypeOK, ReadPositions
<1>1. Seen \subseteq Sessions  BY <1>0 DEF Seen, Jobs
<1>2. /\ job' \in Jobs /\ job'.kind = job.kind /\ job'.start = job.start
      /\ job'.end = job.end /\ job'.floor = job.floor /\ job'.session = job.session
      /\ job'.seen = Seen /\ job'.batch = job.batch /\ job'.older = job.older
  BY <1>0, <1>1 DEF Jobs, ReadPositions
<1>3. TypeOK' /\ PagesOrdered' /\ ImportCovers' /\ JobFits' /\ SessionSeen'
  BY <1>0, <1>2, ReadOn
<1>4. WindowRead' /\ NothingOlder'
  BY <1>0, <1>2 DEF IInv, WindowRead, NothingOlder, account
<1>5. OneAccount' /\ BatchKnown'  BY <1>0 DEF OneAccount, BatchKnown
<1>6. QED  BY <1>3, <1>4, <1>5 DEF IInv

\* A session seen by the last identity is the only one the job ever had.
LEMMA FinishStep == IInv /\ Finish => IInv'
<1> SUFFICES ASSUME IInv, Finish PROVE IInv'  OBVIOUS
<1>0. /\ pc = "last" /\ UNCHANGED <<account, known, api, failures>> /\ job \in Jobs
      /\ failures' \in 0 .. MaxFailures
  BY DEF IInv, TypeOK, Finish
<1>1. CASE Identity /\ pc' = "result" /\ job' = [job EXCEPT !.seen = Seen]
  <2>1. Seen \subseteq Sessions  BY <1>0 DEF Seen, Jobs
  <2>2. /\ job' \in Jobs /\ job'.kind = job.kind /\ job'.start = job.start
        /\ job'.end = job.end /\ job'.floor = job.floor /\ job'.session = job.session
        /\ job'.seen = Seen /\ job'.batch = job.batch /\ job'.older = job.older
    BY <1>0, <1>1, <2>1 DEF Jobs
  <2>3. TypeOK' /\ PagesOrdered' /\ ImportCovers' /\ JobFits' /\ SessionSeen'
    BY <1>0, <1>1, <2>2, ReadOn
  <2>4. WindowRead' /\ NothingOlder'
    BY <1>0, <2>2 DEF IInv, WindowRead, NothingOlder, account
  <2>5. OneAccount'
    <3>1. job.session = granted /\ (granted = "readonly" \/ consented)
      BY <1>1 DEF Identity, Admitted
    <3>2. Seen = {granted}  BY <1>0, <3>1 DEF IInv, SessionSeen, Seen
    <3>3. QED  BY <1>0, <2>2, <3>1, <3>2 DEF OneAccount, account
  <2>6. BatchKnown'  BY <1>1 DEF BatchKnown
  <2>7. QED  BY <2>3, <2>4, <2>5, <2>6 DEF IInv
<1>2. CASE Discard  BY <1>0, <1>2, Discarded
<1>3. QED  BY <1>1, <1>2 DEF Finish

-----------------------------------------------------------------------------
(***************************************************************************)
(* The commit moves the cursor to the start of the window it has read.     *)
(***************************************************************************)
\* The next page of the recent window: its unread part, or none.
LEMMA NextPageOrNone ==
    ASSUME TypeOK
    PROVE  /\ NextPage \in Pages
           /\ job.start > job.floor => NextPage.before = job.start
                                       /\ NextPage.floor = job.floor /\ NextPage # NoPage
           /\ ~(job.start > job.floor) => NextPage = NoPage
<1>1. /\ job.start \in Seconds /\ job.floor \in Seconds
      /\ job.start \in Nat /\ job.floor \in Nat
  BY JobWindow DEF TypeOK, Jobs, Whole
<1>2. CASE job.start > job.floor
  <2>1. NextPage = [before |-> job.start, floor |-> job.floor]
    BY <1>2 DEF NextPage
  <2>2. NextPage.before # 0 /\ NoPage.before = 0  BY <1>1, <1>2, <2>1 DEF NoPage
  <2>3. QED  BY <1>1, <1>2, <2>1, <2>2 DEF Pages
<1>3. CASE ~(job.start > job.floor)  BY <1>3, Nothing DEF NextPage
<1>4. QED  BY <1>2, <1>3

LEMMA CommitStep == IInv /\ Commit => IInv'
<1> SUFFICES ASSUME IInv, Commit PROVE IInv'  OBVIOUS
<1>0. /\ pc = "result" /\ UNCHANGED <<account, known, failures>> /\ job \in Jobs
      /\ pc' = "idle" /\ job' = NoJob /\ at' = at /\ owed' = owed
      /\ collected' = collected \cup job.batch /\ complete' = (complete \/ job.older)
      /\ recent \in Pages /\ before \in Seconds /\ owed \subseteq Deals
      /\ complete \in BOOLEAN /\ job.older \in BOOLEAN
  BY DEF IInv, TypeOK, Commit, Discard, account, Jobs
<1>1. /\ job.start \in Nat /\ job.end \in Nat /\ job.floor \in Nat
      /\ job.start < job.end /\ Oldest \in Nat /\ End \in Nat /\ Oldest < End
      /\ job.start <= End /\ before \in Nat
  BY <1>0, JobWindow, WindowOfNow, SecondsAreWhole DEF IInv, Whole
<1>2. \A d \in owed : at[d] \in Nat  BY <1>0, TimesAreNat DEF IInv
<1>3. \A d \in owed : job.start <= at[d] /\ at[d] < job.end => d \in collected'
  BY <1>0 DEF IInv, WindowRead
<1>4. job.older => \A d \in owed : job.start < at[d]
  BY <1>0 DEF IInv, NothingOlder
<1>5. /\ JobFits' /\ WindowRead' /\ NothingOlder' /\ OneAccount' /\ BatchKnown'
  BY <1>0 DEF JobFits, WindowRead, NothingOlder, OneAccount, BatchKnown
<1>6. SessionSeen'  BY <1>0 DEF IInv, SessionSeen, account
<1>7. ASSUME recent' \in Pages, before' \in Seconds PROVE TypeOK'
  <2>1. collected' \subseteq Deals  BY <1>0 DEF IInv, TypeOK, Jobs
  <2>2. QED
    BY <1>0, <1>7, <2>1, Nothing
    DEF IInv, TypeOK, account, Times, End, Pages, Seconds, Jobs, Sessions
<1>8. CASE job.kind = "recent"
  <2>1. /\ recent' = NextPage /\ before' = IF before = Unset THEN job.floor ELSE before
        /\ recent # NoPage /\ job.end = recent.before /\ job.floor = recent.floor
    BY <1>0, <1>8 DEF IInv, JobFits, Commit
  <2>2. job.floor = Oldest /\ recent.floor = Oldest  BY <2>1 DEF IInv, PagesOrdered
  <2>3. /\ NextPage \in Pages
        /\ job.start > Oldest => recent'.before = job.start /\ recent'.floor = Oldest
                                 /\ recent' # NoPage
        /\ ~(job.start > Oldest) => recent' = NoPage
    BY <2>1, <2>2, NextPageOrNone DEF IInv
  <2>4. before' = Oldest \/ (before' = before /\ before # Unset)
    BY <2>1, <2>2
  <2>5. TypeOK'
    <3>1. Oldest \in Seconds  BY WindowOfNow, SecondsAreWhole DEF Whole
    <3>2. QED  BY <1>0, <1>7, <2>1, <2>3, <2>4, <3>1
  <2>6. PagesOrdered'
    <3>1. recent' # NoPage => recent'.floor = Oldest /\ recent'.floor < recent'.before
      BY <1>1, <2>3
    <3>2. before' <= Oldest  BY <1>1, <2>4 DEF IInv, PagesOrdered
    <3>3. QED  BY <3>1, <3>2 DEF PagesOrdered, Oldest, End, NoPage, Unset
  <2>7. \A d \in owed : Oldest <= at[d] /\ job.start <= at[d] => d \in collected'
    <3>1. SUFFICES ASSUME NEW d \in owed, Oldest <= at[d], job.start <= at[d]
                   PROVE d \in collected'
      OBVIOUS
    <3>2. CASE at[d] < job.end  BY <1>3, <3>1, <3>2
    <3>3. CASE ~(at[d] < job.end)
      <4>1. recent.before <= at[d]  BY <1>1, <1>2, <2>1, <3>3
      <4>2. d \in collected  BY <3>1, <4>1 DEF IInv, ImportCovers
      <4>3. QED  BY <1>0, <4>2
    <3>4. QED  BY <3>2, <3>3
  <2>8. ImportCovers'
    <3>1. \A d \in owed : Oldest <= at[d] /\ (recent' = NoPage \/ recent'.before <= at[d])
            => d \in collected'
      BY <1>1, <1>2, <2>3, <2>7
    <3>2. \A d \in owed : before' <= at[d] /\ at[d] < Oldest => d \in collected'
      <4>1. CASE before' = Oldest  BY <1>1, <1>2, <4>1
      <4>2. CASE before' = before /\ before # Unset
        BY <1>0, <4>2 DEF IInv, ImportCovers
      <4>3. QED  BY <2>4, <4>1, <4>2
    <3>3. ASSUME complete', NEW d \in owed, d \notin collected'
          PROVE  recent' # NoPage /\ recent'.floor <= at[d] /\ at[d] < recent'.before
      <4>1. at[d] \in Nat /\ d \notin collected  BY <1>0, <1>2, <3>3
      <4>2. Oldest <= at[d]
        <5>1. CASE complete
          BY <2>2, <4>1, <5>1 DEF IInv, ImportCovers
        <5>2. CASE job.older
          <6>1. job.start < at[d]  BY <1>4, <5>2
          <6>2. ~(at[d] < job.end)  BY <1>1, <1>3, <3>3, <4>1, <6>1
          <6>3. Oldest < job.end  BY <2>1, <2>2 DEF IInv, PagesOrdered
          <6>4. QED  BY <1>1, <4>1, <6>2, <6>3
        <5>3. QED  BY <1>0, <3>3, <5>1, <5>2
      <4>3. at[d] < job.start  BY <1>1, <2>7, <3>3, <4>1, <4>2
      <4>4. job.start > Oldest  BY <1>1, <4>1, <4>2, <4>3
      <4>5. QED  BY <2>3, <4>2, <4>3, <4>4
    <3>4. QED  BY <1>0, <3>1, <3>2, <3>3 DEF ImportCovers, Oldest, End, NoPage, Unset
  <2>9. QED  BY <1>5, <1>6, <2>5, <2>6, <2>8 DEF IInv
<1>9. CASE job.kind # "recent"
  <2>1. /\ recent' = recent /\ before' = job.start
        /\ before # Unset /\ job.end = before
    BY <1>0, <1>9 DEF IInv, JobFits, Commit
  <2>2. before <= Oldest  BY <2>1 DEF IInv, PagesOrdered
  <2>3. TypeOK'
    <3>1. job.start \in Seconds  BY <1>0 DEF Jobs
    <3>2. QED  BY <1>0, <1>7, <2>1, <3>1
  <2>4. PagesOrdered'
    <3>1. before' <= Oldest  BY <1>1, <2>1, <2>2
    <3>2. recent # NoPage => recent.floor = Oldest /\ recent.floor < recent.before
      BY DEF IInv, PagesOrdered
    <3>3. QED  BY <2>1, <3>1, <3>2 DEF PagesOrdered, Oldest, End, NoPage, Unset
  <2>5. \A d \in owed : Oldest <= at[d] /\ (recent = NoPage \/ recent.before <= at[d])
          => d \in collected
    BY DEF IInv, ImportCovers
  <2>6. \A d \in owed : job.start <= at[d] /\ at[d] < Oldest => d \in collected'
    <3>1. SUFFICES ASSUME NEW d \in owed, job.start <= at[d], at[d] < Oldest
                   PROVE d \in collected'
      OBVIOUS
    <3>2. CASE at[d] < job.end  BY <1>3, <3>1, <3>2
    <3>3. CASE ~(at[d] < job.end)
      <4>1. before <= at[d]  BY <1>1, <1>2, <2>1, <3>3
      <4>2. d \in collected  BY <2>1, <3>1, <4>1 DEF IInv, ImportCovers
      <4>3. QED  BY <1>0, <4>2
    <3>4. QED  BY <3>2, <3>3
  <2>7. ASSUME complete', NEW d \in owed, d \notin collected'
        PROVE  recent # NoPage /\ recent.floor <= at[d] /\ at[d] < recent.before
    <3>1. at[d] \in Nat /\ d \notin collected  BY <1>0, <1>2, <2>7
    <3>2. CASE complete  BY <3>1, <3>2 DEF IInv, ImportCovers
    <3>3. CASE job.older
      <4>1. job.start < at[d]  BY <1>4, <3>3
      <4>2. Oldest <= at[d]  BY <1>1, <2>6, <2>7, <3>1, <4>1
      <4>3. recent # NoPage /\ ~(recent.before <= at[d])  BY <2>5, <3>1, <4>2
      <4>4. recent.floor = Oldest  BY <4>3 DEF IInv, PagesOrdered
      <4>5. recent.before \in Nat
        BY <1>0, SecondsAreWhole DEF Pages, Whole
      <4>6. QED  BY <3>1, <4>2, <4>3, <4>4, <4>5
    <3>4. QED  BY <1>0, <2>7, <3>2, <3>3
  <2>8. ImportCovers'
    <3>1. \A d \in owed : Oldest <= at[d] /\ (recent = NoPage \/ recent.before <= at[d])
            => d \in collected'
      BY <1>0, <2>5
    <3>2. QED
      BY <1>0, <2>1, <2>6, <2>7, <3>1 DEF ImportCovers, Oldest, End, NoPage, Unset
  <2>9. QED  BY <1>5, <1>6, <2>3, <2>4, <2>8 DEF IInv
<1>10. QED  BY <1>8, <1>9

-----------------------------------------------------------------------------
(***************************************************************************)
(* What happens to a job from outside.                                     *)
(***************************************************************************)
LEMMA FailStep == IInv /\ Fail => IInv'
<1> SUFFICES ASSUME IInv, Fail PROVE IInv'  OBVIOUS
<1>1. failures - 1 \in 0 .. MaxFailures
  BY HistoryAssumption DEF IInv, TypeOK, Fail
<1>2. QED  BY <1>1, Discarded DEF Fail

\* The session that is lost is neither of the two the terminal is logged in to.
LEMMA SessionChangesStep == IInv /\ SessionChanges => IInv'
<1> SUFFICES ASSUME IInv, SessionChanges PROVE IInv'  OBVIOUS
<1>0. /\ pc \notin {"idle", "result"} /\ job.session = granted /\ pc' = pc
      /\ UNCHANGED <<account, known, api>> /\ job \in Jobs
      /\ job' = [job EXCEPT !.session = "other"]
  BY DEF IInv, TypeOK, SessionChanges
<1>1. failures' \in 0 .. MaxFailures
  BY HistoryAssumption DEF IInv, TypeOK, SessionChanges
<1>2. /\ job' \in Jobs /\ job'.kind = job.kind /\ job'.start = job.start
      /\ job'.end = job.end /\ job'.floor = job.floor /\ job'.session = "other"
      /\ job'.seen = job.seen /\ job'.batch = job.batch /\ job'.older = job.older
  BY <1>0 DEF Jobs, Sessions
<1>3. TypeOK'
  BY <1>0, <1>1, <1>2 DEF IInv, TypeOK, account, api, Times, End, Pages, Seconds, Jobs,
                          Sessions
<1>4. PagesOrdered' /\ ImportCovers'  BY <1>0, CursorsKept
<1>5. JobFits'  BY <1>0, <1>2, StillFits
<1>6. WindowRead' /\ NothingOlder'
  BY <1>0, <1>2 DEF IInv, WindowRead, NothingOlder, account
<1>7. SessionSeen'  BY <1>0, <1>2 DEF IInv, SessionSeen, account
<1>8. OneAccount'  BY <1>0 DEF OneAccount
<1>9. BatchKnown'
  BY <1>0, <1>2 DEF IInv, BatchKnown, Raw, Floor, Ceiling, account
<1>10. QED  BY <1>3, <1>4, <1>5, <1>6, <1>7, <1>8, <1>9 DEF IInv

\* A deal that arrives takes nothing from what was counted.
LEMMA ArrivesStep == \A d \in Deals : IInv /\ Arrives(d) => IInv'
<1> SUFFICES ASSUME NEW d \in Deals, IInv, Arrives(d) PROVE IInv'  OBVIOUS
<1>0. /\ known' = known \cup {d} /\ UNCHANGED <<account, api, pc, job, failures>>
  BY DEF Arrives
<1>1. TypeOK'
  BY <1>0 DEF IInv, TypeOK, account, api, Times, End, Pages, Seconds, Jobs, Sessions
<1>2. PagesOrdered' /\ ImportCovers'  BY <1>0, CursorsKept
<1>3. JobFits' /\ WindowRead' /\ NothingOlder' /\ SessionSeen' /\ OneAccount'
  BY <1>0 DEF IInv, JobFits, WindowRead, NothingOlder, SessionSeen, OneAccount, account,
              api, NoPage, Unset, End
<1>4. BatchKnown'
  BY <1>0 DEF IInv, BatchKnown, Raw, Floor, Ceiling, account
<1>5. QED  BY <1>1, <1>2, <1>3, <1>4 DEF IInv

LEMMA NextIInv == IInv /\ [Next]_vars => IInv'
<1>1. ASSUME IInv, UNCHANGED vars PROVE IInv'
  <2>1. UNCHANGED <<account, api, known, pc, job, failures>>
    BY <1>1 DEF vars, account, api
  <2>2. PagesOrdered' /\ ImportCovers'  BY <1>1, <2>1, CursorsKept
  <2>3. TypeOK'
    BY <1>1, <2>1 DEF IInv, TypeOK, account, api, Times, End, Pages, Seconds, Jobs,
                      Sessions
  <2>4. JobFits' /\ WindowRead' /\ NothingOlder' /\ SessionSeen' /\ OneAccount'
    BY <1>1, <2>1 DEF IInv, JobFits, WindowRead, NothingOlder, SessionSeen, OneAccount,
                      account, api, NoPage, Unset, End
  <2>5. BatchKnown'
    BY <1>1, <2>1 DEF IInv, BatchKnown, Raw, Floor, Ceiling, account
  <2>6. QED  BY <2>2, <2>3, <2>4, <2>5 DEF IInv
<1>2. QED
  BY <1>1, PlanRecentStep, PlanBackfillStep, ShrinkStep, FirstReadStep, ExpectStep,
     FinalReadStep, RecountStep, OlderStep, OlderAgainStep, ReadPositionsStep, FinishStep,
     CommitStep, FailStep, SessionChangesStep, ArrivesStep
  DEF Next, Collect

\* The invariant of the import.
LEMMA Invariance == Spec => []IInv
  BY InitIInv, NextIInv, PTL DEF Spec

-----------------------------------------------------------------------------
(***************************************************************************)
(* Theorems.                                                               *)
(***************************************************************************)
\* Type correctness: windows and cursors are whole seconds, and no window under
\* way is empty or longer than HistoryWindow allows (contracts.py:51).
THEOREM TypeCorrect == Spec => []TypeOK
<1>1. IInv => TypeOK  BY DEF IInv
<1>2. QED  BY <1>1, Invariance, PTL

\* With the scan complete and the recent window read to its floor, everything
\* the terminal had when the import began is committed (gateway.py:216).
THEOREM ImportIsWhole == Spec => []NothingSkipped
<1>1. IInv => NothingSkipped  BY DEF IInv, ImportCovers, NothingSkipped
<1>2. QED  BY <1>1, Invariance, PTL

\* A result is of the one session its job logged in to, and a trading password
\* gets into one only by consent (gateway.py:139).
THEOREM ResultOfOneAccount == Spec => []OneAccount
<1>1. IInv => OneAccount  BY DEF IInv
<1>2. QED  BY <1>1, Invariance, PTL

\* A batch that passes the counts is what the terminal has of the window at that
\* moment: a subset with as many deals is the whole (gateway.py:226).
THEOREM BatchIsWhole == Spec => BatchIsSnapshot
<1>1. ASSUME IInv, [Next]_vars
      PROVE  [pc = "recount" /\ pc' = "older" /\ job.session = granted =>
                job'.batch = Inside(known, job.start, job.end)]_vars
  <2>1. SUFFICES ASSUME pc = "recount", pc' = "older", Next
                 PROVE  job'.batch = Inside(known, job.start, job.end)
    BY <1>1 DEF vars
  <2>2. Recount
    BY <2>1 DEF Next, Collect, PlanRecent, PlanBackfill, Shrink, FirstRead, Expect,
                FinalRead, Older, OlderAgain, ReadPositions, Finish, Commit, Fail,
                SessionChanges, Arrives, Discard
  <2>3. /\ Cardinality(job.batch) = Cardinality(Raw(known, job.start, job.end))
        /\ job' = [job EXCEPT !.batch = Inside(job.batch, job.start, job.end)]
    BY <2>1, <2>2 DEF Recount, Count, Discard
  <2>4. job \in Jobs /\ known \subseteq Deals /\ job.start \in Nat /\ job.end \in Nat
    BY <1>1, JobWindow DEF IInv, TypeOK, Whole
  <2>5. job'.batch = Inside(job.batch, job.start, job.end)
    BY <2>3, <2>4 DEF Jobs
  <2>6. job.batch = Raw(known, job.start, job.end)
    <3>1. IsFiniteSet(Raw(known, job.start, job.end))  BY <2>4, CountIsNat
    <3>2. job.batch \in SUBSET Raw(known, job.start, job.end)
      BY <1>1, <2>1 DEF IInv, BatchKnown
    <3>3. QED  BY <2>3, <3>1, <3>2, FS_Subset
  <2>7. Inside(known, job.start, job.end) \subseteq Raw(known, job.start, job.end)
    BY <1>1, <2>4, RawHoldsInside DEF IInv
  <2>8. Inside(Raw(known, job.start, job.end), job.start, job.end)
          = Inside(known, job.start, job.end)
    BY <2>7 DEF Inside, Raw
  <2>9. QED  BY <2>5, <2>6, <2>8
<1>2. QED  BY <1>1, Invariance, PTL DEF Spec, BatchIsSnapshot
=============================================================================
