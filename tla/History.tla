-------------------------------- MODULE History --------------------------------
(***************************************************************************)
(* The first import of an account's deals: the windows collect              *)
(* (app/collector/gateway.py) plans with history.py and contracts.py, the   *)
(* counted double read that makes a batch of one window, and the paging     *)
(* from the newest window to the oldest, whose cursors the API keeps and    *)
(* hands to the next job.                                                   *)
(*                                                                          *)
(* The terminal goes on downloading while it is read: every count and every *)
(* read is a step, and deals may arrive between any two.  A deal is its     *)
(* time in milliseconds; MT5 asks for whole seconds, both ends included.    *)
(*                                                                          *)
(* Nor does the terminal stay the same: somebody may log it in elsewhere,   *)
(* or the broker may change what the password allows.  identity() is called *)
(* between the reads, never with them.                                      *)
(***************************************************************************)
EXTENDS Integers, FiniteSets

CONSTANTS
    Deals,
    Second,             \* milliseconds of a second
    Span, Ahead,        \* longest window, and how much of the first lies ahead of now
    Now,                \* time of the first import, a whole second
    Dense, Limit,       \* 4000 and 5000 records
    Tries,              \* 32 halvings
    MaxFailures         \* bound: jobs that fail otherwise, or lose their session

ASSUME HistoryAssumption ==
    /\ Second \in Nat \ {0} /\ Tries \in Nat \ {0} /\ MaxFailures \in Nat
    /\ Dense \in Nat \ {0} /\ Limit \in Nat /\ Dense <= Limit
    /\ Now \in Nat /\ Span \in Nat \ {0} /\ Ahead \in Nat \ {0}
    /\ Now % Second = 0 /\ Span % Second = 0 /\ Ahead % Second = 0
    /\ Ahead < Span /\ Span - Ahead <= Now
    /\ IsFiniteSet(Deals)

VARIABLES
    at, positions,      \* each deal's time; number of open positions
    adaptive,           \* the API pages the recent window too
    granted, consented, \* what the password allows, allowTradingPassword
    known,              \* deals the terminal has downloaded
    owed,               \* ghost: what it had when the import began
    recent,             \* API: next page of the recent window
    before, complete,   \* API: backfill cursor, scan finished
    collected,          \* API: committed deals
    pc, job,            \* the collection under way
    failures

vars == <<at, positions, adaptive, granted, consented, known, owed, recent, before, complete,
          collected, pc, job, failures>>
account == <<at, positions, adaptive, granted, consented, owed>>
api     == <<recent, before, complete, collected>>

End == Now + Ahead
Times == 1 .. End - 1                     \* no deal is stamped with the epoch itself
Unset == End                              \* no cursor yet
NewImport == [before |-> End, floor |-> End - Span]
NoPage == [before |-> 0, floor |-> 0]
NoJob == [kind |-> "none", start |-> 0, end |-> 0, floor |-> 0, tries |-> 0,
          expected |-> 0, batch |-> {}, older |-> FALSE,
          session |-> "readonly", seen |-> {}]

Init ==
    /\ at \in [Deals -> Times] /\ positions \in 0 .. Limit /\ adaptive \in BOOLEAN
    /\ granted \in {"readonly", "trading"} /\ consented \in BOOLEAN
    /\ known \in SUBSET Deals /\ owed = known
    /\ recent = NewImport /\ before = Unset /\ complete = FALSE /\ collected = {}
    /\ pc = "idle" /\ job = NoJob /\ failures = MaxFailures

(***************************************************************************)
(* Windows.                                                                *)
(***************************************************************************)
\* mt5_bounds: the start is rounded down to a second, the end up.
Floor(t) == (t \div Second) * Second
Ceiling(t) == Floor(t + Second - 1)
Raw(ds, start, end) == {d \in ds : Floor(start) <= at[d] /\ at[d] <= Ceiling(end)}
Count(start, end) == Cardinality(Raw(known, start, end))
\* normalize_deals: the exact half-open window.
Inside(ds, start, end) == {d \in ds : start <= at[d] /\ at[d] < end}

Earliest(end) == IF end > Span THEN end - Span ELSE 0

\* identity: the account, its server, paths and build are those of the login, it
\* is connected, and may trade only by consent, and as it did before.
Admitted == granted = "readonly" \/ consented
Identity == Admitted /\ job.session = granted

\* initialize, login and the first identity; others fail before they read.
Open(kind, start, end, floor) ==
    /\ Admitted
    /\ job' = [NoJob EXCEPT !.kind = kind, !.start = start, !.end = end, !.floor = floor,
                            !.tries = Tries, !.session = granted]
    /\ pc' = IF kind = "backfill" \/ adaptive THEN "shrink" ELSE "first"

\* plan_recent_history for the first page, recentBeforeMs and
\* recentWindowFloorMs for the next ones.
PlanRecent ==
    /\ pc = "idle" /\ recent # NoPage
    /\ Open("recent", recent.floor, recent.before, recent.floor)
    /\ UNCHANGED <<account, known, api, failures>>

\* plan_history_before.
PlanBackfill ==
    /\ pc = "idle" /\ before \notin {Unset, 0} /\ ~complete
    /\ Open("backfill", Earliest(before), before, 0)
    /\ UNCHANGED <<account, known, api, failures>>

Stay(where) == pc' = where /\ UNCHANGED job
Discard == pc' = "idle" /\ job' = NoJob

Middle == Floor((job.start + job.end) \div 2)
\* Mutant: the older half of a dense window is read first.
HalveNewer == job' = [job EXCEPT !.end = Middle, !.tries = @ - 1]

\* A dense window keeps its newer half.
Halve == job' = [job EXCEPT !.start = Middle, !.tries = @ - 1]

\* Deals and counts belong to the session they are read in; what another account
\* would answer does not matter to a job that ends at its next identity.
Seen == job.seen \cup {job.session}

\* Mutant: a window may fill the whole result, positions included.
SparseAsLimit == Count(job.start, job.end) <= Limit

Sparse == Count(job.start, job.end) <= Dense

Shrink ==
    /\ pc = "shrink"
    /\ \/ job.tries > 0 /\ Sparse /\ Stay("first")
       \/ /\ job.tries > 0 /\ ~Sparse /\ job.end - job.start > Second
          /\ Halve /\ UNCHANGED pc
       \/ /\ job.tries = 0 \/ (~Sparse /\ job.end - job.start <= Second)
          /\ Discard                                   \* BATCH_TOO_LARGE
    /\ UNCHANGED <<account, known, api, failures>>

(***************************************************************************)
(* Reading one window.                                                     *)
(***************************************************************************)
FirstRead ==
    /\ pc = "first"
    /\ IF Count(job.start, job.end) > Limit THEN Discard ELSE Stay("expect")  \* a warm-up
    /\ UNCHANGED <<account, known, api, failures>>

\* identity, a second's pause, identity, and the count.
Expect ==
    /\ pc = "expect"
    /\ IF Identity
       THEN /\ pc' = "final"
            /\ job' = [job EXCEPT !.expected = Count(job.start, job.end)]
       ELSE Discard
    /\ UNCHANGED <<account, known, api, failures>>

FinalRead ==
    /\ pc = "final"
    /\ IF Count(job.start, job.end) > Limit THEN Discard
       ELSE /\ pc' = "recount"
            /\ job' = [job EXCEPT !.batch = Raw(known, job.start, job.end), !.seen = Seen]
    /\ UNCHANGED <<account, known, api, failures>>

\* The library is one that counts (count_verified); without history_deals_total
\* there is no adaptive import, no count and never an end of what is older.
\* Mutant: the count is not repeated after the read.
RecountNot ==
    /\ pc = "recount"
    /\ IF Cardinality(job.batch) = job.expected
       THEN /\ pc' = "older"
            /\ job' = [job EXCEPT !.batch = Inside(@, job.start, job.end)]
       ELSE Discard
    /\ UNCHANGED <<account, known, api, failures>>

Recount ==
    /\ pc = "recount"
    /\ IF Cardinality(job.batch) = job.expected /\ Count(job.start, job.end) = job.expected
       THEN /\ pc' = "older"
            /\ job' = [job EXCEPT !.batch = Inside(@, job.start, job.end)]
       ELSE Discard                                    \* HISTORY_UNAVAILABLE
    /\ UNCHANGED <<account, known, api, failures>>

\* Nothing older, counted twice; the end is included.
Older ==
    /\ pc = "older" /\ pc' = "again"
    /\ job' = [job EXCEPT !.older = Count(0, Floor(job.start)) = 0]
    /\ UNCHANGED <<account, known, api, failures>>

\* The second count, and identity.
OlderAgain ==
    /\ pc = "again"
    /\ IF Identity
       THEN /\ pc' = "positions"
            /\ job' = [job EXCEPT !.older = @ /\ Count(0, Floor(job.start)) = 0]
       ELSE Discard
    /\ UNCHANGED <<account, known, api, failures>>

ReadPositions ==
    /\ pc = "positions" /\ pc' = "last"
    /\ job' = [job EXCEPT !.seen = Seen]
    /\ UNCHANGED <<account, known, api, failures>>

\* Mutant: the account is taken without another identity.
FinishWithout ==
    /\ pc = "last"
    /\ IF Cardinality(job.batch) + positions <= Limit
       THEN pc' = "result" /\ job' = [job EXCEPT !.seen = Seen]
       ELSE Discard
    /\ UNCHANGED <<account, known, api, failures>>

\* The last identity is the snapshot of the balance, too.
Finish ==
    /\ pc = "last"
    /\ IF Identity /\ Cardinality(job.batch) + positions <= Limit
       THEN /\ pc' = "result"
            /\ job' = [job EXCEPT !.seen = Seen]
       ELSE Discard
    /\ UNCHANGED <<account, known, api, failures>>

(***************************************************************************)
(* The API (external) takes the batch and both cursors in one commit.      *)
(***************************************************************************)
NextPage == IF job.start > job.floor
            THEN [before |-> job.start, floor |-> job.floor] ELSE NoPage

Commit ==
    /\ pc = "result"
    /\ collected' = collected \cup job.batch
    /\ IF job.kind = "recent"
       THEN /\ recent' = NextPage
            /\ before' = IF before = Unset THEN job.floor ELSE before
       ELSE before' = job.start /\ UNCHANGED recent
    /\ complete' = (complete \/ job.older)
    /\ Discard
    /\ UNCHANGED <<account, known, failures>>

\* Any other error, a lost result or an expired lease.
Fail ==
    /\ pc # "idle" /\ failures > 0 /\ failures' = failures - 1
    /\ Discard
    /\ UNCHANGED <<account, known, api>>

\* The terminal (external) is logged in to another account, loses its connection
\* or updates itself, or may trade all of a sudden, or no longer: it is not what
\* the job logged in to.  Only the next job's login takes it back: a change and
\* its reversal within one job is beyond what the code can see (gateway.py:139).
SessionChanges ==
    /\ pc \notin {"idle", "result"} /\ job.session = granted
    /\ failures > 0 /\ failures' = failures - 1
    /\ job' = [job EXCEPT !.session = "other"]
    /\ UNCHANGED <<account, known, api, pc>>

\* MT5 (external) downloads a deal.
Arrives(d) ==
    /\ d \notin known /\ known' = known \cup {d}
    /\ UNCHANGED <<account, api, pc, job, failures>>

Collect == Shrink \/ FirstRead \/ Expect \/ FinalRead \/ Recount \/ Older \/ OlderAgain
           \/ ReadPositions \/ Finish \/ Commit
Next == PlanRecent \/ PlanBackfill \/ Collect \/ Fail \/ SessionChanges \/ \E d \in Deals : Arrives(d)

Spec == Init /\ [][Next]_vars

\* Claimed jobs run to their end, and the API offers each kind again and again.
FairSpec == Spec /\ WF_vars(Collect) /\ SF_vars(PlanRecent) /\ SF_vars(PlanBackfill)

-----------------------------------------------------------------------------
Seconds == {t \in 0 .. End : t % Second = 0}
Sessions == {"readonly", "trading", "other"}
Pages == [before : Seconds, floor : Seconds]
Jobs == [kind : {"none", "recent", "backfill"}, start : Seconds, end : Seconds,
         floor : Seconds, tries : 0 .. Tries, expected : Nat, batch : SUBSET Deals,
         older : BOOLEAN, session : Sessions, seen : SUBSET Sessions]

\* The type of every variable; cursors and windows are whole seconds, and a
\* window under way is neither empty nor longer than HistoryWindow allows
\* (contracts.py:51).
TypeOK ==
    /\ at \in [Deals -> Times] /\ positions \in Nat /\ adaptive \in BOOLEAN
    /\ granted \in Sessions /\ consented \in BOOLEAN
    /\ owed \subseteq known /\ known \subseteq Deals /\ collected \subseteq Deals
    /\ recent \in Pages /\ before \in Seconds /\ complete \in BOOLEAN
    /\ pc \in {"idle", "shrink", "first", "expect", "final", "recount", "older",
               "again", "positions", "last", "result"}
    /\ job \in Jobs /\ failures \in 0 .. MaxFailures
    /\ pc # "idle" => job.start < job.end /\ job.end - job.start <= Span

\* "Nothing is skipped" (gateway.py:216, docs/journal-ui.uk.md:66): when the scan
\* is complete and every page of the recent window has been read, each deal the
\* terminal had when the import began is committed, whatever halvings, failures
\* and repetitions lay between.
NothingSkipped == complete /\ recent = NoPage => owed \subseteq collected

\* A result is of one session from its first stored read to its last, the one the
\* job logged in to, and "investorVerified" is said of no other than a read-only one
\* (gateway.py:139 and 257), although the terminal may change between any two reads.
OneAccount == pc = "result" => job.seen = {granted} /\ (granted = "trading" => consented)

\* "Store only the final successful sample" (gateway.py:226): a batch that passes
\* the counts is exactly what the terminal has of the window at that moment,
\* although the download went on during the reads.
BatchIsSnapshot ==
    [][pc = "recount" /\ pc' = "older" /\ job.session = granted =>
         job'.batch = Inside(known, job.start, job.end)]_vars

\* The import ends, when no two neighbouring seconds hold too many deals, and the
\* open positions leave room for a dense batch in one result: the windows always
\* shrink far enough and every result moves a cursor (gateway.py:215-225).
Fits == /\ Admitted /\ adaptive /\ positions <= Limit - Dense
        /\ \A t \in Seconds : Cardinality(Raw(Deals, t, t + Second)) <= Dense
ImportEnds == Fits ~> complete /\ recent = NoPage
=============================================================================
