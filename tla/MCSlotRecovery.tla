--------------------------- MODULE MCSlotRecovery ---------------------------
(* Model values for checking SlotRecovery with TLC. *)
EXTENDS SlotRecovery

AllCalls == Calls
NoCalls == {}

\* One lost answer or one crash, not both; nor a lost answer along with a child
\* that outlived its kill.
OneMishap ==
    /\ faults + crashes >= MaxFaults + MaxCrashes - 1
    /\ (\E k \in kids : ~Owned(k)) => faults = MaxFaults

\* What a child has read is history, which no step looks at.
Unread == \A k \in kids : k.saw = {}

\* With the identities or the generations used up, nothing more is claimed.
Unexhausted == ~Exhausted

\* A crash comes while the terminal is fenced, and is followed to the fence's end;
\* at any other time it is another beginning.
CrashWhileFenced == crashes = MaxCrashes \/ api.quar # 0
\* Of the ways to an orphan, the crash.
CrashOrphans == kids # {} /\ wpc # "child" => crashes < MaxCrashes
=============================================================================
