------------------------------ MODULE NodeSession ------------------------------
(***************************************************************************)
(* How one slot's agent (app/collector/node_agent.py) speaks to the API:    *)
(* every call is tried three times with the same body (NodeClient.call); a  *)
(* process is registered as a new session by compare-and-set on the         *)
(* generation, its reports are numbered, and a claim carries an identifier. *)
(* SlotRecovery takes a call as one step; here its attempts are lost,       *)
(* applied without an answer, or delivered when nobody waits any more.      *)
(*                                                                          *)
(* The API is external: a repeat of an accepted session, report or          *)
(* completion is accepted again and changes nothing, a repeated claim       *)
(* returns the same lease (docs/node-agent.uk.md, queue-worker.uk.md).      *)
(***************************************************************************)
EXTENDS Naturals, FiniteSets

CONSTANTS
    MaxProcesses, MaxGenerations, MaxReports, MaxClaims,   \* bounds
    MaxFaults, MaxCrashes              \* bounds: failed attempts, crashes of the agent

ASSUME SessionAssumption ==
    /\ {MaxProcesses, MaxGenerations, MaxReports, MaxClaims, MaxFaults, MaxCrashes}
         \subseteq Nat
    /\ MaxProcesses # 0 /\ MaxReports # 0

VARIABLES
    live,      \* identity of the terminal process
    api,       \* the API's row: session, last report, the process published, lease
    agent,     \* connected, the generation of /config, the session it believes in
    req,       \* the call under way, NoCall between calls
    attempt,   \* its attempts so far
    late,      \* attempts given up by the client and still on their way
    claims,    \* claim identifiers used
    abandoned, \* the claims that ended in an error for the agent, or with it
    faults, crashes

vars == <<live, api, agent, req, attempt, late, claims, abandoned, faults, crashes>>

\* Mutant: no third attempt.
AttemptsTwo == 2

Attempts == 3
Generations == 1 .. MaxGenerations
Blank == [op |-> "none", gen |-> 0, expected |-> 0, proc |-> 0, seq |-> 0, claim |-> 0]
NoCall == Blank
NoSession == [gen |-> 0, proc |-> 0, seq |-> 0]
NewAgent == [connected |-> FALSE, remote |-> 0, session |-> NoSession, claim |-> FALSE]

Init ==
    /\ live = 1
    /\ api = [gen |-> 0, proc |-> 0, seq |-> 0, view |-> 0, lease |-> 0, done |-> {}]
    /\ agent = NewAgent
    /\ req = NoCall /\ attempt = 0 /\ late = {} /\ claims = 0
    /\ abandoned = {} /\ faults = MaxFaults /\ crashes = MaxCrashes

(***************************************************************************)
(* The API (external).                                                     *)
(***************************************************************************)
Repeated(r) == r.op = "session" /\ r.gen = api.gen /\ r.proc = api.proc

Accepts(r) ==
    \/ r.op = "config"
    \/ /\ r.op = "session" /\ (r.expected = api.gen \/ Repeated(r))
       /\ api.lease # 0 => r.proc = api.proc
    \/ r.op = "report" /\ r.gen = api.gen /\ r.seq >= api.seq
    \/ r.op = "claim" /\ r.gen = api.gen /\ api.lease \in {0, r.claim} /\ r.claim \notin api.done
    \/ r.op = "complete" /\ (r.claim = api.lease \/ r.claim \in api.done)

After(r) ==
    CASE r.op = "session" /\ ~Repeated(r) ->
           [api EXCEPT !.gen = r.gen, !.proc = r.proc, !.seq = 0, !.view = 0]
      [] r.op = "report" -> [api EXCEPT !.seq = r.seq, !.view = r.proc]
      [] r.op = "claim" -> [api EXCEPT !.lease = r.claim]
      [] r.op = "complete" /\ r.claim = api.lease ->
           [api EXCEPT !.lease = 0, !.done = @ \cup {r.claim}]
      [] OTHER -> api

Process(r) == api' = IF Accepts(r) THEN After(r) ELSE api

(***************************************************************************)
(* The agent.                                                              *)
(***************************************************************************)
Start(r) == req' = r /\ attempt' = 0
Done == Start(NoCall)

Connect ==
    /\ req = NoCall /\ ~agent.connected
    /\ Start([Blank EXCEPT !.op = "config"])
    /\ UNCHANGED <<live, api, agent, late, claims, abandoned, faults, crashes>>

Mentioned ==
    LET requests == late \cup {req}
    IN  {api.gen, agent.remote, agent.session.gen}
          \cup {r.gen : r \in requests} \cup {r.expected : r \in requests}

\* Mutant: generations are reused.
FreshAgain(g) == g \in Generations

\* uuid4: a generation that occurs nowhere.
Fresh(g) == g \in Generations \ Mentioned

\* The generation the new session expects the API to have.
Expected == IF agent.session # NoSession THEN agent.session.gen ELSE agent.remote

Registered == agent.session # NoSession /\ agent.session.proc = live

OpenSession ==
    /\ req = NoCall /\ agent.connected /\ ~agent.claim /\ ~Registered
    /\ \E g \in Generations :
         /\ Fresh(g) /\ \A h \in Generations : Fresh(h) => g <= h
         /\ Start([Blank EXCEPT !.op = "session", !.gen = g,
                                !.expected = Expected, !.proc = live])
    /\ UNCHANGED <<live, api, agent, late, claims, abandoned, faults, crashes>>

\* Mutant: the report names the process of the moment.
ReportOfLive(s) == [Blank EXCEPT !.op = "report", !.gen = s.gen, !.seq = s.seq + 1,
                                 !.proc = live]

\* The number is used up whether or not the report arrives.
ReportOf(s) == [Blank EXCEPT !.op = "report", !.gen = s.gen, !.seq = s.seq + 1,
                             !.proc = s.proc]

SendReport ==
    /\ req = NoCall /\ agent.connected /\ ~agent.claim /\ Registered
    /\ agent.session.seq < MaxReports
    /\ Start(ReportOf(agent.session))
    /\ agent' = [agent EXCEPT !.session.seq = @ + 1]
    /\ UNCHANGED <<live, api, late, claims, abandoned, faults, crashes>>

\* For the process registered (TERMINAL_CHANGED otherwise).
Claim ==
    /\ req = NoCall /\ agent.claim /\ Registered /\ claims < MaxClaims
    /\ claims' = claims + 1
    /\ Start([Blank EXCEPT !.op = "claim", !.gen = agent.session.gen, !.claim = claims + 1])
    /\ agent' = [agent EXCEPT !.claim = FALSE]
    /\ UNCHANGED <<live, api, late, abandoned, faults, crashes>>

NoJob ==
    /\ req = NoCall /\ agent.claim
    /\ agent' = [agent EXCEPT !.claim = FALSE]
    /\ UNCHANGED <<live, api, req, attempt, late, claims, abandoned, faults, crashes>>

\* What the caller does with an answer: a session's first report follows it, and
\* after a job another may be claimed without a new report (worker.py, once).
Succeed ==
    CASE req.op = "config" ->
           Done /\ agent' = [agent EXCEPT !.connected = TRUE, !.remote = api.gen]
      [] req.op = "session" ->
           LET s == [gen |-> req.gen, proc |-> req.proc, seq |-> 0]
           IN  Start(ReportOf(s)) /\ agent' = [agent EXCEPT !.session = [s EXCEPT !.seq = 1]]
      [] req.op = "report" -> Done /\ agent' = [agent EXCEPT !.claim = TRUE]
      [] req.op = "claim" -> Start([req EXCEPT !.op = "complete"]) /\ UNCHANGED agent
      [] OTHER -> Done /\ \E again \in BOOLEAN : agent' = [agent EXCEPT !.claim = again]

\* Nobody waits for the claim under way any more.
Abandon == Done /\ abandoned' = abandoned \cup ({req.claim} \ {0})

\* AgentError: the scheduler drops the connection and keeps the session.
Raise == Abandon /\ agent' = [agent EXCEPT !.connected = FALSE, !.claim = FALSE]

Answer ==
    /\ req # NoCall
    /\ Process(req)
    /\ IF Accepts(req) THEN Succeed /\ UNCHANGED abandoned ELSE Raise
    /\ UNCHANGED <<live, late, claims, faults, crashes>>

\* Mutant: the body of a claim, its identifier with it, is made anew.
ResentAnew(r) == IF r.op = "claim" /\ claims < MaxClaims THEN [r EXCEPT !.claim = claims + 1]
                                                         ELSE r

\* The body is encoded once, before the first attempt.
Resent(r) == r

\* No answer: nothing, everything, or something later has happened.
Unanswered ==
    \/ Process(req) /\ UNCHANGED late
    \/ UNCHANGED <<api, late>>
    \/ req.op \notin {"none", "config"} /\ late' = late \cup {req} /\ UNCHANGED api

\* A timeout or a 5xx.
Fail ==
    /\ req # NoCall /\ faults > 0 /\ faults' = faults - 1
    /\ Unanswered
    /\ IF attempt + 1 < Attempts
       THEN attempt' = attempt + 1 /\ req' = Resent(req) /\ UNCHANGED <<agent, abandoned>>
       ELSE Raise
    /\ UNCHANGED <<live, claims, crashes>>

\* The controller ends at any point and starts again: its sessions are only in
\* memory (InventoryAgent.__init__).
Crash ==
    /\ crashes > 0 /\ crashes' = crashes - 1
    /\ Unanswered
    /\ Abandon /\ agent' = NewAgent
    /\ UNCHANGED <<live, claims, faults>>

(***************************************************************************)
(* The rest of the world.                                                  *)
(***************************************************************************)
LateDelivery ==
    /\ \E r \in late : Process(r) /\ late' = late \ {r}
    /\ UNCHANGED <<live, agent, req, attempt, claims, abandoned, faults, crashes>>

LeaseExpires ==
    /\ api.lease # 0 /\ req.claim # api.lease
    /\ api' = [api EXCEPT !.lease = 0, !.done = @ \cup {api.lease}]
    /\ UNCHANGED <<live, agent, req, attempt, late, claims, abandoned, faults, crashes>>

\* Another process, or none: an inventory without one is a change of identity as
\* well, and opens a session of its own (inventory_snapshot, report_slot).
ProcessChanges ==
    /\ live < MaxProcesses /\ live' = live + 1
    /\ UNCHANGED <<api, agent, req, attempt, late, claims, abandoned, faults, crashes>>

\* Nothing is left to do within the bounds.
Rest ==
    /\ req = NoCall /\ agent.connected /\ ~agent.claim
    /\ Registered /\ agent.session.seq = MaxReports
    /\ UNCHANGED vars

Agent == Connect \/ OpenSession \/ SendReport \/ Claim \/ NoJob \/ Answer

Next == Agent \/ Fail \/ Crash \/ LateDelivery \/ LeaseExpires \/ ProcessChanges \/ Rest

Spec == Init /\ [][Next]_vars

\* The scheduler comes back to every slot for ever, an outage ends (MaxFaults),
\* crashes do (MaxCrashes), and leases run out.
FairSpec == Spec /\ WF_vars(Agent) /\ WF_vars(LeaseExpires)

-------------------------------------------------------------------------------
Requests == [op : {"none", "config", "session", "report", "claim", "complete"},
             gen : 0 .. MaxGenerations, expected : 0 .. MaxGenerations,
             proc : 0 .. MaxProcesses, seq : 0 .. MaxReports, claim : 0 .. MaxClaims]

\* The type of every variable.
TypeOK ==
    /\ live \in 1 .. MaxProcesses
    /\ api \in [gen : 0 .. MaxGenerations, proc : 0 .. MaxProcesses,
                seq : 0 .. MaxReports, view : 0 .. MaxProcesses,
                lease : 0 .. MaxClaims, done : SUBSET (1 .. MaxClaims)]
    /\ agent \in [connected : BOOLEAN, remote : 0 .. MaxGenerations, claim : BOOLEAN,
                  session : [gen : 0 .. MaxGenerations, proc : 0 .. MaxProcesses,
                             seq : 0 .. MaxReports]]
    /\ req \in Requests /\ late \subseteq Requests
    /\ attempt \in 0 .. Attempts - 1
    /\ claims \in 0 .. MaxClaims /\ abandoned \subseteq 1 .. MaxClaims
    /\ faults \in 0 .. MaxFaults /\ crashes \in 0 .. MaxCrashes

\* What the API publishes is the registered process, whatever attempt of
\* whatever session arrives in whatever order.
PublishedIsRegistered == api.view \in {0, api.proc}

\* The published report never goes back to an older process (a terminal number
\* only grows), not even for a report delivered after its successors.
NoOldNews == [][api'.proc >= api.proc]_vars

\* A lease belongs to the caller that waits for it or works on it, unless that
\* very claim ended in an error, or its caller ended: the retry of a claim whose
\* answer was lost finds its own lease again, and no late attempt opens a
\* finished claim.
LeaseIsHeld == api.lease # 0 => req.claim = api.lease \/ api.lease \in abandoned

\* A running process is published in the end, however many answers were lost
\* before, as long as it keeps running ("slot recovers after api outage and
\* refreshes config", tests/test_scheduler.py).
ProcessIsPublished ==
    \A p \in 1 .. MaxProcesses : (live = p) ~> (api.view = p \/ live # p)
===============================================================================
