--------------------------- MODULE NodeSessionProofs ---------------------------
(***************************************************************************)
(* Theorems about NodeSession, for any number of processes, generations,    *)
(* reports and claims, however many attempts fail, and wherever the agent   *)
(* ends and starts again: what the API publishes, and whose lease it is.    *)
(***************************************************************************)
EXTENDS NodeSession, TLAPS

\* The requests that may still be applied.
Pending == late \cup {req}
Sessions == {r \in Pending : r.op = "session"}
Reports == {r \in Pending : r.op = "report"}

\* Everything that names a generation along with its process: the API's row, the
\* agent's session (none, for an agent that has just started), and the requests
\* that may still be applied.
Binding(x) == [gen |-> x.gen, proc |-> x.proc]
Bindings == {Binding(api), Binding(agent.session), Binding(NoSession)}
                \cup {Binding(r) : r \in Sessions \cup Reports}

\* A generation is made for one process.
OneProcess == \A b, c \in Bindings : b.gen = c.gen => b.proc = c.proc

\* No process is named that was not there yet.
NoneAhead == \A b \in Bindings : b.proc <= live

\* A new session expects a generation of no later process.
InOrder == \A r \in Sessions, b \in Bindings : b.gen = r.expected => b.proc <= r.proc

\* A claim that may still be applied is the agent's own, is finished, or ended
\* in an error or with the agent.
ClaimsKnown ==
    /\ req.claim # 0 <=> req.op \in {"claim", "complete"}
    /\ \A r \in Pending : r.op \in {"claim", "complete"} => r.claim # 0
    /\ \A r \in Pending : r.op = "claim" =>
          r.claim = req.claim \/ r.claim \in abandoned \/ r.claim \in api.done

\* The inductive invariant.
IInv == /\ TypeOK /\ OneProcess /\ NoneAhead /\ InOrder /\ ClaimsKnown
        /\ PublishedIsRegistered /\ LeaseIsHeld

Rows == [gen : 0 .. MaxGenerations, proc : 0 .. MaxProcesses, seq : 0 .. MaxReports,
         view : 0 .. MaxProcesses, lease : 0 .. MaxClaims, done : SUBSET (1 .. MaxClaims)]
SessionsKept == [gen : 0 .. MaxGenerations, proc : 0 .. MaxProcesses, seq : 0 .. MaxReports]
Agents == [connected : BOOLEAN, remote : 0 .. MaxGenerations, claim : BOOLEAN,
           session : SessionsKept]

-------------------------------------------------------------------------------
\* What the API makes of a request, case by case.
LEMMA Processed ==
    ASSUME TypeOK, NEW r \in Requests, Process(r)
    PROVE  \/ api' = api
           \/ /\ r.op = "session" /\ r.expected = api.gen
              /\ api' = [api EXCEPT !.gen = r.gen, !.proc = r.proc, !.seq = 0, !.view = 0]
           \/ /\ r.op = "report" /\ r.gen = api.gen
              /\ api' = [api EXCEPT !.seq = r.seq, !.view = r.proc]
           \/ /\ r.op = "claim" /\ r.claim \notin api.done
              /\ api' = [api EXCEPT !.lease = r.claim]
           \/ /\ r.op = "complete" /\ r.claim = api.lease
              /\ api' = [api EXCEPT !.lease = 0, !.done = @ \cup {r.claim}]
  <1>1. CASE ~Accepts(r)
    BY <1>1 DEF Process
  <1>2. CASE Accepts(r) /\ r.op = "session" /\ ~Repeated(r)
    BY <1>2 DEF Process, Accepts, After
  <1>3. CASE Accepts(r) /\ r.op = "session" /\ Repeated(r)
    BY <1>3 DEF Process, After
  <1>4. CASE Accepts(r) /\ r.op = "report"
    BY <1>4 DEF Process, Accepts, After
  <1>5. CASE Accepts(r) /\ r.op = "claim"
    BY <1>5 DEF Process, Accepts, After
  <1>6. CASE Accepts(r) /\ r.op = "complete" /\ r.claim = api.lease
    BY <1>6 DEF Process, Accepts, After
  <1>7. CASE Accepts(r) /\ r.op = "complete" /\ r.claim # api.lease
    BY <1>7 DEF Process, Accepts, After
  <1>8. CASE r.op \in {"none", "config"}
    BY <1>8 DEF Process, After
  <1> QED
    BY <1>1, <1>2, <1>3, <1>4, <1>5, <1>6, <1>7, <1>8 DEF Requests

\* Its row keeps its type.
LEMMA ProcessedType ==
    ASSUME TypeOK, NEW r \in Requests, r.op = "complete" => r.claim # 0, Process(r)
    PROVE  api' \in Rows
  <1>1. api \in Rows
    BY DEF TypeOK, Rows
  <1>2. r.claim # 0 => r.claim \in 1 .. MaxClaims
    BY SessionAssumption DEF Requests
  <1>3. /\ r.gen \in 0 .. MaxGenerations /\ r.proc \in 0 .. MaxProcesses
        /\ r.seq \in 0 .. MaxReports /\ r.claim \in 0 .. MaxClaims
        /\ 0 \in 0 .. MaxReports /\ 0 \in 0 .. MaxProcesses /\ 0 \in 0 .. MaxClaims
    BY SessionAssumption DEF Requests
  <1>4. CASE api' = [api EXCEPT !.gen = r.gen, !.proc = r.proc, !.seq = 0, !.view = 0]
    <2>1. api' = [gen |-> r.gen, proc |-> r.proc, seq |-> 0, view |-> 0,
                  lease |-> api.lease, done |-> api.done]
      BY <1>1, <1>4 DEF Rows
    <2> QED
      BY <1>1, <1>3, <2>1 DEF Rows
  <1>5. CASE api' = [api EXCEPT !.seq = r.seq, !.view = r.proc]
    <2>1. api' = [gen |-> api.gen, proc |-> api.proc, seq |-> r.seq, view |-> r.proc,
                  lease |-> api.lease, done |-> api.done]
      BY <1>1, <1>5 DEF Rows
    <2> QED
      BY <1>1, <1>3, <2>1 DEF Rows
  <1>6. CASE api' = [api EXCEPT !.lease = r.claim]
    BY <1>1, <1>3, <1>6 DEF Rows
  <1>7. CASE api' = [api EXCEPT !.lease = 0, !.done = @ \cup {r.claim}] /\ r.claim # 0
    <2>1. api' = [gen |-> api.gen, proc |-> api.proc, seq |-> api.seq, view |-> api.view,
                  lease |-> 0, done |-> api.done \cup {r.claim}]
      BY <1>1, <1>7 DEF Rows
    <2> QED
      BY <1>1, <1>2, <1>3, <1>7, <2>1 DEF Rows
  <1> QED
    BY <1>1, <1>4, <1>5, <1>6, <1>7, Processed

\* A report, field by field.
LEMMA ReportIs ==
    ASSUME NEW s
    PROVE  ReportOf(s) = [op |-> "report", gen |-> s.gen, expected |-> 0, proc |-> s.proc,
                          seq |-> s.seq + 1, claim |-> 0]
  <1> DEFINE a == [Blank EXCEPT !.op = "report"]
             b == [a EXCEPT !.gen = s.gen]
             c == [b EXCEPT !.seq = s.seq + 1]
             d == [c EXCEPT !.proc = s.proc]
  <1>1. a = [op |-> "report", gen |-> 0, expected |-> 0, proc |-> 0, seq |-> 0, claim |-> 0]
    BY DEF Blank
  <1> HIDE DEF a
  <1>2. b = [op |-> "report", gen |-> s.gen, expected |-> 0, proc |-> 0, seq |-> 0, claim |-> 0]
    BY <1>1
  <1> HIDE DEF b
  <1>3. c = [op |-> "report", gen |-> s.gen, expected |-> 0, proc |-> 0,
             seq |-> s.seq + 1, claim |-> 0]
    BY <1>2
  <1> HIDE DEF c
  <1>4. d = [op |-> "report", gen |-> s.gen, expected |-> 0, proc |-> s.proc,
             seq |-> s.seq + 1, claim |-> 0]
    BY <1>3
  <1> QED
    BY <1>4 DEF a, b, c, ReportOf

\* A new session, field by field.
LEMMA SessionIs ==
    ASSUME NEW g
    PROVE  [Blank EXCEPT !.op = "session", !.gen = g, !.expected = Expected, !.proc = live]
             = [op |-> "session", gen |-> g, expected |-> Expected, proc |-> live,
                seq |-> 0, claim |-> 0]
  <1> DEFINE a == [Blank EXCEPT !.op = "session"]
             b == [a EXCEPT !.gen = g]
             c == [b EXCEPT !.expected = Expected]
             d == [c EXCEPT !.proc = live]
  <1>1. a = [op |-> "session", gen |-> 0, expected |-> 0, proc |-> 0, seq |-> 0, claim |-> 0]
    BY DEF Blank
  <1> HIDE DEF a
  <1>2. b = [op |-> "session", gen |-> g, expected |-> 0, proc |-> 0, seq |-> 0, claim |-> 0]
    BY <1>1
  <1> HIDE DEF b
  <1>3. c = [op |-> "session", gen |-> g, expected |-> Expected, proc |-> 0, seq |-> 0, claim |-> 0]
    BY <1>2
  <1> HIDE DEF c
  <1>4. d = [op |-> "session", gen |-> g, expected |-> Expected, proc |-> live, seq |-> 0, claim |-> 0]
    BY <1>3
  <1> QED
    BY <1>4 DEF a, b, c

\* A claim, field by field.
LEMMA ClaimIs ==
    ASSUME NEW g, NEW n
    PROVE  [Blank EXCEPT !.op = "claim", !.gen = g, !.claim = n]
             = [op |-> "claim", gen |-> g, expected |-> 0, proc |-> 0, seq |-> 0, claim |-> n]
  <1> DEFINE a == [Blank EXCEPT !.op = "claim"]
             b == [a EXCEPT !.gen = g]
             c == [b EXCEPT !.claim = n]
  <1>1. a = [op |-> "claim", gen |-> 0, expected |-> 0, proc |-> 0, seq |-> 0, claim |-> 0]
    BY DEF Blank
  <1> HIDE DEF a
  <1>2. b = [op |-> "claim", gen |-> g, expected |-> 0, proc |-> 0, seq |-> 0, claim |-> 0]
    BY <1>1
  <1> HIDE DEF b
  <1>3. c = [op |-> "claim", gen |-> g, expected |-> 0, proc |-> 0, seq |-> 0, claim |-> n]
    BY <1>2
  <1> QED
    BY <1>3 DEF a, b

\* The request under way, if any, is one; a request applied is one that was.
LEMMA PendingTyped == TypeOK => Pending \subseteq Requests
  BY DEF TypeOK, Pending

\* Every step applies at most one pending request to the API's row, or lets a
\* lease run out.
LEMMA ApiChanges ==
    ASSUME [Next]_vars
    PROVE  \/ api' = api
           \/ \E r \in Pending : Process(r)
           \/ LeaseExpires
  BY DEF Next, Agent, vars, Connect, OpenSession, SendReport, Claim, NoJob, Answer, Fail, Unanswered, Crash, Abandon,
         LateDelivery, ProcessChanges, Rest, Pending

\* Every step of the agent either keeps its request or makes one of these, and
\* what it gives up it remembers.
LEMMA RequestChanges ==
    ASSUME TypeOK, [Next]_vars
    PROVE  \/ req' = req /\ abandoned' = abandoned /\ agent' = agent
           \/ OpenSession
           \/ /\ req = NoCall /\ abandoned' = abandoned
              /\ \/ req' = NoCall /\ agent' = [agent EXCEPT !.claim = FALSE]
                 \/ req' = [Blank EXCEPT !.op = "config"] /\ agent' = agent
                 \/ /\ req' = ReportOf(agent.session) /\ agent.session.seq < MaxReports
                    /\ agent' = [agent EXCEPT !.session.seq = @ + 1]
           \/ Claim
           \/ Answer
           \/ Raise /\ Fail
           \/ Crash
  BY DEF Next, Agent, vars, Connect, SendReport, NoJob, Fail, Crash, Resent, Start, Done,
         LateDelivery, LeaseExpires, ProcessChanges, Rest

LEMMA BlankTyped == Blank \in Requests /\ [Blank EXCEPT !.op = "config"] \in Requests
  BY SessionAssumption DEF Blank, Requests

\* What the type invariant says of the parts.
LEMMA Parts ==
    ASSUME TypeOK
    PROVE  /\ api \in Rows /\ agent \in Agents /\ agent.session \in SessionsKept
           /\ req \in Requests /\ late \subseteq Requests
           /\ live \in 0 .. MaxProcesses /\ live \in Nat
  BY SessionAssumption DEF TypeOK, Rows, Agents, SessionsKept

\* A call given up: its claim is remembered.
LEMMA AbandonType ==
    ASSUME TypeOK, Abandon
    PROVE  /\ req' = Blank /\ attempt' = 0
           /\ abandoned' \subseteq 1 .. MaxClaims
           /\ abandoned \subseteq abandoned'
           /\ req.claim # 0 => req.claim \in abandoned'
  <1>1. req' = Blank /\ attempt' = 0
    BY DEF Abandon, Done, Start, NoCall
  <1>2. req.claim \in 0 .. MaxClaims
    BY Parts DEF Requests
  <1>3. req.claim # 0 => req.claim \in 1 .. MaxClaims
    BY <1>2, SessionAssumption
  <1> QED
    BY <1>1, <1>3 DEF Abandon, TypeOK

\* An error: the agent keeps its session only.
LEMMA RaiseType ==
    ASSUME TypeOK, Raise
    PROVE  /\ req' = Blank /\ attempt' = 0
           /\ agent' \in Agents /\ agent'.session = agent.session
           /\ abandoned' \subseteq 1 .. MaxClaims
           /\ abandoned \subseteq abandoned'
           /\ req.claim # 0 => req.claim \in abandoned'
  <1>1. agent' \in Agents /\ agent'.session = agent.session
    BY Parts DEF Raise, Agents
  <1> QED
    BY <1>1, AbandonType DEF Raise

\* The agent ends and starts again: it keeps nothing.
LEMMA CrashType ==
    ASSUME TypeOK, Crash
    PROVE  /\ req' = Blank /\ attempt' = 0
           /\ agent' \in Agents /\ agent'.session = NoSession
           /\ abandoned' \subseteq 1 .. MaxClaims
           /\ abandoned \subseteq abandoned'
           /\ req.claim # 0 => req.claim \in abandoned'
  <1>1. agent' = NewAgent
    BY DEF Crash
  <1>2. agent' \in Agents /\ agent'.session = NoSession
    BY <1>1, SessionAssumption DEF NewAgent, NoSession, Agents, SessionsKept
  <1> QED
    BY <1>2, AbandonType DEF Crash

\* An answer the caller can use: what it asks next, and what it then believes.
LEMMA SucceedCases ==
    ASSUME TypeOK, Succeed
    PROVE  /\ attempt' = 0
           /\ \/ /\ req.op = "config" /\ req' = Blank
                 /\ agent' = [agent EXCEPT !.connected = TRUE, !.remote = api.gen]
              \/ /\ req.op = "session"
                 /\ \E s \in SessionsKept :
                       /\ s.gen = req.gen /\ s.proc = req.proc /\ s.seq = 1
                       /\ agent' = [agent EXCEPT !.session = s]
                 /\ req' = [op |-> "report", gen |-> req.gen, expected |-> 0,
                            proc |-> req.proc, seq |-> 1, claim |-> 0]
              \/ /\ req.op = "report" /\ req' = Blank
                 /\ agent' = [agent EXCEPT !.claim = TRUE]
              \/ /\ req.op = "claim" /\ req' = [req EXCEPT !.op = "complete"]
                 /\ agent' = agent
              \/ /\ req.op \in {"none", "complete"} /\ req' = Blank
                 /\ \E again \in BOOLEAN : agent' = [agent EXCEPT !.claim = again]
  <1>1. CASE req.op = "config"
    BY <1>1 DEF Succeed, Done, Start, NoCall
  <1>2. CASE req.op = "session"
    <2> DEFINE s == [gen |-> req.gen, proc |-> req.proc, seq |-> 0]
               t == [gen |-> req.gen, proc |-> req.proc, seq |-> 1]
    <2>1. /\ req' = ReportOf(s) /\ attempt' = 0
          /\ agent' = [agent EXCEPT !.session = [s EXCEPT !.seq = 1]]
      BY <1>2 DEF Succeed, Start
    <2>2. [s EXCEPT !.seq = 1] = t
      OBVIOUS
    <2>3. t \in SessionsKept
      BY Parts, SessionAssumption DEF Requests, SessionsKept
    <2>4. s.gen = req.gen /\ s.proc = req.proc /\ s.seq + 1 = 1
      OBVIOUS
    <2>5. req' = [op |-> "report", gen |-> req.gen, expected |-> 0,
                  proc |-> req.proc, seq |-> 1, claim |-> 0]
      <3> HIDE DEF s
      <3> QED
        BY <2>1, <2>4, ReportIs
    <2>6. t.gen = req.gen /\ t.proc = req.proc /\ t.seq = 1
      OBVIOUS
    <2>7. agent' = [agent EXCEPT !.session = t]
      BY <2>1, <2>2
    <2> HIDE DEF t
    <2> QED
      BY <1>2, <2>1, <2>3, <2>5, <2>6, <2>7
  <1>3. CASE req.op = "report"
    BY <1>3 DEF Succeed, Done, Start, NoCall
  <1>4. CASE req.op = "claim"
    BY <1>4 DEF Succeed, Start
  <1>5. CASE req.op \in {"none", "complete"}
    BY <1>5 DEF Succeed, Done, Start, NoCall
  <1> QED
    BY <1>1, <1>2, <1>3, <1>4, <1>5, Parts DEF Requests

\* The types after an answer.
LEMMA SucceedType ==
    ASSUME TypeOK, Succeed
    PROVE  req' \in Requests /\ agent' \in Agents /\ attempt' = 0
  <1>1. Blank \in Requests /\ attempt' = 0
    BY BlankTyped, SucceedCases
  <1>2. /\ req.gen \in 0 .. MaxGenerations /\ req.proc \in 0 .. MaxProcesses
        /\ api.gen \in 0 .. MaxGenerations
    BY Parts DEF Requests, Rows
  <1>3. CASE req.op = "config"
    <2>1. agent' = [agent EXCEPT !.connected = TRUE, !.remote = api.gen] /\ req' = Blank
      BY <1>3, SucceedCases
    <2> QED
      BY <1>1, <1>2, <2>1, Parts DEF Agents
  <1>4. CASE req.op = "session"
    <2>1. PICK s \in SessionsKept : agent' = [agent EXCEPT !.session = s]
      BY <1>4, SucceedCases
    <2>2. req' = [op |-> "report", gen |-> req.gen, expected |-> 0,
                  proc |-> req.proc, seq |-> 1, claim |-> 0]
      BY <1>4, SucceedCases
    <2>3. req' \in Requests
      BY <1>2, <2>2, SessionAssumption DEF Requests
    <2>4. agent' \in Agents
      BY <2>1, Parts DEF Agents
    <2> QED
      BY <1>1, <2>3, <2>4
  <1>5. CASE req.op = "report"
    <2>1. agent' = [agent EXCEPT !.claim = TRUE] /\ req' = Blank
      BY <1>5, SucceedCases
    <2> QED
      BY <1>1, <2>1, Parts DEF Agents
  <1>6. CASE req.op = "claim"
    <2>1. req' = [req EXCEPT !.op = "complete"] /\ agent' = agent
      BY <1>6, SucceedCases
    <2>2. req' \in Requests
      BY <2>1, Parts DEF Requests
    <2> QED
      BY <1>1, <2>1, <2>2, Parts
  <1>7. CASE req.op \in {"none", "complete"}
    <2>1. PICK again \in BOOLEAN : agent' = [agent EXCEPT !.claim = again]
      BY <1>7, SucceedCases
    <2>2. req' = Blank
      BY <1>7, SucceedCases
    <2> QED
      BY <1>1, <2>1, <2>2, Parts DEF Agents
  <1> QED
    BY <1>3, <1>4, <1>5, <1>6, <1>7, Parts DEF Requests

\* The API's row keeps its type.
LEMMA ApiType ==
    ASSUME TypeOK, ClaimsKnown, [Next]_vars
    PROVE  api' \in Rows
  <1>1. CASE api' = api
    BY <1>1, Parts
  <1>2. ASSUME NEW r \in Pending, Process(r) PROVE api' \in Rows
    BY <1>2, PendingTyped, ProcessedType DEF ClaimsKnown
  <1>3. CASE LeaseExpires
    <2>1. api.lease \in 0 .. MaxClaims /\ api.lease # 0
      BY <1>3, Parts DEF LeaseExpires, Rows
    <2>2. api.lease \in 1 .. MaxClaims /\ 0 \in 0 .. MaxClaims
      BY <2>1, SessionAssumption
    <2>3. api' = [gen |-> api.gen, proc |-> api.proc, seq |-> api.seq, view |-> api.view,
                  lease |-> 0, done |-> api.done \cup {api.lease}]
      BY <1>3, Parts DEF LeaseExpires, Rows
    <2> QED
      BY <2>2, <2>3, Parts DEF Rows
  <1> QED
    BY <1>1, <1>2, <1>3, ApiChanges

\* The agent's side keeps its types.
LEMMA AgentType ==
    ASSUME TypeOK, [Next]_vars
    PROVE  /\ req' \in Requests /\ agent' \in Agents
           /\ abandoned' \subseteq 1 .. MaxClaims
           /\ claims' \in 0 .. MaxClaims
  <1>0. abandoned \subseteq 1 .. MaxClaims /\ claims \in 0 .. MaxClaims
    BY DEF TypeOK
  <1>1. CASE req' = req /\ abandoned' = abandoned /\ agent' = agent /\ claims' = claims
    BY <1>0, <1>1, Parts
  <1>2. CASE OpenSession
    <2>1. PICK g \in Generations :
            req' = [op |-> "session", gen |-> g, expected |-> Expected, proc |-> live,
                    seq |-> 0, claim |-> 0]
      BY <1>2, SessionIs DEF OpenSession, Start
    <2>2. g \in 0 .. MaxGenerations /\ live \in 0 .. MaxProcesses
      BY Parts, SessionAssumption DEF Generations
    <2>3. Expected \in 0 .. MaxGenerations
      BY Parts DEF Expected, Agents, SessionsKept
    <2>4. req' \in Requests
      BY <2>1, <2>2, <2>3, SessionAssumption DEF Requests
    <2> QED
      BY <1>0, <1>2, <2>4, Parts DEF OpenSession
  <1>3. CASE /\ abandoned' = abandoned /\ claims' = claims
             /\ \/ req' = NoCall /\ agent' = [agent EXCEPT !.claim = FALSE]
                \/ req' = [Blank EXCEPT !.op = "config"] /\ agent' = agent
    BY <1>0, <1>3, BlankTyped, Parts DEF Agents, NoCall
  <1>4. CASE /\ req' = ReportOf(agent.session) /\ agent.session.seq < MaxReports
             /\ agent' = [agent EXCEPT !.session.seq = @ + 1]
             /\ abandoned' = abandoned /\ claims' = claims
    <2> DEFINE s == agent.session
    <2>1. s \in SessionsKept /\ s.seq + 1 \in 0 .. MaxReports
      BY <1>4, Parts, SessionAssumption DEF SessionsKept
    <2>2. req' \in Requests
      BY <1>4, <2>1, ReportIs, SessionAssumption DEF Requests, SessionsKept
    <2>3. agent' \in Agents
      <3>1. agent' = [agent EXCEPT !.session = [agent.session EXCEPT !.seq = agent.session.seq + 1]]
        BY <1>4
      <3>2. [agent.session EXCEPT !.seq = agent.session.seq + 1] \in SessionsKept
        BY <2>1 DEF SessionsKept
      <3> QED
        BY <3>1, <3>2, Parts DEF Agents
    <2> QED
      BY <1>0, <1>4, <2>2, <2>3
  <1>5. CASE Claim
    <2>1. /\ req' = [op |-> "claim", gen |-> agent.session.gen, expected |-> 0, proc |-> 0,
                     seq |-> 0, claim |-> claims + 1]
          /\ agent' = [agent EXCEPT !.claim = FALSE] /\ claims' = claims + 1
          /\ abandoned' = abandoned
      BY <1>5, ClaimIs DEF Claim, Start
    <2>2. claims + 1 \in 0 .. MaxClaims
      BY <1>0, <1>5, SessionAssumption DEF Claim
    <2>3. req' \in Requests
      BY <2>1, <2>2, Parts, SessionAssumption DEF Requests, SessionsKept
    <2>4. agent' \in Agents
      BY <2>1, Parts DEF Agents
    <2> QED
      BY <1>0, <2>1, <2>2, <2>3, <2>4
  <1>6. CASE Answer
    <2>1. CASE Succeed /\ abandoned' = abandoned
      BY <1>0, <1>6, <2>1, SucceedType DEF Answer
    <2>2. CASE Raise
      BY <1>0, <1>6, <2>2, RaiseType, BlankTyped DEF Answer
    <2> QED
      BY <1>6, <2>1, <2>2 DEF Answer
  <1>7. CASE Raise /\ Fail
    BY <1>0, <1>7, RaiseType, BlankTyped DEF Fail
  <1>8. CASE Crash
    BY <1>0, <1>8, CrashType, BlankTyped DEF Crash
  <1>9. claims' = claims \/ Claim
    BY DEF Next, Agent, vars, Connect, OpenSession, SendReport, NoJob, Answer, Fail, Unanswered, Crash, Abandon,
           LateDelivery, LeaseExpires, ProcessChanges, Rest
  <1> QED
    BY <1>1, <1>2, <1>3, <1>4, <1>5, <1>6, <1>7, <1>8, <1>9, RequestChanges DEF OpenSession, Answer, Fail

\* Every step keeps the types.
LEMMA NextTypeOK == TypeOK /\ ClaimsKnown /\ [Next]_vars => TypeOK'
  <1> SUFFICES ASSUME TypeOK, ClaimsKnown, [Next]_vars PROVE TypeOK'
    OBVIOUS
  <1>1. /\ api' \in Rows /\ req' \in Requests /\ agent' \in Agents
        /\ abandoned' \subseteq 1 .. MaxClaims /\ claims' \in 0 .. MaxClaims
    BY ApiType, AgentType
  <1>2. late' = late \/ late' = late \cup {req} \/ \E r \in late : late' = late \ {r}
    BY DEF Next, Agent, vars, Connect, OpenSession, SendReport, Claim, NoJob, Answer, Fail, Unanswered, Crash, Abandon,
           LateDelivery, LeaseExpires, ProcessChanges, Rest
  <1>3. late' \subseteq Requests
    BY <1>2, Parts
  <1>4. attempt' \in {attempt, 0} \/ (attempt' = attempt + 1 /\ attempt + 1 < Attempts)
    BY SucceedType, RaiseType, CrashType
       DEF Next, Agent, vars, Connect, OpenSession, SendReport, Claim, NoJob, Answer, Fail, Unanswered, Crash, Abandon,
           LateDelivery, LeaseExpires, ProcessChanges, Rest, Start
  <1>5. attempt' \in 0 .. Attempts - 1
    BY <1>4 DEF TypeOK, Attempts
  <1>6. live' = live \/ (live < MaxProcesses /\ live' = live + 1)
    BY DEF Next, Agent, vars, Connect, OpenSession, SendReport, Claim, NoJob, Answer, Fail, Unanswered, Crash, Abandon,
           LateDelivery, LeaseExpires, ProcessChanges, Rest
  <1>7. live' \in 1 .. MaxProcesses
    BY <1>6, SessionAssumption DEF TypeOK
  <1>8. faults' = faults \/ (faults > 0 /\ faults' = faults - 1)
    BY DEF Next, Agent, vars, Connect, OpenSession, SendReport, Claim, NoJob, Answer, Fail, Unanswered, Crash, Abandon,
           LateDelivery, LeaseExpires, ProcessChanges, Rest
  <1>9. faults' \in 0 .. MaxFaults
    BY <1>8, SessionAssumption DEF TypeOK
  <1>10. crashes' = crashes \/ (crashes > 0 /\ crashes' = crashes - 1)
    BY DEF Next, Agent, vars, Connect, OpenSession, SendReport, Claim, NoJob, Answer, Fail, Crash,
           LateDelivery, LeaseExpires, ProcessChanges, Rest
  <1>11. crashes' \in 0 .. MaxCrashes
    BY <1>10, SessionAssumption DEF TypeOK
  <1> QED
    BY <1>1, <1>3, <1>5, <1>7, <1>9, <1>11 DEF TypeOK, Rows, Agents, SessionsKept

-------------------------------------------------------------------------------
\* Only a new session names a generation that was not named before, with the
\* process of the moment.
LEMMA OpenSessionNames ==
    ASSUME TypeOK, OpenSession
    PROVE  /\ late' = late /\ api' = api /\ agent' = agent /\ live' = live
           /\ abandoned' = abandoned /\ req = NoCall
           /\ \E g \in Generations \ Mentioned :
                 req' = [op |-> "session", gen |-> g, expected |-> Expected, proc |-> live,
                         seq |-> 0, claim |-> 0]
  <1>1. PICK g \in Generations : Fresh(g) /\
          req' = [op |-> "session", gen |-> g, expected |-> Expected, proc |-> live,
                  seq |-> 0, claim |-> 0]
    BY SessionIs DEF OpenSession, Start
  <1> QED
    BY <1>1 DEF OpenSession, Fresh

\* What a step may put in the place of the request under way.
LEMMA NextRequest ==
    ASSUME TypeOK, [Next]_vars, ~OpenSession
    PROVE  /\ req'.op = "session" => req' = req
           /\ req'.op = "report" => req' = req \/ Binding(req') \in Bindings
  <1>1. CASE req' = req
    BY <1>1
  <1>2. CASE req' = Blank \/ req' = [Blank EXCEPT !.op = "config"]
    BY <1>2 DEF Blank
  <1>3. CASE req' = ReportOf(agent.session)
    <2>1. req'.op = "report" /\ req'.gen = agent.session.gen /\ req'.proc = agent.session.proc
      BY <1>3, ReportIs
    <2> QED
      BY <2>1 DEF Bindings, Binding
  <1>4. CASE Claim
    BY <1>4, ClaimIs DEF Claim, Start
  <1>5. CASE Answer
    <2>1. CASE Succeed
      <3>1. CASE req.op = "session"
        <4>1. req' = [op |-> "report", gen |-> req.gen, expected |-> 0,
                      proc |-> req.proc, seq |-> 1, claim |-> 0]
          BY <2>1, <3>1, SucceedCases
        <4>2. req'.op = "report" /\ Binding(req') = Binding(req) /\ req \in Sessions
          BY <3>1, <4>1 DEF Binding, Sessions, Pending
        <4> QED
          BY <4>2 DEF Bindings
      <3>2. CASE req.op = "claim"
        <4>1. req' = [req EXCEPT !.op = "complete"] /\ req \in Requests
          BY <2>1, <3>2, SucceedCases, Parts
        <4>2. req'.op = "complete"
          BY <4>1 DEF Requests
        <4> QED
          BY <4>2
      <3>3. CASE req.op \notin {"session", "claim"}
        BY <1>2, <2>1, <3>3, SucceedCases
      <3> QED
        BY <3>1, <3>2, <3>3
    <2> QED
      BY <1>2, <1>5, <2>1, RaiseType DEF Answer
  <1>6. CASE Raise \/ Crash
    BY <1>2, <1>6, RaiseType, CrashType
  <1> QED
    BY <1>1, <1>2, <1>3, <1>4, <1>5, <1>6, RequestChanges DEF NoCall

\* Nor does the agent believe in another generation than one it asked for.
LEMMA NextAgent ==
    ASSUME TypeOK, [Next]_vars
    PROVE  Binding(agent'.session) \in Bindings
  <1>0. agent \in Agents /\ agent.session \in SessionsKept
    BY Parts
  <1>1. CASE agent'.session = agent.session
    BY <1>1 DEF Bindings
  <1>2. CASE agent' = [agent EXCEPT !.session.seq = @ + 1]
    <2>1. agent'.session = [agent.session EXCEPT !.seq = agent.session.seq + 1]
      BY <1>0, <1>2 DEF Agents
    <2>2. agent'.session.gen = agent.session.gen /\ agent'.session.proc = agent.session.proc
      BY <1>0, <2>1 DEF SessionsKept
    <2> QED
      BY <2>2 DEF Bindings, Binding
  <1>3. CASE Answer
    <2>1. CASE Succeed
      <3>1. CASE req.op = "session"
        <4>1. PICK s \in SessionsKept : s.gen = req.gen /\ s.proc = req.proc
                                        /\ agent' = [agent EXCEPT !.session = s]
          BY <2>1, <3>1, SucceedCases
        <4>2. agent'.session = s /\ Binding(s) = Binding(req) /\ req \in Sessions
          BY <1>0, <3>1, <4>1 DEF Agents, Binding, Sessions, Pending
        <4> QED
          BY <4>2 DEF Bindings
      <3>2. CASE req.op # "session"
        <4>1. agent'.session = agent.session
          BY <1>0, <2>1, <3>2, SucceedCases DEF Agents
        <4> QED
          BY <1>1, <4>1
      <3> QED
        BY <3>1, <3>2
    <2> QED
      BY <1>1, <1>3, <2>1, RaiseType DEF Answer
  <1>4. CASE agent' = agent \/ agent' = [agent EXCEPT !.claim = FALSE] \/ Raise
    <2>1. agent'.session = agent.session
      BY <1>0, <1>4, RaiseType DEF Agents
    <2> QED
      BY <1>1, <2>1
  <1>5. CASE Crash
    BY <1>5, CrashType DEF Bindings
  <1>6. OpenSession => agent' = agent
    BY DEF OpenSession
  <1>7. Claim => agent' = [agent EXCEPT !.claim = FALSE]
    BY DEF Claim
  <1> QED
    BY <1>2, <1>3, <1>4, <1>5, <1>6, <1>7, RequestChanges

\* Nor does the API.
LEMMA NextApi ==
    ASSUME TypeOK, [Next]_vars
    PROVE  /\ Binding(api') \in Bindings
           /\ \/ api'.gen = api.gen /\ api'.proc = api.proc
              \/ \E r \in Sessions : /\ r.expected = api.gen
                                     /\ api'.gen = r.gen /\ api'.proc = r.proc /\ api'.view = 0
  <1>0. api \in Rows
    BY Parts
  <1>1. CASE api'.gen = api.gen /\ api'.proc = api.proc
    BY <1>1 DEF Bindings, Binding
  <1>2. ASSUME NEW r \in Pending, r.op = "session", r.expected = api.gen,
               api' = [api EXCEPT !.gen = r.gen, !.proc = r.proc, !.seq = 0, !.view = 0]
        PROVE  /\ Binding(api') \in Bindings
               /\ \E q \in Sessions : /\ q.expected = api.gen
                                     /\ api'.gen = q.gen /\ api'.proc = q.proc /\ api'.view = 0
    <2>1. api' = [gen |-> r.gen, proc |-> r.proc, seq |-> 0, view |-> 0,
                  lease |-> api.lease, done |-> api.done]
      BY <1>0, <1>2 DEF Rows
    <2>2. api'.gen = r.gen /\ api'.proc = r.proc /\ api'.view = 0 /\ r \in Sessions
      BY <1>2, <2>1 DEF Sessions
    <2>3. Binding(api') = Binding(r)
      BY <2>2 DEF Binding
    <2> QED
      BY <1>2, <2>2, <2>3 DEF Bindings
  <1>3. ASSUME NEW r \in Pending, Process(r)
        PROVE  \/ api'.gen = api.gen /\ api'.proc = api.proc
               \/ /\ r.op = "session" /\ r.expected = api.gen
                  /\ api' = [api EXCEPT !.gen = r.gen, !.proc = r.proc, !.seq = 0, !.view = 0]
    BY <1>0, <1>3, PendingTyped, Processed DEF Rows
  <1>4. LeaseExpires => api'.gen = api.gen /\ api'.proc = api.proc
    BY <1>0 DEF LeaseExpires, Rows
  <1> QED
    BY <1>1, <1>2, <1>3, <1>4, ApiChanges

\* So nothing new is named by any other step.
LEMMA NothingNew ==
    ASSUME TypeOK, [Next]_vars, ~OpenSession
    PROVE  Bindings' \subseteq Bindings /\ Sessions' \subseteq Sessions
  <1>1. late' \subseteq Pending
    BY DEF Next, Agent, vars, Connect, SendReport, Claim, NoJob, Answer, Fail, Unanswered, Crash, Abandon, Pending,
           LateDelivery, LeaseExpires, ProcessChanges, Rest
  <1>2. Sessions' \subseteq Sessions
    BY <1>1, NextRequest DEF Sessions, Pending
  <1>3. \A r \in Reports' : r \in Reports \/ Binding(r) \in Bindings
    BY <1>1, NextRequest DEF Reports, Pending
  <1>4. \A r \in Sessions' \cup Reports' : Binding(r) \in Bindings
    BY <1>2, <1>3 DEF Bindings
  <1>5. Bindings' = {Binding(api'), Binding(agent'.session), Binding(NoSession)}
                       \cup {Binding(r) : r \in Sessions' \cup Reports'}
    BY DEF Bindings, Binding
  <1>6. Binding(NoSession) \in Bindings
    BY DEF Bindings
  <1> QED
    BY <1>2, <1>4, <1>5, <1>6, NextApi, NextAgent

\* And a new session names one that nothing refers to.
LEMMA OneNew ==
    ASSUME TypeOK, OpenSession
    PROVE  \E g \in Generations :
             /\ Bindings' \subseteq Bindings \cup {[gen |-> g, proc |-> live]}
             /\ \A r \in Sessions' : r \in Sessions \/ (r.expected = Expected /\ r.proc = live)
             /\ \A b \in Bindings : b.gen # g
             /\ \A r \in Sessions : r.expected # g
             /\ Expected # g
  <1>1. PICK g \in Generations \ Mentioned :
          req' = [op |-> "session", gen |-> g, expected |-> Expected, proc |-> live,
                  seq |-> 0, claim |-> 0]
    BY OpenSessionNames
  <1>2. late' = late /\ api' = api /\ agent' = agent
    BY OpenSessionNames
  <1>3. \A r \in Sessions' : r \in Sessions \/ r = req'
    BY <1>2 DEF Sessions, Pending
  <1>4. \A r \in Reports' : r \in Reports
    BY <1>1, <1>2 DEF Reports, Pending
  <1>5. Binding(req') = [gen |-> g, proc |-> live] /\ req'.expected = Expected /\ req'.proc = live
    BY <1>1 DEF Binding
  <1>6. Bindings' = {Binding(api'), Binding(agent'.session), Binding(NoSession)}
                       \cup {Binding(r) : r \in Sessions' \cup Reports'}
    BY DEF Bindings, Binding
  <1>7. Bindings' \subseteq Bindings \cup {[gen |-> g, proc |-> live]}
    BY <1>2, <1>3, <1>4, <1>5, <1>6 DEF Bindings
  <1>8. \A r \in Pending : r.gen # g /\ r.expected # g
    BY <1>1 DEF Mentioned, Pending
  <1>9. api.gen # g /\ agent.session.gen # g /\ agent.remote # g
    BY <1>1 DEF Mentioned
  <1>10. \A b \in Bindings : b.gen # g
    <2>1. NoSession.gen # g
      BY SessionAssumption DEF NoSession, Generations
    <2> QED
      BY <1>8, <1>9, <2>1 DEF Bindings, Binding, Sessions, Reports
  <1>11. Expected # g
    BY <1>9 DEF Expected
  <1> QED
    BY <1>3, <1>5, <1>7, <1>8, <1>10, <1>11 DEF Sessions

\* A step never gives a generation a second process.
LEMMA NextOneProcess == TypeOK /\ OneProcess /\ [Next]_vars => OneProcess'
  <1> SUFFICES ASSUME TypeOK, OneProcess, [Next]_vars PROVE OneProcess'
    OBVIOUS
  <1>1. CASE OpenSession
    <2>1. PICK g \in Generations :
            /\ Bindings' \subseteq Bindings \cup {[gen |-> g, proc |-> live]}
            /\ \A b \in Bindings : b.gen # g
      BY <1>1, OneNew
    <2> QED
      BY <2>1 DEF OneProcess
  <1>2. CASE ~OpenSession
    BY <1>2, NothingNew DEF OneProcess
  <1> QED
    BY <1>1, <1>2

\* Processes only get newer.
LEMMA NextNoneAhead == TypeOK /\ NoneAhead /\ [Next]_vars => NoneAhead'
  <1> SUFFICES ASSUME TypeOK, NoneAhead, [Next]_vars PROVE NoneAhead'
    OBVIOUS
  <1>1. live' = live \/ live' = live + 1
    BY DEF Next, Agent, vars, Connect, OpenSession, SendReport, Claim, NoJob, Answer, Fail, Unanswered, Crash, Abandon,
           LateDelivery, LeaseExpires, ProcessChanges, Rest
  <1>2. live \in Nat /\ \A b \in Bindings : b.proc \in Nat
    <2>1. /\ api.proc \in Nat /\ agent.session.proc \in Nat /\ live \in Nat
          /\ NoSession.proc \in Nat
      BY Parts, SessionAssumption DEF Rows, SessionsKept, NoSession
    <2>2. \A r \in Pending : r.proc \in Nat
      BY PendingTyped, SessionAssumption DEF Requests
    <2> QED
      BY <2>1, <2>2 DEF Bindings, Binding, Sessions, Reports
  <1>3. CASE OpenSession
    <2>1. PICK g \in Generations : Bindings' \subseteq Bindings \cup {[gen |-> g, proc |-> live]}
      BY <1>3, OneNew
    <2>2. live' = live
      BY <1>3, OpenSessionNames
    <2> QED
      BY <1>2, <2>1, <2>2 DEF NoneAhead
  <1>4. CASE ~OpenSession
    <2>1. Bindings' \subseteq Bindings
      BY <1>4, NothingNew
    <2> QED
      BY <1>1, <1>2, <2>1 DEF NoneAhead
  <1> QED
    BY <1>3, <1>4

\* A new session is of the newest process of all, and nobody expects it yet.
LEMMA NextInOrder == TypeOK /\ NoneAhead /\ InOrder /\ [Next]_vars => InOrder'
  <1> SUFFICES ASSUME TypeOK, NoneAhead, InOrder, [Next]_vars PROVE InOrder'
    OBVIOUS
  <1>1. CASE OpenSession
    <2>1. PICK g \in Generations :
            /\ Bindings' \subseteq Bindings \cup {[gen |-> g, proc |-> live]}
            /\ \A r \in Sessions' : r \in Sessions \/ (r.expected = Expected /\ r.proc = live)
            /\ \A r \in Sessions : r.expected # g
            /\ Expected # g
      BY <1>1, OneNew
    <2> SUFFICES ASSUME NEW r \in Sessions', NEW b \in Bindings', b.gen = r.expected
                 PROVE  b.proc <= r.proc
      BY DEF InOrder
    <2>2. b \in Bindings
      BY <2>1
    <2> QED
      BY <2>1, <2>2 DEF InOrder, NoneAhead
  <1>2. CASE ~OpenSession
    BY <1>2, NothingNew DEF InOrder
  <1> QED
    BY <1>1, <1>2

\* What is published is of the session registered: a report for the generation
\* of the row names the process of the row.
LEMMA NextPublished ==
    TypeOK /\ OneProcess /\ PublishedIsRegistered /\ [Next]_vars => PublishedIsRegistered'
  <1> SUFFICES ASSUME TypeOK, OneProcess, PublishedIsRegistered, [Next]_vars
               PROVE  PublishedIsRegistered'
    OBVIOUS
  <1>0. api \in Rows
    BY Parts
  <1>1. CASE api'.view = 0
    BY <1>1 DEF PublishedIsRegistered
  <1>2. CASE api'.view = api.view /\ api'.proc = api.proc
    BY <1>2 DEF PublishedIsRegistered
  <1>3. ASSUME NEW r \in Pending, r.op = "report", r.gen = api.gen,
               api' = [api EXCEPT !.seq = r.seq, !.view = r.proc]
        PROVE  PublishedIsRegistered'
    <2>1. api' = [gen |-> api.gen, proc |-> api.proc, seq |-> r.seq, view |-> r.proc,
                  lease |-> api.lease, done |-> api.done]
      BY <1>0, <1>3 DEF Rows
    <2>2. api'.view = r.proc /\ api'.proc = api.proc
      BY <2>1
    <2>3. Binding(r) \in Bindings /\ Binding(api) \in Bindings
      BY <1>3 DEF Bindings, Reports
    <2>4. Binding(r).gen = Binding(api).gen
      BY <1>3 DEF Binding
    <2>5. Binding(r).proc = Binding(api).proc
      BY <2>3, <2>4 DEF OneProcess
    <2>6. r.proc = api.proc
      BY <2>5 DEF Binding
    <2> QED
      BY <2>2, <2>6 DEF PublishedIsRegistered
  <1>4. ASSUME NEW r \in Pending, Process(r)
        PROVE  \/ api'.view = 0
               \/ api'.view = api.view /\ api'.proc = api.proc
               \/ /\ r.op = "report" /\ r.gen = api.gen
                  /\ api' = [api EXCEPT !.seq = r.seq, !.view = r.proc]
    <2>1. CASE api' = [api EXCEPT !.gen = r.gen, !.proc = r.proc, !.seq = 0, !.view = 0]
      BY <1>0, <2>1 DEF Rows
    <2>2. CASE \/ api' = api
               \/ api' = [api EXCEPT !.lease = r.claim]
               \/ api' = [api EXCEPT !.lease = 0, !.done = @ \cup {r.claim}]
      BY <1>0, <2>2 DEF Rows
    <2> QED
      BY <1>4, <2>1, <2>2, PendingTyped, Processed
  <1>5. LeaseExpires => api'.view = api.view /\ api'.proc = api.proc
    BY <1>0 DEF LeaseExpires, Rows
  <1> QED
    BY <1>1, <1>2, <1>3, <1>4, <1>5, ApiChanges

-------------------------------------------------------------------------------
\* A completion answered closes its lease.
LEMMA CompleteCloses ==
    ASSUME TypeOK, Process(req), Accepts(req), req.op = "complete", req.claim # 0
    PROVE  req.claim \in api'.done /\ api'.lease # req.claim
  <1>0. api \in Rows
    BY Parts
  <1>1. CASE req.claim = api.lease
    <2>1. api' = [api EXCEPT !.lease = 0, !.done = @ \cup {req.claim}]
      BY <1>1 DEF Process, After
    <2>2. api'.lease = 0 /\ req.claim \in api'.done
      BY <1>0, <2>1 DEF Rows
    <2> QED
      BY <2>2
  <1>2. CASE req.claim # api.lease
    BY <1>2 DEF Process, Accepts, After
  <1> QED
    BY <1>1, <1>2

\* The agent lets go of a claim only when it was answered or ended in an error.
LEMMA ClaimKept ==
    ASSUME TypeOK, ClaimsKnown, [Next]_vars
    PROVE  /\ req'.claim # 0 <=> req'.op \in {"claim", "complete"}
           /\ \/ req.claim \in {0, req'.claim} \cup abandoned'
              \/ req.claim \in api'.done /\ api'.lease # req.claim
  <1>1. CASE req' = req
    BY <1>1 DEF ClaimsKnown
  <1>2. CASE req' = Blank /\ req.claim \in {0} \cup abandoned'
    BY <1>2 DEF Blank
  <1>3. CASE req = NoCall /\ (req' = Blank \/ req' = [Blank EXCEPT !.op = "config"])
    BY <1>3 DEF Blank, NoCall
  <1>4. CASE req = NoCall /\ req' = ReportOf(agent.session)
    BY <1>4, ReportIs DEF Blank, NoCall
  <1>5. CASE OpenSession
    <2>1. req'.claim = 0 /\ req'.op = "session"
      BY <1>5, OpenSessionNames
    <2>2. req.claim = 0
      BY <1>5, OpenSessionNames DEF NoCall, Blank
    <2> QED
      BY <2>1, <2>2
  <1>6. CASE Claim
    <2>1. req'.claim = claims + 1 /\ req'.op = "claim" /\ req = NoCall
      BY <1>6, ClaimIs DEF Claim, Start
    <2>2. claims + 1 # 0 /\ req.claim = 0
      BY <2>1, SessionAssumption DEF TypeOK, NoCall, Blank
    <2> QED
      BY <2>1, <2>2
  <1>7. CASE Answer
    <2>1. CASE ~Accepts(req)
      BY <1>2, <1>7, <2>1, RaiseType DEF Answer
    <2>2. CASE Accepts(req)
      <3>1. Succeed /\ Process(req) /\ req \in Requests
        BY <1>7, <2>2, Parts DEF Answer
      <3>2. CASE req.op = "claim"
        <4>1. req' = [req EXCEPT !.op = "complete"]
          BY <3>1, <3>2, SucceedCases
        <4>2. req'.claim = req.claim /\ req'.op = "complete"
          BY <3>1, <4>1 DEF Requests
        <4> QED
          BY <3>2, <4>2 DEF ClaimsKnown
      <3>3. CASE req.op = "complete"
        <4>1. req' = Blank /\ req.claim # 0
          BY <3>1, <3>3, SucceedCases DEF ClaimsKnown
        <4>2. req'.claim = 0 /\ req'.op = "none"
          BY <4>1 DEF Blank
        <4> QED
          BY <2>2, <3>1, <3>3, <4>1, <4>2, CompleteCloses
      <3>4. CASE req.op = "session"
        <4>1. req'.claim = 0 /\ req'.op = "report"
          BY <3>1, <3>4, SucceedCases
        <4> QED
          BY <3>4, <4>1 DEF ClaimsKnown
      <3>5. CASE req.op \in {"none", "config", "report"}
        <4>1. req' = Blank /\ req.claim = 0
          BY <3>1, <3>5, SucceedCases DEF ClaimsKnown
        <4> QED
          BY <1>2, <4>1
      <3> QED
        BY <3>1, <3>2, <3>3, <3>4, <3>5 DEF Requests
    <2> QED
      BY <2>1, <2>2
  <1>8. CASE Raise \/ Crash
    BY <1>2, <1>8, RaiseType, CrashType
  <1> QED
    BY <1>1, <1>3, <1>4, <1>5, <1>6, <1>7, <1>8, RequestChanges DEF NoCall

\* What is over stays over.
LEMMA OverStaysOver ==
    ASSUME TypeOK, [Next]_vars
    PROVE  abandoned \subseteq abandoned' /\ api.done \subseteq api'.done
  <1>0. api \in Rows
    BY Parts
  <1>1. abandoned \subseteq abandoned'
    BY RaiseType, CrashType DEF Next, Agent, vars, Connect, OpenSession, SendReport, Claim, NoJob, Answer,
           Fail, LateDelivery, LeaseExpires, ProcessChanges, Rest
  <1>2. ASSUME NEW r \in Pending, Process(r) PROVE api.done \subseteq api'.done
    <2>1. CASE api' = [api EXCEPT !.gen = r.gen, !.proc = r.proc, !.seq = 0, !.view = 0]
      BY <1>0, <2>1 DEF Rows
    <2>2. CASE api' = [api EXCEPT !.seq = r.seq, !.view = r.proc]
      BY <1>0, <2>2 DEF Rows
    <2>3. CASE api' = api \/ api' = [api EXCEPT !.lease = r.claim]
      BY <1>0, <2>3 DEF Rows
    <2>4. CASE api' = [api EXCEPT !.lease = 0, !.done = @ \cup {r.claim}]
      BY <1>0, <2>4 DEF Rows
    <2> QED
      BY <1>2, <2>1, <2>2, <2>3, <2>4, PendingTyped, Processed
  <1>3. LeaseExpires => api.done \subseteq api'.done
    BY <1>0 DEF LeaseExpires, Rows
  <1> QED
    BY <1>1, <1>2, <1>3, ApiChanges

\* The claims that may still be applied stay known.
LEMMA NextClaimsKnown == TypeOK /\ ClaimsKnown /\ [Next]_vars => ClaimsKnown'
  <1> SUFFICES ASSUME TypeOK, ClaimsKnown, [Next]_vars PROVE ClaimsKnown'
    OBVIOUS
  <1>1. \A r \in Pending' : r \in Pending \/ r = req'
    BY DEF Next, Agent, vars, Connect, OpenSession, SendReport, Claim, NoJob, Answer, Fail, Unanswered, Crash, Abandon, Pending,
           LateDelivery, LeaseExpires, ProcessChanges, Rest
  <1>2. req'.claim # 0 <=> req'.op \in {"claim", "complete"}
    BY ClaimKept
  <1>3. ASSUME NEW r \in Pending', r.op \in {"claim", "complete"} PROVE r.claim # 0
    BY <1>1, <1>2, <1>3 DEF ClaimsKnown
  <1>4. ASSUME NEW r \in Pending', r.op = "claim"
        PROVE  r.claim = req'.claim \/ r.claim \in abandoned' \/ r.claim \in api'.done
    BY <1>1, <1>3, <1>4, ClaimKept, OverStaysOver DEF ClaimsKnown
  <1> QED
    BY <1>2, <1>3, <1>4 DEF ClaimsKnown

\* A lease is granted to a claim the agent waits for, or one that it gave
\* up: a finished one is refused.
LEMMA NextLeaseIsHeld ==
    TypeOK /\ ClaimsKnown /\ LeaseIsHeld /\ [Next]_vars => LeaseIsHeld'
  <1> SUFFICES ASSUME TypeOK, ClaimsKnown, LeaseIsHeld, [Next]_vars PROVE LeaseIsHeld'
    OBVIOUS
  <1>0. api \in Rows
    BY Parts
  <1>1. api'.lease \in {0, req.claim} \cup abandoned
    <2>1. CASE api'.lease = api.lease
      BY <2>1 DEF LeaseIsHeld
    <2>2. ASSUME NEW r \in Pending, Process(r)
          PROVE  \/ api'.lease = api.lease
                 \/ api'.lease = 0
                 \/ r.op = "claim" /\ r.claim \notin api.done /\ api'.lease = r.claim
      <3>1. CASE api' = [api EXCEPT !.gen = r.gen, !.proc = r.proc, !.seq = 0, !.view = 0]
        BY <1>0, <3>1 DEF Rows
      <3>2. CASE api' = [api EXCEPT !.seq = r.seq, !.view = r.proc]
        BY <1>0, <3>2 DEF Rows
      <3>3. CASE /\ r.op = "claim" /\ r.claim \notin api.done
                 /\ api' = [api EXCEPT !.lease = r.claim]
        BY <1>0, <3>3 DEF Rows
      <3>4. CASE api' = [api EXCEPT !.lease = 0, !.done = @ \cup {r.claim}]
        BY <1>0, <3>4 DEF Rows
      <3> QED
        BY <2>2, <3>1, <3>2, <3>3, <3>4, PendingTyped, Processed
    <2>3. LeaseExpires => api'.lease = 0
      BY <1>0 DEF LeaseExpires, Rows
    <2> QED
      BY <2>1, <2>2, <2>3, ApiChanges DEF ClaimsKnown
  <1> QED
    BY <1>1, ClaimKept, OverStaysOver DEF LeaseIsHeld

-------------------------------------------------------------------------------
\* The invariant is an invariant.
LEMMA Invariance == Spec => []IInv
  <1>1. Init => IInv
    <2> SUFFICES ASSUME Init PROVE IInv
      OBVIOUS
    <2>1. api = [gen |-> 0, proc |-> 0, seq |-> 0, view |-> 0, lease |-> 0, done |-> {}]
      BY DEF Init
    <2>2. /\ agent.session = NoSession /\ req = Blank /\ late = {} /\ live = 1
      BY DEF Init, NewAgent, NoCall
    <2>3. TypeOK
      <3>1. api \in Rows
        BY <2>1, SessionAssumption DEF Rows
      <3>2. agent \in Agents
        BY SessionAssumption DEF Init, NewAgent, NoSession, Agents, SessionsKept
      <3>3. req \in Requests /\ late \subseteq Requests
        BY <2>2, BlankTyped
      <3> QED
        BY <3>1, <3>2, <3>3, SessionAssumption
           DEF Init, TypeOK, Attempts, Rows, Agents, SessionsKept
    <2>4. Sessions = {} /\ Reports = {}
      BY <2>2 DEF Sessions, Reports, Pending, Blank
    <2>5. \A b \in Bindings : b.gen = 0 /\ b.proc = 0
      BY <2>1, <2>2, <2>4 DEF Bindings, Binding, NoSession
    <2>6. OneProcess /\ NoneAhead /\ InOrder
      BY <2>2, <2>4, <2>5 DEF OneProcess, NoneAhead, InOrder
    <2>7. ClaimsKnown
      BY <2>2 DEF ClaimsKnown, Pending, Blank
    <2>8. PublishedIsRegistered /\ LeaseIsHeld
      BY <2>1 DEF PublishedIsRegistered, LeaseIsHeld
    <2> QED
      BY <2>3, <2>6, <2>7, <2>8 DEF IInv
  <1>2. IInv /\ [Next]_vars => IInv'
    BY NextTypeOK, NextOneProcess, NextNoneAhead, NextInOrder, NextClaimsKnown,
       NextPublished, NextLeaseIsHeld DEF IInv
  <1> QED
    BY <1>1, <1>2, PTL DEF Spec

\* The variables of NodeSession keep their types.
THEOREM TypeCorrect == Spec => []TypeOK
  BY Invariance, PTL DEF IInv

\* Whatever attempt of whatever session arrives in whatever order, and however
\* many are lost: what is published is the process that is registered
\* (node_agent.py, report_slot and NodeClient.call).
THEOREM PublishedRegistered == Spec => []PublishedIsRegistered
  BY Invariance, PTL DEF IInv

\* However many attempts fail, a lease nobody works on is one whose claim ended
\* in an error for the agent, or with it: the retry with the same identifier finds its lease,
\* and no late attempt opens a finished claim again (worker.py:170).
THEOREM LeaseHeld == Spec => []LeaseIsHeld
  BY Invariance, PTL DEF IInv

\* Nor does the registered process ever become an older one: a late session is
\* refused unless the session it expects, of no later process, is still the
\* API's (node_agent.py:173-180).
THEOREM NeverOlder == Spec => NoOldNews
  <1>1. ASSUME IInv, [Next]_vars PROVE api'.proc >= api.proc
    <2>1. TypeOK /\ InOrder /\ api \in Rows
      BY <1>1, Parts DEF IInv
    <2>2. CASE api'.proc = api.proc
      BY <2>1, <2>2, SessionAssumption DEF Rows
    <2>3. ASSUME NEW r \in Sessions, r.expected = api.gen, api'.proc = r.proc
          PROVE  api'.proc >= api.proc
      <3>1. Binding(api) \in Bindings /\ Binding(api).gen = r.expected
        BY <2>3 DEF Bindings, Binding
      <3>2. Binding(api).proc <= r.proc
        BY <2>1, <3>1 DEF InOrder
      <3>3. api.proc <= r.proc
        BY <3>2 DEF Binding
      <3>4. api.proc \in Nat /\ r.proc \in Nat
        BY <2>1, PendingTyped, SessionAssumption DEF Rows, Requests, Sessions
      <3> QED
        BY <2>3, <3>3, <3>4
    <2> QED
      BY <1>1, <2>1, <2>2, <2>3, NextApi
  <1>2. IInv /\ [Next]_vars => [api'.proc >= api.proc]_vars
    BY <1>1
  <1> QED
    BY <1>2, Invariance, PTL DEF Spec, NoOldNews

===============================================================================
