----------------------------- MODULE ReviewDesk -----------------------------
(***************************************************************************)
(* The supervisor's desk: decisions one by one and in batches              *)
(* (review/service.py, review/batch.py), the pre-review that reports on    *)
(* each synced order (prereview/service.py, workers/pre_review.py), the    *)
(* blind sample that withholds some of those reports until the supervisor  *)
(* decided (review/blind.py), and the events an approval leaves for the    *)
(* other systems (the enqueue functions of integrations/).                 *)
(*                                                                         *)
(* A decision is three steps of one database session.  Begin reads the     *)
(* order, its report and its response.  Judge moves the order to in_review *)
(* and reads whether a draw is pending; from there to the commit it holds  *)
(* the unit's audit lock, which every other decision needs.  Commit writes *)
(* over whatever is stored by then.  The worker takes no such lock.        *)
(***************************************************************************)
EXTENDS Naturals, Sequences, FiniteSets, OrderLifecycle

CONSTANTS
  Orders,         \* work orders
  Sessions,       \* requests of supervisors that may be open at once
  Workers,        \* pre-review passes that may run at once
  External,       \* orders the corporate platform sent
  Claims,         \* those of them that came from the call centre
  Refs, RefOf,    \* the number the sender gave: unique in a business unit
  Interruptions,  \* orders whose form records an interruption
  Consumers,      \* orders whose answers list materials installed
  BatchSize,      \* orders a pass takes
  MaxCaptures,    \* bound: times an order is captured
  MaxDecisions,   \* bound: decisions taken on each order
  MaxKills        \* bound: passes that die

ASSUME ClaimsAreExternal == Claims \subseteq External
ASSUME RefsGiven == RefOf \in [Orders -> Refs]
ASSUME BatchIsPositive == BatchSize \in Nat \ {0}

VARIABLES
  order,      \* state of each work_order row
  response,   \* form_response row of each order, and which capture it holds
  runs,       \* agent_run rows of each order, oldest first, with their report
  draw,       \* blind_review row of each order
  decisions,  \* review_decision rows of each order, in the order they commit
  ledger,     \* integration_event rows, by their idempotency key
  txn,        \* the supervisors' open sessions
  pass,       \* orders each pre-review pass has still to run
  seen,       \* orders whose report a supervisor had on the screen
  kills

vars == <<order, response, runs, draw, decisions, ledger, txn, pass, seen, kills>>

-----------------------------------------------------------------------------
(* Rows *)

Decision == {"approved", "returned", "cancelled"}
Risk     == {"low", "high"}
Verdict  == {"sin_problema", "con_problema"}
NoRisk   == "none"
Unpaired == "none"

\* RunState: a run is stored once it has ended.  "terminado" stands for
\* "parcial" too, a report that says which node did not run.
RunRow == [state: {"terminado", "fallido"}, risk: Risk \cup {NoRisk}, capture: Nat]

DrawRow == [state: {"undrawn", "pending", "revealed"},
            supervisor: Verdict \cup {Unpaired}, agent: Verdict \cup {Unpaired}]

Undrawn == [state |-> "undrawn", supervisor |-> Unpaired, agent |-> Unpaired]

DecisionRow == [decision: Decision, capture: Nat, blind: BOOLEAN, batch: BOOLEAN]

Kind == {"estado", "resultado", "cierre", "materiales", "interrupcion"}

\* The idempotency key of an order's event of a kind.  It names no unit.
Key(o, k) == IF k \in {"materiales", "interrupcion"} THEN <<o, k>> ELSE <<RefOf[o], k>>

Keys == (Orders \cup Refs) \X Kind

\* An event, and the capture its payload was written from.
EventRow == [state: {"absent", "pending", "delivered"},
             of: {<<>>} \cup {<<o>> : o \in Orders}, capture: Nat]

NoEvent == [state |-> "absent", of |-> <<>>, capture |-> 0]

Response == [state: ResponseState, capture: Nat]

\* What an open session read of the orders it decides on.
Txn == [stage: {"idle", "read", "judged"}, decision: Decision, batch: BOOLEAN,
        on: SUBSET Orders, read: [Orders -> Response],
        risk: [Orders -> Risk \cup {NoRisk}], blind: SUBSET Orders,
        delivered: SUBSET Keys]

Reviewable == {"synced", "in_review"}

Idle ==
  [stage |-> "idle", decision |-> "returned", batch |-> FALSE, on |-> {},
   read |-> [o \in Orders |-> [state |-> "none", capture |-> 0]],
   risk |-> [o \in Orders |-> NoRisk], blind |-> {}, delivered |-> {}]

\* `latest_report`: the risk of the latest run, none when it has no report.
LatestRisk(o) == IF runs[o] = <<>> THEN NoRisk ELSE runs[o][Len(runs[o])].risk

\* `verdict_of_decision` and `verdict_of_risk`
verdict_of_decision(d) == IF d = "approved" THEN "sin_problema" ELSE "con_problema"
verdict_of_risk(r) ==
  CASE r = NoRisk -> Unpaired
    [] r = "low"  -> "sin_problema"
    [] OTHER      -> "con_problema"

-----------------------------------------------------------------------------
Init ==
  /\ order = [o \in Orders |-> "closed_field"]
  /\ response = [o \in Orders |-> [state |-> "none", capture |-> 0]]
  /\ runs = [o \in Orders |-> <<>>]
  /\ draw = [o \in Orders |-> Undrawn]
  /\ decisions = [o \in Orders |-> <<>>]
  /\ ledger = [key \in Keys |-> NoEvent]
  /\ txn = [s \in Sessions |-> Idle]
  /\ pass = [w \in Workers |-> {}]
  /\ seen = {}
  /\ kills = 0

-----------------------------------------------------------------------------
(* The crew and the pre-review *)

\* What the phone's pushes (module WorkOrders) come to here: the order is
\* brought to the supervisor, with a form submitted anew or without.  Its
\* transitions need the unit's audit lock too.
FieldWork(o) ==
  /\ order[o] \in {"closed_field", "returned"}
  /\ \A s \in Sessions : txn[s].stage # "judged"
  /\ order' = [order EXCEPT ![o] = "synced"]
  /\ \/ /\ response[o].capture < MaxCaptures
        /\ response' = [response EXCEPT ![o] =
             [state |-> "enviada", capture |-> @.capture + 1]]
     \/ UNCHANGED response
  /\ UNCHANGED <<runs, draw, decisions, ledger, txn, pass, seen, kills>>

\* Mutant: only orders whose review has begun are picked up.
OnlyInReview == {o \in Orders : order[o] = "in_review" /\ runs[o] = <<>>}

\* `orders_without_a_terminal_run`
Waiting == {o \in Orders : order[o] \in Reviewable /\ runs[o] = <<>>}

PassBegin(w) ==
  /\ pass[w] = {}
  /\ Waiting # {}
  /\ \E todo \in SUBSET Waiting :
       /\ Cardinality(todo) =
            IF Cardinality(Waiting) < BatchSize THEN Cardinality(Waiting) ELSE BatchSize
       /\ pass' = [pass EXCEPT ![w] = todo]
  /\ UNCHANGED <<order, response, runs, draw, decisions, ledger, txn, seen, kills>>

\* `assign`: idempotent for an order that was drawn; another may be.
Assigned(row) ==
  IF row.state # "undrawn" THEN {row}
  ELSE {row, [Undrawn EXCEPT !.state = "pending"]}

\* What `execute` stores of a run: a report with its risk, or the failure.
Outcome(o) ==
  {[state |-> "terminado", risk |-> r, capture |-> response[o].capture] : r \in Risk}
  \cup {[state |-> "fallido", risk |-> NoRisk, capture |-> response[o].capture]}

\* `execute` and the pass's commit: a report brings the draw with it, a
\* failed run does not.  The list was read once, when the pass began.
Execute(w, o) ==
  /\ o \in pass[w]
  /\ \E run \in Outcome(o) :
       /\ runs' = [runs EXCEPT ![o] = Append(@, run)]
       /\ IF run.state = "fallido" THEN UNCHANGED draw
          ELSE \E row \in Assigned(draw[o]) : draw' = [draw EXCEPT ![o] = row]
  /\ pass' = [pass EXCEPT ![w] = @ \ {o}]
  /\ UNCHANGED <<order, response, decisions, ledger, txn, seen, kills>>

\* A worker that dies keeps what it committed.
PassKilled(w) ==
  /\ pass[w] # {}
  /\ kills < MaxKills
  /\ kills' = kills + 1
  /\ pass' = [pass EXCEPT ![w] = {}]
  /\ UNCHANGED <<order, response, runs, draw, decisions, ledger, txn, seen>>

-----------------------------------------------------------------------------
(* The screen *)

\* Mutant: the screen does not ask whether the report is withheld.
AnyReport(o) == LatestRisk(o) # NoRisk

\* `_agent_report`: there is a report and no draw is withholding it.
Shows(o) == LatestRisk(o) # NoRisk /\ draw[o].state # "pending"

OpenDetail(o) ==
  /\ order[o] \in Reviewable
  /\ o \notin seen
  /\ Shows(o)
  /\ seen' = seen \cup {o}
  /\ UNCHANGED <<order, response, runs, draw, decisions, ledger, txn, pass, kills>>

-----------------------------------------------------------------------------
(* Decisions *)

\* `approval_blockers`, as far as it depends on the response row.
Blocked(row) == row.state \in {"none", "borrador"}

\* `submit_decision` reads the order, the latest report, then the response.
DecideBegin(s, o, d) ==
  /\ txn[s] = Idle
  /\ order[o] \in Reviewable
  /\ Len(decisions[o]) < MaxDecisions[o]
  /\ d = "approved" => ~Blocked(response[o])
  /\ txn' = [txn EXCEPT ![s] =
       [Idle EXCEPT !.stage = "read", !.decision = d, !.on = {o},
                    !.read[o] = response[o], !.risk[o] = LatestRisk(o)]]
  /\ UNCHANGED <<order, response, runs, draw, decisions, ledger, pass, seen, kills>>

\* `sample_size` of n: five per cent rounded up, and never none.
sample_size(n) == IF n = 0 THEN 0 ELSE (n + 19) \div 20

\* `approve_batch`: of the orders named, those whose latest report said low,
\* less the sample that is held back, less what `decide` refuses.
BatchBegin(s) ==
  /\ txn[s] = Idle
  /\ \E named \in SUBSET Orders :
       LET candidates == {o \in named : LatestRisk(o) = "low"} IN
       \E held \in SUBSET candidates :
         LET on == {o \in candidates \ held :
                      order[o] \in Reviewable /\ ~Blocked(response[o])
                      /\ Len(decisions[o]) < MaxDecisions[o]}
         IN /\ Cardinality(held) = sample_size(Cardinality(candidates))
            /\ on # {}
            /\ txn' = [txn EXCEPT ![s] =
                 [Idle EXCEPT !.stage = "read", !.decision = "approved",
                              !.batch = TRUE, !.on = on,
                              !.read = [o \in Orders |->
                                 IF o \in on THEN response[o] ELSE Idle.read[o]]]]
  /\ UNCHANGED <<order, response, runs, draw, decisions, ledger, pass, seen, kills>>

\* The unit's audit lock is taken by the transition to in_review.
LockFree(s) == \A r \in Sessions \ {s} : txn[r].stage # "judged"

\* The draw is read after that transition and before it is closed, and
\* `publish` looks each event up before it writes it.
Judge(s) ==
  /\ txn[s].stage = "read"
  /\ LockFree(s)
  /\ txn' = [txn EXCEPT ![s] =
       [@ EXCEPT !.stage = "judged",
                 !.blind = {o \in txn[s].on : draw[o].state = "pending"},
                 !.delivered = {key \in Keys : ledger[key].state = "delivered"}]]
  /\ UNCHANGED <<order, response, runs, draw, decisions, ledger, pass, seen, kills>>

Decided(row, d) ==
  CASE row.state = "none" -> row
    [] d = "approved"     -> [row EXCEPT !.state = "aprobada"]
    [] d = "returned"     -> [row EXCEPT !.state = "devuelta"]
    [] d = "cancelled"    -> row

\* `enqueue_status_push` and `enqueue_result_push`: only what another system
\* sent is reported back to it.
StatusOwed(o) == o \in External
ResultOwed(o) == o \in External

\* Mutant: the closure of the claim is left for later.
NoClosureYet(o) == FALSE

\* `enqueue_claim_closure`: the order is the call centre's.
ClosureOwed(o) == o \in Claims

\* `enqueue_material_movements`: the answers list some material.
MaterialsOwed(o) == o \in Consumers

\* `enqueue_interruption_report`: the form is the interruption register's.
InterruptionOwed(o) == o \in Interruptions

\* What an approval of this order tells the other systems.
Owed(o) == {k \in Kind :
  \/ k = "estado" /\ StatusOwed(o)
  \/ k = "resultado" /\ ResultOwed(o)
  \/ k = "cierre" /\ ClosureOwed(o)
  \/ k = "materiales" /\ MaterialsOwed(o)
  \/ k = "interrupcion" /\ InterruptionOwed(o)}

\* `publish`: an event that was delivered when it was looked up stays; one on
\* record takes the new payload, and no status but the one it was read with.
Published(event, payload, delivered) ==
  CASE delivered                -> event
    [] event.state = "absent"   -> payload
    [] OTHER                    -> [payload EXCEPT !.state = event.state]

\* What an approval publishes under a key, if anything.
Told(t, key) ==
  {[state |-> "pending", of |-> <<o>>, capture |-> t.read[o].capture] :
     o \in {p \in t.on : t.decision = "approved"
                       /\ \E k \in Owed(p) : Key(p, k) = key}}

\* `reveal`: the draw that is pending by now is closed with both verdicts.
Revealed(row, d, risk) ==
  IF row.state # "pending" THEN row
  ELSE [state |-> "revealed", supervisor |-> verdict_of_decision(d),
        agent |-> verdict_of_risk(risk)]

\* Mutant: whoever decided first keeps the order.
FirstWins(stored, d) == IF stored \in Decision THEN stored ELSE d

\* The state is written over whatever another session left there.
Moved(stored, d) == d

\* The rest of `decide` and the request's commit.
Commit(s) ==
  LET t == txn[s] IN
  /\ t.stage = "judged"
  /\ order' = [o \in Orders |-> IF o \in t.on THEN Moved(order[o], t.decision) ELSE order[o]]
  /\ response' = [o \in Orders |->
       IF o \in t.on /\ Decided(t.read[o], t.decision).state # t.read[o].state
         THEN [response[o] EXCEPT !.state = Decided(t.read[o], t.decision).state]
         ELSE response[o]]
  /\ decisions' = [o \in Orders |->
       IF o \in t.on
         THEN Append(decisions[o],
                [decision |-> t.decision, capture |-> t.read[o].capture,
                 blind |-> o \in t.blind, batch |-> t.batch])
         ELSE decisions[o]]
  /\ ledger' = [key \in Keys |->
       IF Told(t, key) = {} THEN ledger[key]
       ELSE Published(ledger[key], CHOOSE payload \in Told(t, key) : TRUE,
                      key \in t.delivered)]
  /\ draw' = [o \in Orders |->
       IF o \in t.on THEN Revealed(draw[o], t.decision, t.risk[o]) ELSE draw[o]]
  /\ txn' = [txn EXCEPT ![s] = Idle]
  /\ UNCHANGED <<runs, pass, seen, kills>>

Rollback(s) ==
  /\ txn[s] # Idle
  /\ txn' = [txn EXCEPT ![s] = Idle]
  /\ UNCHANGED <<order, response, runs, draw, decisions, ledger, pass, seen, kills>>

\* A pass of the integration worker (module IntegrationOutbox) delivers what
\* is pending.
Deliver ==
  /\ \E key \in Keys : ledger[key].state = "pending"
  /\ ledger' = [key \in Keys |->
       IF ledger[key].state = "pending"
         THEN [ledger[key] EXCEPT !.state = "delivered"] ELSE ledger[key]]
  /\ UNCHANGED <<order, response, runs, draw, decisions, txn, pass, seen, kills>>

Next ==
  \/ \E o \in Orders : FieldWork(o) \/ OpenDetail(o)
  \/ Deliver
  \/ \E w \in Workers : PassBegin(w) \/ PassKilled(w)
  \/ \E w \in Workers, o \in Orders : Execute(w, o)
  \/ \E s \in Sessions : BatchBegin(s) \/ Judge(s) \/ Commit(s) \/ Rollback(s)
  \/ \E s \in Sessions, o \in Orders, d \in Decision : DecideBegin(s, o, d)

Spec == Init /\ [][Next]_vars

\* Celery's beat starts a pass every five minutes, and a pass gets on.
Fairness ==
  \A w \in Workers :
    WF_vars(PassBegin(w)) /\ \A o \in Orders : WF_vars(Execute(w, o))

FairSpec == Spec /\ Fairness

-----------------------------------------------------------------------------
(* Properties *)

TypeOK ==
  /\ order \in [Orders -> WorkOrderState]
  /\ response \in [Orders -> Response]
  /\ runs \in [Orders -> Seq(RunRow)]
  /\ draw \in [Orders -> DrawRow]
  /\ decisions \in [Orders -> Seq(DecisionRow)]
  /\ ledger \in [Keys -> EventRow]
  /\ txn \in [Sessions -> Txn]
  /\ pass \in [Workers -> SUBSET Orders]
  /\ seen \subseteq Orders
  /\ kills \in Nat

Approvals(o) == {i \in DOMAIN decisions[o] : decisions[o][i].decision = "approved"}

\* RF-120, RF-122 to RF-124: whoever decides at the same time, an approval on
\* record has left every event it owes in the ledger, and no system is told
\* anything but the content of a capture that some approval on record signed.
ApprovalTold ==
  \A o \in Orders :
    LET told == {k \in Kind : ledger[Key(o, k)].of = <<o>>} IN
    /\ Approvals(o) # {} =>
         /\ o \in External => {"estado", "resultado"} \subseteq told
         /\ o \in Claims => "cierre" \in told
         /\ o \in Consumers => "materiales" \in told
         /\ o \in Interruptions => "interrupcion" \in told
    /\ \A k \in told :
         \E i \in Approvals(o) : decisions[o][i].capture = ledger[Key(o, k)].capture

\* RF-111a: while a draw withholds an order's report nobody has had it on the
\* screen, and the agent's half of a closed draw is what some report of the
\* order said.
ReportWithheld ==
  \A o \in Orders :
    /\ draw[o].state = "pending" => o \notin seen
    /\ draw[o].agent # Unpaired =>
         \E i \in DOMAIN runs[o] : verdict_of_risk(runs[o][i].risk) = draw[o].agent

\* The order stands where the last decision on record left it until the crew
\* takes it up again, and the draw is closed by a decision with that verdict.
LastDecisionStands ==
  \A o \in Orders :
    /\ order[o] \in Decision =>
         /\ decisions[o] # <<>>
         /\ decisions[o][Len(decisions[o])].decision = order[o]
    /\ draw[o].state = "revealed" =>
         \E i \in DOMAIN decisions[o] :
           verdict_of_decision(decisions[o][i].decision) = draw[o].supervisor

\* RF-170: every order the supervisor receives ends with a run in a terminal
\* state, unless it leaves the desk first.
EveryOrderRated ==
  \A o \in Orders :
    (order[o] \in Reviewable) ~> (runs[o] # <<>> \/ order[o] \notin Reviewable)

(* What the documents say and the code does not keep *)

\* RF-176: a batch approves only work whose report said it was of low risk.
BatchWasRated ==
  \A o \in Orders : \A i \in DOMAIN decisions[o] :
    decisions[o][i].batch =>
      \E j \in DOMAIN runs[o] :
        runs[o][j].risk = "low" /\ runs[o][j].capture = decisions[o][i].capture
=============================================================================
