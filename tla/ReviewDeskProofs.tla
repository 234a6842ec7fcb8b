------------------------- MODULE ReviewDeskProofs --------------------------
(***************************************************************************)
(* The review desk: the last decision stands, approvals reach the systems  *)
(* that are owed them, and a blind sample hides its report, for any        *)
(* orders, sessions, workers and batch size.                               *)
(***************************************************************************)
EXTENDS ReviewDesk, SequenceTheorems, TLAPS

\* Rows are kept: what was run, and what was decided, only grows.
Grown(old, new) == Len(old) <= Len(new) /\ \A i \in DOMAIN old : new[i] = old[i]

-----------------------------------------------------------------------------
(* Types *)

LEMMA IdleTyped == Idle \in Txn /\ Idle.on = {} /\ Idle.delivered = {}
  BY DEF Idle, Txn, Decision, Response, ResponseState

LEMMA LatestRiskTyped ==
  ASSUME TypeOK, NEW o \in Orders
  PROVE  /\ LatestRisk(o) \in Risk \cup {NoRisk}
         /\ LatestRisk(o) # NoRisk =>
              \E i \in DOMAIN runs[o] : runs[o][i].risk = LatestRisk(o)
  <1>1. runs[o] \in Seq(RunRow)
    BY DEF TypeOK
  <1>2. CASE runs[o] = <<>>
    BY <1>2 DEF LatestRisk
  <1>3. CASE runs[o] # <<>>
    <2>1. Len(runs[o]) \in DOMAIN runs[o] /\ runs[o][Len(runs[o])] \in RunRow
      BY <1>1, <1>3, EmptySeq, LenProperties
    <2> QED BY <1>3, <2>1 DEF LatestRisk, RunRow
  <1> QED BY <1>2, <1>3

LEMMA VerdictTyped ==
  /\ \A d \in Decision : verdict_of_decision(d) \in Verdict
  /\ \A r \in Risk \cup {NoRisk} : verdict_of_risk(r) \in Verdict \cup {Unpaired}
  BY DEF verdict_of_decision, verdict_of_risk, Verdict, Risk, NoRisk, Unpaired

\* The sessions that are opened or taken on.
LEMMA TxnTyped ==
  ASSUME TypeOK, NEW s \in Sessions,
         \/ \E o \in Orders, d \in Decision : DecideBegin(s, o, d)
         \/ BatchBegin(s) \/ Judge(s) \/ Rollback(s)
  PROVE  txn' \in [Sessions -> Txn]
  <1>1. ASSUME NEW o \in Orders, NEW d \in Decision, DecideBegin(s, o, d)
        PROVE  txn' \in [Sessions -> Txn]
    <2>1. response[o] \in Response /\ LatestRisk(o) \in Risk \cup {NoRisk}
      BY LatestRiskTyped DEF TypeOK
    <2> DEFINE t == [Idle EXCEPT !.stage = "read", !.decision = d, !.on = {o},
                    !.read[o] = response[o], !.risk[o] = LatestRisk(o)]
    <2>2. t \in Txn
      BY <2>1, IdleTyped DEF Txn
    <2>3. txn' = [txn EXCEPT ![s] = t]
      BY <1>1 DEF DecideBegin
    <2> HIDE DEF t
    <2> QED BY <2>2, <2>3 DEF TypeOK
  <1>2. CASE BatchBegin(s)
    <2>1. PICK on \in SUBSET Orders :
            txn' = [txn EXCEPT ![s] =
                 [Idle EXCEPT !.stage = "read", !.decision = "approved",
                              !.batch = TRUE, !.on = on,
                              !.read = [o \in Orders |->
                                 IF o \in on THEN response[o] ELSE Idle.read[o]]]]
      BY <1>2, Zenon DEF BatchBegin
    <2> DEFINE read == [o \in Orders |-> IF o \in on THEN response[o] ELSE Idle.read[o]]
               t == [Idle EXCEPT !.stage = "read", !.decision = "approved",
                              !.batch = TRUE, !.on = on, !.read = read]
    <2>2. read \in [Orders -> Response]
      BY IdleTyped DEF TypeOK, Txn
    <2>3. t \in Txn
      <3> HIDE DEF read
      <3> QED BY <2>2, IdleTyped DEF Txn, Decision
    <2>4. txn' = [txn EXCEPT ![s] = t]
      BY <2>1
    <2> HIDE DEF t
    <2> QED BY <2>3, <2>4 DEF TypeOK
  <1>3. CASE Judge(s)
    <2> DEFINE blind == {o \in txn[s].on : draw[o].state = "pending"}
               delivered == {key \in Keys : ledger[key].state = "delivered"}
               t == [txn[s] EXCEPT !.stage = "judged", !.blind = blind, !.delivered = delivered]
    <2>1. txn[s] \in Txn
      BY DEF TypeOK
    <2>2. blind \in SUBSET Orders /\ delivered \in SUBSET Keys
      BY <2>1 DEF Txn
    <2>3. t \in Txn
      <3> HIDE DEF blind, delivered
      <3> QED BY <2>1, <2>2 DEF Txn
    <2>4. txn' = [txn EXCEPT ![s] = t]
      BY <1>3 DEF Judge
    <2> HIDE DEF t
    <2> QED BY <2>3, <2>4 DEF TypeOK
  <1>4. CASE Rollback(s)
    BY <1>4, IdleTyped DEF Rollback, TypeOK
  <1> QED BY <1>1, <1>2, <1>3, <1>4

\* What a commit writes in each table.
LEMMA CommitTyped ==
  ASSUME TypeOK, NEW s \in Sessions, Commit(s)
  PROVE  TypeOK'
  <1> DEFINE t == txn[s]
  <1>1. /\ t \in Txn /\ t.on \in SUBSET Orders /\ t.decision \in Decision
        /\ t.read \in [Orders -> Response] /\ t.risk \in [Orders -> Risk \cup {NoRisk}]
    BY DEF TypeOK, Txn
  <1>2. order' \in [Orders -> WorkOrderState]
    BY <1>1 DEF Commit, TypeOK, Moved, Decision, WorkOrderState
  <1>3. response' \in [Orders -> Response]
    <2>1. ASSUME NEW o \in Orders
          PROVE  [response[o] EXCEPT !.state = Decided(t.read[o], t.decision).state] \in Response
      <3>1. Decided(t.read[o], t.decision).state \in ResponseState
        BY <1>1 DEF Decided, Response, ResponseState, Decision
      <3>2. response[o] \in Response
        BY DEF TypeOK
      <3> QED BY <3>1, <3>2 DEF Response
    <2>2. response' = [o \in Orders |->
       IF o \in t.on /\ Decided(t.read[o], t.decision).state # t.read[o].state
         THEN [response[o] EXCEPT !.state = Decided(t.read[o], t.decision).state]
         ELSE response[o]]
      BY DEF Commit
    <2>3. \A o \in Orders : response[o] \in Response
      BY DEF TypeOK
    <2> HIDE DEF t
    <2> QED BY <2>1, <2>2, <2>3
  <1>4. decisions' \in [Orders -> Seq(DecisionRow)]
    <2>1. ASSUME NEW o \in Orders
          PROVE  [decision |-> t.decision, capture |-> t.read[o].capture,
                 blind |-> o \in t.blind, batch |-> t.batch] \in DecisionRow
      <3>1. t.read[o].capture \in Nat /\ t.batch \in BOOLEAN /\ (o \in t.blind) \in BOOLEAN
        BY <1>1 DEF Response, Txn
      <3> HIDE DEF t
      <3> QED BY <1>1, <3>1 DEF DecisionRow
    <2>2. decisions' = [o \in Orders |->
       IF o \in t.on
         THEN Append(decisions[o],
                [decision |-> t.decision, capture |-> t.read[o].capture,
                 blind |-> o \in t.blind, batch |-> t.batch])
         ELSE decisions[o]]
      BY DEF Commit
    <2>3. \A o \in Orders : decisions[o] \in Seq(DecisionRow)
      BY DEF TypeOK
    <2>4. ASSUME NEW o \in Orders
          PROVE  Append(decisions[o],
                [decision |-> t.decision, capture |-> t.read[o].capture,
                 blind |-> o \in t.blind, batch |-> t.batch]) \in Seq(DecisionRow)
      BY <2>1, <2>3, AppendProperties
    <2> HIDE DEF t
    <2> QED BY <2>2, <2>3, <2>4
  <1>5. draw' \in [Orders -> DrawRow]
    <2>1. ASSUME NEW o \in Orders
          PROVE  Revealed(draw[o], t.decision, t.risk[o]) \in DrawRow
      <3>1. draw[o] \in DrawRow /\ t.risk[o] \in Risk \cup {NoRisk}
        BY <1>1 DEF TypeOK
      <3>2. [state |-> "revealed", supervisor |-> verdict_of_decision(t.decision),
             agent |-> verdict_of_risk(t.risk[o])] \in DrawRow
        BY <1>1, <3>1, VerdictTyped DEF DrawRow
      <3> QED BY <3>1, <3>2 DEF Revealed
    <2>2. \A o \in Orders : draw[o] \in DrawRow
      BY DEF TypeOK
    <2> QED BY <2>1, <2>2 DEF Commit
  <1>6. ledger' \in [Keys -> EventRow]
    <2>1. ASSUME NEW key \in Keys, Told(t, key) # {}
          PROVE  Published(ledger[key], CHOOSE payload \in Told(t, key) : TRUE,
                      key \in t.delivered) \in EventRow
      <3> DEFINE payload == CHOOSE payload \in Told(t, key) : TRUE
      <3>1. payload \in Told(t, key)
        BY <2>1
      <3>2. PICK o \in Orders : payload = [state |-> "pending", of |-> <<o>>, capture |-> t.read[o].capture]
        BY <1>1, <3>1 DEF Told
      <3>3. payload \in EventRow
        <4>1. t.read[o].capture \in Nat
          BY <1>1 DEF Response
        <4>2. <<o>> \in {<<>>} \cup {<<p>> : p \in Orders}
          OBVIOUS
        <4> HIDE DEF payload, t
        <4> QED BY <3>2, <4>1, <4>2, Zenon DEF EventRow
      <3>4. ledger[key] \in EventRow
        BY DEF TypeOK
      <3> HIDE DEF payload
      <3>5. [payload EXCEPT !.state = ledger[key].state] \in EventRow
        BY <3>3, <3>4 DEF EventRow
      <3>6. Published(ledger[key], payload, key \in t.delivered) \in EventRow
        BY <3>3, <3>4, <3>5 DEF Published
      <3> QED BY <3>6 DEF payload
    <2>2. ledger' = [key \in Keys |->
       IF Told(t, key) = {} THEN ledger[key]
       ELSE Published(ledger[key], CHOOSE payload \in Told(t, key) : TRUE,
                      key \in t.delivered)]
      BY DEF Commit
    <2>3. \A key \in Keys : ledger[key] \in EventRow
      BY DEF TypeOK
    <2> HIDE DEF t
    <2> QED BY <2>1, <2>2, <2>3
  <1>7. txn' \in [Sessions -> Txn]
    BY IdleTyped DEF Commit, TypeOK
  <1>8. UNCHANGED <<runs, pass, seen, kills>>
    BY DEF Commit
  <1> QED BY <1>2, <1>3, <1>4, <1>5, <1>6, <1>7, <1>8 DEF TypeOK

LEMMA ExecuteWrites ==
  ASSUME TypeOK, NEW w \in Workers, NEW o \in Orders, Execute(w, o)
  PROVE  /\ runs' \in [Orders -> Seq(RunRow)] /\ draw' \in [Orders -> DrawRow]
         /\ pass' \in [Workers -> SUBSET Orders]
         /\ \A p \in Orders : Grown(runs[p], runs'[p])
         /\ \A p \in Orders :
              \/ draw'[p] = draw[p]
              \/ p = o /\ draw[p].state = "undrawn" /\ draw'[p] = [Undrawn EXCEPT !.state = "pending"]
  <1>1. PICK run \in Outcome(o) :
          /\ runs' = [runs EXCEPT ![o] = Append(@, run)]
          /\ \/ draw' = draw
             \/ \E row \in Assigned(draw[o]) : draw' = [draw EXCEPT ![o] = row]
    BY DEF Execute
  <1>2. run \in RunRow
    <2>1. response[o].capture \in Nat
      BY DEF TypeOK, Response
    <2> QED BY <2>1 DEF Outcome, RunRow
  <1>3. runs[o] \in Seq(RunRow) /\ draw[o] \in DrawRow
    BY DEF TypeOK
  <1>4. Append(runs[o], run) \in Seq(RunRow) /\ Grown(runs[o], Append(runs[o], run))
    BY <1>2, <1>3, AppendProperties DEF Grown
  <1>5. \A p \in Orders : Grown(runs[p], runs[p])
    BY DEF TypeOK, Grown
  <1>6. runs' \in [Orders -> Seq(RunRow)] /\ \A p \in Orders : Grown(runs[p], runs'[p])
    BY <1>1, <1>4, <1>5 DEF TypeOK
  <1>7. ASSUME NEW row \in Assigned(draw[o])
        PROVE  /\ row \in DrawRow
               /\ \/ row = draw[o]
                  \/ draw[o].state = "undrawn" /\ row = [Undrawn EXCEPT !.state = "pending"]
    BY <1>3 DEF Assigned, DrawRow, Undrawn
  <1>8. /\ draw' \in [Orders -> DrawRow]
        /\ \A p \in Orders :
              \/ draw'[p] = draw[p]
              \/ p = o /\ draw[p].state = "undrawn" /\ draw'[p] = [Undrawn EXCEPT !.state = "pending"]
    <2>1. CASE draw' = draw
      BY <2>1 DEF TypeOK
    <2>2. ASSUME NEW row \in Assigned(draw[o]), draw' = [draw EXCEPT ![o] = row]
          PROVE  <1>8
      BY <1>7, <2>2 DEF TypeOK
    <2> QED BY <1>1, <2>1, <2>2
  <1>9. pass' \in [Workers -> SUBSET Orders]
    BY DEF Execute, TypeOK
  <1> QED BY <1>6, <1>8, <1>9

LEMMA TypeStep ==
  ASSUME TypeOK, [Next]_vars
  PROVE  TypeOK'
  <1>1. ASSUME NEW o \in Orders, FieldWork(o)
        PROVE  TypeOK'
    <2>1. [state |-> "enviada", capture |-> response[o].capture + 1] \in Response
      BY DEF TypeOK, Response, ResponseState
    <2>2. response' \in [Orders -> Response]
      BY <1>1, <2>1 DEF FieldWork, TypeOK
    <2>3. order' \in [Orders -> WorkOrderState]
      BY <1>1 DEF FieldWork, TypeOK, WorkOrderState
    <2> QED BY <1>1, <2>2, <2>3 DEF FieldWork, TypeOK
  <1>2. ASSUME NEW o \in Orders, OpenDetail(o)
        PROVE  TypeOK'
    BY <1>2 DEF OpenDetail, TypeOK
  <1>3. CASE Deliver
    <2>1. ledger' \in [Keys -> EventRow]
      BY <1>3 DEF Deliver, TypeOK, EventRow
    <2> QED BY <1>3, <2>1 DEF Deliver, TypeOK
  <1>4. ASSUME NEW w \in Workers, PassBegin(w) \/ PassKilled(w)
        PROVE  TypeOK'
    <2>1. PICK todo \in SUBSET Orders : pass' = [pass EXCEPT ![w] = todo]
      BY <1>4 DEF PassBegin, PassKilled, Waiting
    <2> QED BY <1>4, <2>1 DEF PassBegin, PassKilled, TypeOK
  <1>5. ASSUME NEW w \in Workers, NEW o \in Orders, Execute(w, o)
        PROVE  TypeOK'
    BY <1>5, ExecuteWrites DEF Execute, TypeOK
  <1>6. ASSUME NEW s \in Sessions, BatchBegin(s) \/ Judge(s) \/ Rollback(s)
        PROVE  TypeOK'
    BY <1>6, TxnTyped DEF BatchBegin, Judge, Rollback, TypeOK
  <1>7. ASSUME NEW s \in Sessions, Commit(s)
        PROVE  TypeOK'
    BY <1>7, CommitTyped
  <1>8. ASSUME NEW s \in Sessions, NEW o \in Orders, NEW d \in Decision, DecideBegin(s, o, d)
        PROVE  TypeOK'
    BY <1>8, TxnTyped DEF DecideBegin, TypeOK
  <1>9. CASE UNCHANGED vars
    BY <1>9 DEF vars, TypeOK
  <1> QED BY <1>1, <1>2, <1>3, <1>4, <1>5, <1>6, <1>7, <1>8, <1>9 DEF Next

LEMMA TypeStart == Init => TypeOK
  BY IdleTyped DEF Init, TypeOK, WorkOrderState, Response, ResponseState, Undrawn, DrawRow,
                   Unpaired, NoEvent, EventRow

\* The tables, the sessions and the passes keep their shape.
THEOREM DeskTypes == Spec => []TypeOK
  BY TypeStart, TypeStep, PTL DEF Spec

-----------------------------------------------------------------------------
(* Rows that only grow *)

LEMMA CommitAppends ==
  ASSUME TypeOK, NEW s \in Sessions, Commit(s), NEW o \in Orders
  PROVE  IF o \in txn[s].on
         THEN LET n == Len(decisions[o]) + 1 IN
              /\ Len(decisions'[o]) = n /\ n \in DOMAIN decisions'[o]
              /\ decisions'[o][n].decision = txn[s].decision
              /\ decisions'[o][n].capture = txn[s].read[o].capture
              /\ Grown(decisions[o], decisions'[o])
         ELSE decisions'[o] = decisions[o]
  <1> DEFINE row == [decision |-> txn[s].decision, capture |-> txn[s].read[o].capture,
                     blind |-> o \in txn[s].blind, batch |-> txn[s].batch]
  <1>1. /\ o \in txn[s].on => decisions'[o] = Append(decisions[o], row)
        /\ o \notin txn[s].on => decisions'[o] = decisions[o]
    BY DEF Commit
  <1>2. row.decision = txn[s].decision /\ row.capture = txn[s].read[o].capture
    OBVIOUS
  <1>3. decisions[o] \in Seq(DecisionRow)
    BY DEF TypeOK
  <1> HIDE DEF row
  <1> QED BY <1>1, <1>2, <1>3, AppendProperties DEF Grown

LEMMA GrownIndexed ==
  ASSUME NEW S, NEW old \in Seq(S), NEW new \in Seq(S), Grown(old, new)
  PROVE  DOMAIN old \subseteq DOMAIN new
  BY LenProperties DEF Grown

\* Decisions on record stay on record, whatever the step.
LEMMA DecisionsGrow ==
  ASSUME TypeOK, [Next]_vars, NEW o \in Orders
  PROVE  Grown(decisions[o], decisions'[o]) /\ Grown(runs[o], runs'[o])
  <1>1. Grown(decisions[o], decisions[o]) /\ Grown(runs[o], runs[o])
    BY DEF TypeOK, Grown
  <1>2. ASSUME NEW s \in Sessions, Commit(s)
        PROVE  Grown(decisions[o], decisions'[o]) /\ Grown(runs[o], runs'[o])
    BY <1>1, <1>2, CommitAppends DEF Commit
  <1>3. ASSUME NEW w \in Workers, NEW p \in Orders, Execute(w, p)
        PROVE  Grown(decisions[o], decisions'[o]) /\ Grown(runs[o], runs'[o])
    BY <1>1, <1>3, ExecuteWrites DEF Execute
  <1>4. CASE UNCHANGED <<decisions, runs>>
    BY <1>1, <1>4
  <1> QED BY <1>2, <1>3, <1>4
       DEF Next, vars, FieldWork, OpenDetail, Deliver, PassBegin, PassKilled, DecideBegin,
           BatchBegin, Judge, Rollback

-----------------------------------------------------------------------------
(* The last decision *)

LEMMA LastDecisionStep ==
  ASSUME TypeOK, TypeOK', LastDecisionStands, [Next]_vars
  PROVE  LastDecisionStands'
  <1> SUFFICES ASSUME NEW o \in Orders
               PROVE  /\ order'[o] \in Decision =>
                           /\ decisions'[o] # <<>>
                           /\ decisions'[o][Len(decisions'[o])].decision = order'[o]
                      /\ draw'[o].state = "revealed" =>
                           \E i \in DOMAIN decisions'[o] :
                             verdict_of_decision(decisions'[o][i].decision) = draw'[o].supervisor
    BY DEF LastDecisionStands
  <1>1. /\ order[o] \in Decision =>
             /\ decisions[o] # <<>>
             /\ decisions[o][Len(decisions[o])].decision = order[o]
        /\ draw[o].state = "revealed" =>
             \E i \in DOMAIN decisions[o] :
               verdict_of_decision(decisions[o][i].decision) = draw[o].supervisor
    BY DEF LastDecisionStands
  <1>2. ASSUME NEW s \in Sessions, Commit(s), o \in txn[s].on
        PROVE  /\ order'[o] \in Decision =>
                    /\ decisions'[o] # <<>>
                    /\ decisions'[o][Len(decisions'[o])].decision = order'[o]
               /\ draw'[o].state = "revealed" =>
                    \E i \in DOMAIN decisions'[o] :
                      verdict_of_decision(decisions'[o][i].decision) = draw'[o].supervisor
    <2> DEFINE n == Len(decisions[o]) + 1
    <2>1. /\ Len(decisions'[o]) = n /\ n \in DOMAIN decisions'[o]
          /\ decisions'[o][n].decision = txn[s].decision
          /\ Grown(decisions[o], decisions'[o])
      BY <1>2, CommitAppends
    <2>2. order'[o] = txn[s].decision
      BY <1>2 DEF Commit, Moved
    <2>3. decisions'[o] # <<>>
      BY <2>1
    <2>4. \/ draw'[o] = draw[o] /\ draw[o].state # "pending"
          \/ draw'[o].supervisor = verdict_of_decision(txn[s].decision)
      BY <1>2 DEF Commit, Revealed
    <2>5. decisions[o] \in Seq(DecisionRow) /\ decisions'[o] \in Seq(DecisionRow)
      BY DEF TypeOK
    <2> HIDE DEF n
    <2>6. DOMAIN decisions[o] \subseteq DOMAIN decisions'[o]
      BY <2>1, <2>5, GrownIndexed
    <2> QED BY <1>1, <2>1, <2>2, <2>3, <2>4, <2>6 DEF Grown
  <1>3. CASE /\ decisions'[o] = decisions[o] /\ (order'[o] = order[o] \/ order'[o] \notin Decision)
             /\ (draw'[o] = draw[o] \/ draw'[o].state # "revealed")
    BY <1>1, <1>3
  <1>4. ASSUME NEW s \in Sessions, Commit(s), o \notin txn[s].on
        PROVE  /\ decisions'[o] = decisions[o] /\ (order'[o] = order[o] \/ order'[o] \notin Decision)
               /\ (draw'[o] = draw[o] \/ draw'[o].state # "revealed")
    BY <1>4 DEF Commit
  <1>5. ASSUME NEW w \in Workers, NEW p \in Orders, Execute(w, p)
        PROVE  /\ decisions'[o] = decisions[o] /\ (order'[o] = order[o] \/ order'[o] \notin Decision)
               /\ (draw'[o] = draw[o] \/ draw'[o].state # "revealed")
    BY <1>5, ExecuteWrites DEF Execute, Undrawn
  <1>6. ASSUME NEW p \in Orders, FieldWork(p)
        PROVE  /\ decisions'[o] = decisions[o] /\ (order'[o] = order[o] \/ order'[o] \notin Decision)
               /\ (draw'[o] = draw[o] \/ draw'[o].state # "revealed")
    BY <1>6 DEF FieldWork, TypeOK, Decision
  <1>7. CASE UNCHANGED <<order, decisions, draw>>
    BY <1>3, <1>7
  <1> QED BY <1>2, <1>3, <1>4, <1>5, <1>6, <1>7
       DEF Next, vars, OpenDetail, Deliver, PassBegin, PassKilled, DecideBegin,
           BatchBegin, Judge, Rollback

\* An order stands where its last recorded decision left it (review/service.py
\* `decide`), and a draw is revealed with the verdict of a decision, whoever interleaves.
THEOREM LastDecisionAlwaysStands == Spec => []LastDecisionStands
  <1>1. Init => LastDecisionStands
    BY DEF Init, LastDecisionStands, Decision, Undrawn
  <1>2. LastDecisionStands /\ TypeOK /\ TypeOK' /\ [Next]_vars => LastDecisionStands'
    BY LastDecisionStep
  <1> QED BY <1>1, <1>2, DeskTypes, PTL DEF Spec

-----------------------------------------------------------------------------
(* What the other systems are told, in one business unit *)

\* The number the sender gave is unique: the orders are of one unit.
OneUnit == \A o, p \in Orders : RefOf[o] = RefOf[p] => o = p

\* What a session saw delivered stays delivered.
DeliveredStays ==
  \A s \in Sessions : \A key \in txn[s].delivered : ledger[key].state = "delivered"

\* An event is of the order its key names, once there is one.
EventsOfTheirOrder ==
  \A o \in Orders, k \in Kind :
    ledger[Key(o, k)].state # "absent" => ledger[Key(o, k)].of = <<o>>

\* Its payload is of a capture that was approved.
PayloadsSigned ==
  \A o \in Orders, k \in Kind : ledger[Key(o, k)].of = <<o>> =>
    \E i \in Approvals(o) : decisions[o][i].capture = ledger[Key(o, k)].capture

\* What an approval owes is in the ledger.
OwedIsTold ==
  \A o \in Orders : Approvals(o) # {} => \A k \in Owed(o) : ledger[Key(o, k)].of = <<o>>

ToldInv == DeliveredStays /\ EventsOfTheirOrder /\ PayloadsSigned /\ OwedIsTold

LEMMA KeyOfOne ==
  ASSUME OneUnit, NEW o \in Orders, NEW p \in Orders, NEW k \in Kind, NEW l \in Kind,
         Key(o, k) = Key(p, l)
  PROVE  o = p /\ k = l
  BY RefsGiven DEF OneUnit, Key, Kind

LEMMA KeyTyped ==
  ASSUME NEW o \in Orders, NEW k \in Kind
  PROVE  Key(o, k) \in Keys
  BY RefsGiven DEF Key, Keys

\* What a session tells under the key of an order and a kind is of that order.
LEMMA ToldOfOne ==
  ASSUME OneUnit, TypeOK, NEW s \in Sessions, NEW o \in Orders, NEW k \in Kind
  PROVE  Told(txn[s], Key(o, k)) =
           IF o \in txn[s].on /\ txn[s].decision = "approved" /\ k \in Owed(o)
           THEN {[state |-> "pending", of |-> <<o>>, capture |-> txn[s].read[o].capture]}
           ELSE {}
  <1> DEFINE t == txn[s]
             signers == {p \in t.on : t.decision = "approved"
                                   /\ \E l \in Owed(p) : Key(p, l) = Key(o, k)}
             payload(p) == [state |-> "pending", of |-> <<p>>, capture |-> t.read[p].capture]
  <1>1. t.on \in SUBSET Orders
    BY DEF TypeOK, Txn
  <1>2. \A p \in Orders : Owed(p) \subseteq Kind
    BY DEF Owed
  <1>3. ASSUME NEW p \in signers
        PROVE  p = o /\ k \in Owed(o)
    <2>1. PICK l \in Owed(p) : Key(p, l) = Key(o, k)
      OBVIOUS
    <2> QED BY <1>1, <1>2, <2>1, KeyOfOne
  <1>4. signers = IF o \in t.on /\ t.decision = "approved" /\ k \in Owed(o) THEN {o} ELSE {}
    BY <1>3
  <1>5. Told(t, Key(o, k)) = {payload(p) : p \in signers}
    BY DEF Told
  <1> HIDE DEF signers, payload, t
  <1>6. Told(t, Key(o, k)) =
           IF o \in t.on /\ t.decision = "approved" /\ k \in Owed(o) THEN {payload(o)} ELSE {}
    BY <1>4, <1>5
  <1> QED BY <1>6 DEF payload, t

\* What a commit leaves under the key of an order and a kind.
LEMMA CommitTells ==
  ASSUME OneUnit, TypeOK, DeliveredStays,
         NEW s \in Sessions, Commit(s), NEW o \in Orders, NEW k \in Kind
  PROVE  LET e == ledger[Key(o, k)] IN
         IF o \in txn[s].on /\ txn[s].decision = "approved" /\ k \in Owed(o)
         THEN IF Key(o, k) \in txn[s].delivered THEN ledger'[Key(o, k)] = e
              ELSE /\ ledger'[Key(o, k)].of = <<o>>
                   /\ ledger'[Key(o, k)].capture = txn[s].read[o].capture
                   /\ ledger'[Key(o, k)].state # "absent"
         ELSE ledger'[Key(o, k)] = e
  <1> DEFINE key == Key(o, k)
             t == txn[s]
             payload == [state |-> "pending", of |-> <<o>>, capture |-> t.read[o].capture]
  <1>1. key \in Keys
    BY KeyTyped
  <1>2. ledger'[key] = IF Told(t, key) = {} THEN ledger[key]
                       ELSE Published(ledger[key], CHOOSE q \in Told(t, key) : TRUE,
                                      key \in t.delivered)
    BY <1>1 DEF Commit
  <1>3. CASE o \in t.on /\ t.decision = "approved" /\ k \in Owed(o)
    <2>1. Told(t, key) = {payload}
      BY <1>3, ToldOfOne
    <2>2. (CHOOSE q \in Told(t, key) : TRUE) = payload
      BY <2>1
    <2>3. ledger'[key] = Published(ledger[key], payload, key \in t.delivered)
      BY <1>2, <2>1, <2>2
    <2>4. CASE key \in t.delivered
      <3>1. ledger[key].state # "absent"
        BY <2>4 DEF DeliveredStays
      <3>2. ledger'[key] = ledger[key]
        <4> HIDE DEF payload, key
        <4> QED BY <2>3, <2>4, <3>1 DEF Published
      <3> QED BY <1>3, <2>4, <3>2
    <2>5. CASE key \notin t.delivered
      <3>1. ledger'[key] = IF ledger[key].state = "absent" THEN payload
                           ELSE [payload EXCEPT !.state = ledger[key].state]
        BY <2>3, <2>5 DEF Published
      <3>2. /\ payload.of = <<o>> /\ payload.capture = t.read[o].capture
            /\ payload.state = "pending" /\ payload = [payload EXCEPT !.state = "pending"]
        OBVIOUS
      <3>3. \A state : /\ [payload EXCEPT !.state = state].of = <<o>>
                       /\ [payload EXCEPT !.state = state].capture = t.read[o].capture
                       /\ [payload EXCEPT !.state = state].state = state
        OBVIOUS
      <3>4. /\ ledger'[key].of = <<o>> /\ ledger'[key].capture = t.read[o].capture
            /\ ledger'[key].state # "absent"
        <4> HIDE DEF payload, key, t
        <4> QED BY <3>1, <3>2, <3>3
      <3> QED BY <1>3, <2>5, <3>4
    <2> QED BY <2>4, <2>5
  <1>4. CASE ~(o \in t.on /\ t.decision = "approved" /\ k \in Owed(o))
    BY <1>2, <1>4, ToldOfOne
  <1> QED BY <1>3, <1>4

\* An event on record stays on record; one that is delivered stays as it is.
LEMMA LedgerStep ==
  ASSUME TypeOK, [Next]_vars, NEW key \in Keys, ledger[key].state = "delivered"
  PROVE  ledger'[key].state = "delivered"
  <1>1. ASSUME NEW s \in Sessions, Commit(s)
        PROVE  ledger'[key].state = "delivered"
    <2>1. ledger'[key] = IF Told(txn[s], key) = {} THEN ledger[key]
                       ELSE Published(ledger[key], CHOOSE q \in Told(txn[s], key) : TRUE,
                                      key \in txn[s].delivered)
      BY <1>1 DEF Commit
    <2>2. ASSUME Told(txn[s], key) # {}
          PROVE  ledger'[key].state = "delivered"
      <3> DEFINE payload == CHOOSE q \in Told(txn[s], key) : TRUE
      <3>1. payload \in Told(txn[s], key)
        BY <2>2
      <3>2. \E o : payload = [state |-> "pending", of |-> <<o>>, capture |-> txn[s].read[o].capture]
        BY <3>1 DEF Told
      <3>3. ledger'[key] = Published(ledger[key], payload, key \in txn[s].delivered)
        BY <2>1, <2>2
      <3> HIDE DEF payload
      <3> QED BY <3>2, <3>3 DEF Published
    <2> QED BY <2>1, <2>2
  <1>2. CASE Deliver
    BY <1>2 DEF Deliver
  <1>3. CASE ledger' = ledger
    BY <1>3
  <1> QED BY <1>1, <1>2, <1>3
       DEF Next, vars, FieldWork, OpenDetail, PassBegin, PassKilled, Execute, DecideBegin,
           BatchBegin, Judge, Rollback

LEMMA DeliveredStaysStep ==
  ASSUME TypeOK, DeliveredStays, [Next]_vars
  PROVE  DeliveredStays'
  <1> SUFFICES ASSUME NEW s \in Sessions, NEW key \in txn'[s].delivered
               PROVE  ledger'[key].state = "delivered"
    BY DEF DeliveredStays
  <1>1. \A r \in Sessions : txn[r].delivered \in SUBSET Keys
    BY DEF TypeOK, Txn
  <1>2. CASE key \in txn[s].delivered
    BY <1>1, <1>2, LedgerStep DEF DeliveredStays
  <1>3. ASSUME NEW r \in Sessions, Judge(r)
        PROVE  ledger'[key].state = "delivered"
    <2>1. ledger' = ledger
      BY <1>3 DEF Judge
    <2>2. CASE r = s
      BY <1>3, <2>1, <2>2 DEF Judge, TypeOK, Txn
    <2>3. CASE r # s
      BY <1>2, <1>3, <2>3 DEF Judge, TypeOK
    <2> QED BY <2>2, <2>3
  <1>4. ASSUME NEW r \in Sessions, Commit(r) \/ Rollback(r)
        PROVE  key \in txn[s].delivered
    BY <1>4, IdleTyped DEF Commit, Rollback, TypeOK
  <1>5. ASSUME NEW r \in Sessions, BatchBegin(r)
        PROVE  key \in txn[s].delivered
    <2>1. PICK on \in SUBSET Orders :
            txn' = [txn EXCEPT ![r] =
                 [Idle EXCEPT !.stage = "read", !.decision = "approved",
                              !.batch = TRUE, !.on = on,
                              !.read = [o \in Orders |->
                                 IF o \in on THEN response[o] ELSE Idle.read[o]]]]
      BY <1>5, Zenon DEF BatchBegin
    <2> DEFINE read == [o \in Orders |-> IF o \in on THEN response[o] ELSE Idle.read[o]]
               t == [Idle EXCEPT !.stage = "read", !.decision = "approved",
                                 !.batch = TRUE, !.on = on, !.read = read]
    <2>2. txn' = [txn EXCEPT ![r] = t]
      BY <2>1
    <2> HIDE DEF read
    <2>3. t.delivered = {}
      BY DEF Idle
    <2> HIDE DEF t
    <2> QED BY <2>2, <2>3 DEF TypeOK
  <1>6. ASSUME NEW r \in Sessions, NEW o \in Orders, NEW d \in Decision, DecideBegin(r, o, d)
        PROVE  key \in txn[s].delivered
    <2> DEFINE t == [Idle EXCEPT !.stage = "read", !.decision = d, !.on = {o},
                                 !.read[o] = response[o], !.risk[o] = LatestRisk(o)]
    <2>1. txn' = [txn EXCEPT ![r] = t] /\ t.delivered = {}
      BY <1>6 DEF DecideBegin, Idle
    <2> HIDE DEF t
    <2> QED BY <2>1 DEF TypeOK
  <1>7. CASE txn' = txn
    BY <1>2, <1>7
  <1> QED BY <1>2, <1>3, <1>4, <1>5, <1>6, <1>7
       DEF Next, vars, FieldWork, OpenDetail, Deliver, PassBegin, PassKilled, Execute

LEMMA ApprovalsGrow ==
  ASSUME TypeOK, TypeOK', [Next]_vars, NEW o \in Orders
  PROVE  \A i \in Approvals(o) : i \in Approvals(o)' /\ decisions'[o][i] = decisions[o][i]
  <1>1. decisions[o] \in Seq(DecisionRow) /\ decisions'[o] \in Seq(DecisionRow)
    BY DEF TypeOK
  <1>2. Grown(decisions[o], decisions'[o]) /\ DOMAIN decisions[o] \subseteq DOMAIN decisions'[o]
    BY <1>1, DecisionsGrow, GrownIndexed
  <1> QED BY <1>2 DEF Approvals, Grown

LEMMA ToldCommit ==
  ASSUME OneUnit, TypeOK, TypeOK', ToldInv, NEW s \in Sessions, Commit(s), [Next]_vars
  PROVE  EventsOfTheirOrder' /\ PayloadsSigned' /\ OwedIsTold'
  <1>0. DeliveredStays
    BY DEF ToldInv
  <1>1. ASSUME NEW o \in Orders, NEW k \in Kind
        PROVE  /\ ledger'[Key(o, k)].state # "absent" => ledger'[Key(o, k)].of = <<o>>
               /\ ledger'[Key(o, k)].of = <<o>> =>
                    \E i \in Approvals(o)' : decisions'[o][i].capture = ledger'[Key(o, k)].capture
    <2>1. /\ ledger[Key(o, k)].state # "absent" => ledger[Key(o, k)].of = <<o>>
          /\ ledger[Key(o, k)].of = <<o>> =>
               \E i \in Approvals(o) : decisions[o][i].capture = ledger[Key(o, k)].capture
      BY DEF ToldInv, EventsOfTheirOrder, PayloadsSigned
    <2>2. CASE ledger'[Key(o, k)] = ledger[Key(o, k)]
      BY <2>1, <2>2, ApprovalsGrow
    <2>3. CASE /\ o \in txn[s].on /\ txn[s].decision = "approved"
               /\ ledger'[Key(o, k)].of = <<o>>
               /\ ledger'[Key(o, k)].capture = txn[s].read[o].capture
      <3> DEFINE n == Len(decisions[o]) + 1
      <3>1. /\ n \in DOMAIN decisions'[o] /\ decisions'[o][n].decision = "approved"
            /\ decisions'[o][n].capture = txn[s].read[o].capture
        BY <2>3, CommitAppends
      <3> HIDE DEF n
      <3>2. n \in Approvals(o)'
        BY <3>1 DEF Approvals
      <3> QED BY <2>3, <3>1, <3>2
    <2> QED BY <1>0, <2>2, <2>3, CommitTells
  <1>2. ASSUME NEW o \in Orders, Approvals(o)' # {}, NEW k \in Owed(o)
        PROVE  ledger'[Key(o, k)].of = <<o>>
    <2>1. k \in Kind
      BY DEF Owed
    <2>2. CASE Approvals(o) # {}
      <3>1. ledger[Key(o, k)].of = <<o>>
        BY <2>2 DEF ToldInv, OwedIsTold
      <3> QED BY <1>0, <2>1, <3>1, CommitTells
    <2>3. CASE Approvals(o) = {}
      <3>1. o \in txn[s].on /\ txn[s].decision = "approved"
        <4>1. PICK i \in DOMAIN decisions'[o] : decisions'[o][i].decision = "approved"
          BY <1>2 DEF Approvals
        <4>2. o \in txn[s].on
          BY <2>3, <4>1, CommitAppends DEF Approvals
        <4>3. decisions[o] \in Seq(DecisionRow) /\ decisions'[o] \in Seq(DecisionRow)
          BY DEF TypeOK
        <4>4. i \in DOMAIN decisions[o] \/ i = Len(decisions[o]) + 1
          BY <4>1, <4>2, <4>3, CommitAppends, LenProperties
        <4>5. i = Len(decisions[o]) + 1
          BY <2>3, <4>1, <4>2, <4>4, CommitAppends DEF Approvals, Grown
        <4> QED BY <4>1, <4>2, <4>5, CommitAppends
      <3>2. CASE Key(o, k) \in txn[s].delivered
        <4>1. ledger[Key(o, k)].state # "absent"
          BY <3>2 DEF ToldInv, DeliveredStays
        <4>2. ledger[Key(o, k)].of = <<o>>
          BY <2>1, <4>1 DEF ToldInv, EventsOfTheirOrder
        <4> QED BY <1>0, <2>1, <3>1, <3>2, <4>2, CommitTells
      <3>3. CASE Key(o, k) \notin txn[s].delivered
        BY <1>0, <2>1, <3>1, <3>3, CommitTells
      <3> QED BY <3>2, <3>3
    <2> QED BY <2>2, <2>3
  <1>3. EventsOfTheirOrder' /\ PayloadsSigned'
    BY <1>1 DEF EventsOfTheirOrder, PayloadsSigned
  <1>4. OwedIsTold'
    BY <1>2 DEF OwedIsTold
  <1> QED BY <1>3, <1>4

LEMMA ToldStep ==
  ASSUME OneUnit, TypeOK, TypeOK', ToldInv, [Next]_vars
  PROVE  ToldInv'
  <1>1. DeliveredStays'
    BY DeliveredStaysStep DEF ToldInv
  <1>2. ASSUME NEW s \in Sessions, Commit(s)
        PROVE  EventsOfTheirOrder' /\ PayloadsSigned' /\ OwedIsTold'
    BY <1>2, ToldCommit
  <1>3. CASE Deliver
    <2>1. \A o \in Orders, k \in Kind :
            /\ ledger'[Key(o, k)].of = ledger[Key(o, k)].of
            /\ ledger'[Key(o, k)].capture = ledger[Key(o, k)].capture
            /\ ledger'[Key(o, k)].state = "absent" <=> ledger[Key(o, k)].state = "absent"
      BY <1>3, KeyTyped DEF Deliver, TypeOK, EventRow
    <2>2. decisions' = decisions
      BY <1>3 DEF Deliver
    <2>3. \A o \in Orders : Approvals(o)' = Approvals(o)
      BY <2>2 DEF Approvals
    <2>4. EventsOfTheirOrder' /\ PayloadsSigned'
      BY <2>1, <2>2, <2>3 DEF ToldInv, EventsOfTheirOrder, PayloadsSigned
    <2>5. \A o \in Orders : Owed(o) \subseteq Kind
      BY DEF Owed
    <2>6. OwedIsTold'
      BY <2>1, <2>3, <2>5 DEF ToldInv, OwedIsTold
    <2> QED BY <1>1, <2>4, <2>6 DEF ToldInv
  <1>4. CASE UNCHANGED <<ledger, decisions>>
    <2>1. \A o \in Orders : Approvals(o)' = Approvals(o)
      BY <1>4 DEF Approvals
    <2>2. EventsOfTheirOrder' /\ PayloadsSigned' /\ OwedIsTold'
      BY <1>4, <2>1 DEF ToldInv, EventsOfTheirOrder, PayloadsSigned, OwedIsTold
    <2> QED BY <1>1, <2>2 DEF ToldInv
  <1> QED BY <1>1, <1>2, <1>3, <1>4
       DEF ToldInv, Next, vars, FieldWork, OpenDetail, PassBegin, PassKilled, Execute,
           DecideBegin, BatchBegin, Judge, Rollback

\* RF-120, RF-122 to RF-124: every approval has left in the ledger what it owes, and no
\* event carries but the content of a capture that was approved.
THEOREM ApprovalsAlwaysTold == OneUnit /\ Spec => []ApprovalTold
  <1> SUFFICES ASSUME OneUnit PROVE Spec => []ApprovalTold
    OBVIOUS
  <1>1. Init => ToldInv
    <2> SUFFICES ASSUME Init PROVE ToldInv
      OBVIOUS
    <2>1. DeliveredStays
      BY IdleTyped DEF Init, DeliveredStays
    <2>2. \A o \in Orders, k \in Kind : ledger[Key(o, k)].state = "absent" /\ ledger[Key(o, k)].of = <<>>
      BY KeyTyped DEF Init, NoEvent
    <2>3. \A o \in Orders : Approvals(o) = {} /\ <<>> # <<o>>
      BY DEF Init, Approvals
    <2> QED BY <2>1, <2>2, <2>3 DEF ToldInv, EventsOfTheirOrder, PayloadsSigned, OwedIsTold
  <1>2. ToldInv /\ TypeOK /\ TypeOK' /\ [Next]_vars => ToldInv'
    BY ToldStep
  <1>3. ToldInv => ApprovalTold
    <2> SUFFICES ASSUME ToldInv, NEW o \in Orders
                 PROVE  LET told == {k \in Kind : ledger[Key(o, k)].of = <<o>>} IN
                        /\ Approvals(o) # {} =>
                             /\ o \in External => {"estado", "resultado"} \subseteq told
                             /\ o \in Claims => "cierre" \in told
                             /\ o \in Consumers => "materiales" \in told
                             /\ o \in Interruptions => "interrupcion" \in told
                        /\ \A k \in told :
                             \E i \in Approvals(o) : decisions[o][i].capture = ledger[Key(o, k)].capture
      BY DEF ApprovalTold
    <2> DEFINE told == {k \in Kind : ledger[Key(o, k)].of = <<o>>}
    <2>1. \A k \in told : \E i \in Approvals(o) : decisions[o][i].capture = ledger[Key(o, k)].capture
      BY DEF ToldInv, PayloadsSigned
    <2>2. Approvals(o) # {} => Owed(o) \subseteq told
      BY DEF ToldInv, OwedIsTold, Owed
    <2>3. /\ o \in External => {"estado", "resultado"} \subseteq Owed(o)
          /\ o \in Claims => "cierre" \in Owed(o)
          /\ o \in Consumers => "materiales" \in Owed(o)
          /\ o \in Interruptions => "interrupcion" \in Owed(o)
      BY DEF Owed, Kind, StatusOwed, ResultOwed, ClosureOwed, MaterialsOwed, InterruptionOwed
    <2> HIDE DEF told
    <2>4. /\ Approvals(o) # {} =>
                             /\ o \in External => {"estado", "resultado"} \subseteq told
                             /\ o \in Claims => "cierre" \in told
                             /\ o \in Consumers => "materiales" \in told
                             /\ o \in Interruptions => "interrupcion" \in told
      BY <2>2, <2>3
    <2> QED BY <2>1, <2>4, Zenon DEF told
  <1> QED BY <1>1, <1>2, <1>3, DeskTypes, PTL DEF Spec

-----------------------------------------------------------------------------
(* The blind sample, with one pre-review pass at a time *)

\* One worker runs the pre-review pass at a time, as the scheduler starts it.
OneWorker == \A v, w \in Workers : v = w

\* What a pass has still to run was never run.
PassesAhead == \A w \in Workers : \A o \in pass[w] : runs[o] = <<>>

\* What was on the screen had a report.
SeenHasReport == \A o \in seen : runs[o] # <<>>

\* The risk a session decides with is what some report said.
RiskWasReported ==
  \A s \in Sessions, o \in Orders : txn[s].risk[o] # NoRisk =>
    \E i \in DOMAIN runs[o] : runs[o][i].risk = txn[s].risk[o]

BlindInv == PassesAhead /\ SeenHasReport /\ RiskWasReported /\ ReportWithheld

LEMMA RunsGrow ==
  ASSUME TypeOK, TypeOK', [Next]_vars, NEW o \in Orders
  PROVE  /\ DOMAIN runs[o] \subseteq DOMAIN runs'[o]
         /\ \A i \in DOMAIN runs[o] : runs'[o][i] = runs[o][i]
         /\ runs[o] # <<>> => runs'[o] # <<>>
  <1>1. runs[o] \in Seq(RunRow) /\ runs'[o] \in Seq(RunRow) /\ Grown(runs[o], runs'[o])
    BY DecisionsGrow DEF TypeOK
  <1>2. DOMAIN runs[o] \subseteq DOMAIN runs'[o]
    BY <1>1, GrownIndexed
  <1> QED BY <1>1, <1>2, EmptySeq, LenProperties DEF Grown

LEMMA PassesStep ==
  ASSUME OneWorker, TypeOK, TypeOK', PassesAhead, [Next]_vars
  PROVE  PassesAhead'
  <1>1. ASSUME NEW w \in Workers, NEW o \in Orders, Execute(w, o)
        PROVE  PassesAhead'
    <2>1. \A v \in Workers : v = w
      BY DEF OneWorker
    <2>2. pass'[w] = pass[w] \ {o} /\ \A p \in Orders \ {o} : runs'[p] = runs[p]
      BY <1>1 DEF Execute, TypeOK
    <2> QED BY <2>1, <2>2 DEF PassesAhead, TypeOK
  <1>2. ASSUME NEW w \in Workers, PassBegin(w)
        PROVE  PassesAhead'
    <2>1. PICK todo \in SUBSET Waiting : pass' = [pass EXCEPT ![w] = todo]
      BY <1>2 DEF PassBegin
    <2> QED BY <1>2, <2>1 DEF PassBegin, PassesAhead, TypeOK, Waiting
  <1>3. ASSUME NEW w \in Workers, PassKilled(w)
        PROVE  PassesAhead'
    BY <1>3 DEF PassKilled, PassesAhead, TypeOK
  <1>4. CASE UNCHANGED <<runs, pass>>
    BY <1>4 DEF PassesAhead
  <1> QED BY <1>1, <1>2, <1>3, <1>4
       DEF Next, vars, FieldWork, OpenDetail, Deliver, DecideBegin, BatchBegin, Judge, Commit,
           Rollback

LEMMA SeenStep ==
  ASSUME TypeOK, TypeOK', SeenHasReport, [Next]_vars
  PROVE  SeenHasReport'
  <1>1. seen \subseteq Orders
    BY DEF TypeOK
  <1>2. ASSUME NEW o \in Orders, OpenDetail(o)
        PROVE  SeenHasReport'
    <2>1. runs[o] # <<>>
      BY <1>2 DEF OpenDetail, Shows, LatestRisk
    <2> QED BY <1>1, <1>2, <2>1 DEF OpenDetail, SeenHasReport
  <1>3. CASE seen' = seen
    BY <1>1, <1>3, RunsGrow DEF SeenHasReport
  <1> QED BY <1>2, <1>3
       DEF Next, vars, FieldWork, Deliver, PassBegin, PassKilled, Execute, DecideBegin,
           BatchBegin, Judge, Commit, Rollback

LEMMA RiskStep ==
  ASSUME TypeOK, TypeOK', RiskWasReported, [Next]_vars
  PROVE  RiskWasReported'
  <1> SUFFICES ASSUME NEW s \in Sessions, NEW o \in Orders, txn'[s].risk[o] # NoRisk
               PROVE  \E i \in DOMAIN runs'[o] : runs'[o][i].risk = txn'[s].risk[o]
    BY DEF RiskWasReported
  <1>1. CASE txn'[s].risk[o] = txn[s].risk[o]
    BY <1>1, RunsGrow DEF RiskWasReported
  <1>2. CASE txn'[s].risk[o] = LatestRisk(o)
    BY <1>2, RunsGrow, LatestRiskTyped
  <1>3. \A p \in Orders : Idle.risk[p] = NoRisk
    BY DEF Idle
  <1>4. ASSUME NEW r \in Sessions, Judge(r)
        PROVE  txn'[s].risk[o] = txn[s].risk[o]
    <2>1. txn[r] \in Txn
      BY DEF TypeOK
    <2>2. txn'[r].risk = txn[r].risk
      BY <1>4, <2>1 DEF Judge, TypeOK, Txn
    <2> QED BY <1>4, <2>2 DEF Judge, TypeOK
  <1>5. ASSUME NEW r \in Sessions, Commit(r) \/ Rollback(r)
        PROVE  txn'[s].risk[o] = txn[s].risk[o]
    BY <1>3, <1>5 DEF Commit, Rollback, TypeOK
  <1>6. ASSUME NEW r \in Sessions, BatchBegin(r)
        PROVE  txn'[s].risk[o] = txn[s].risk[o]
    <2>1. PICK on \in SUBSET Orders :
            txn' = [txn EXCEPT ![r] =
                 [Idle EXCEPT !.stage = "read", !.decision = "approved",
                              !.batch = TRUE, !.on = on,
                              !.read = [p \in Orders |->
                                 IF p \in on THEN response[p] ELSE Idle.read[p]]]]
      BY <1>6, Zenon DEF BatchBegin
    <2> DEFINE read == [p \in Orders |-> IF p \in on THEN response[p] ELSE Idle.read[p]]
               t == [Idle EXCEPT !.stage = "read", !.decision = "approved",
                                 !.batch = TRUE, !.on = on, !.read = read]
    <2>2. txn' = [txn EXCEPT ![r] = t]
      BY <2>1
    <2> HIDE DEF read
    <2>3. t.risk = Idle.risk
      BY DEF Idle
    <2> HIDE DEF t
    <2>4. txn'[r].risk[o] = NoRisk
      BY <1>3, <2>2, <2>3 DEF TypeOK
    <2> QED BY <2>2, <2>4 DEF TypeOK
  <1>7. ASSUME NEW r \in Sessions, NEW p \in Orders, NEW d \in Decision, DecideBegin(r, p, d)
        PROVE  txn'[s].risk[o] \in {txn[s].risk[o], LatestRisk(o)}
    <2> DEFINE t == [Idle EXCEPT !.stage = "read", !.decision = d, !.on = {p},
                                 !.read[p] = response[p], !.risk[p] = LatestRisk(p)]
    <2>1. txn' = [txn EXCEPT ![r] = t]
      BY <1>7 DEF DecideBegin
    <2>2. t.risk = [Idle.risk EXCEPT ![p] = LatestRisk(p)]
      BY DEF Idle
    <2> HIDE DEF t
    <2>3. txn'[r].risk[o] \in {NoRisk, LatestRisk(o)}
      BY <1>3, <2>1, <2>2, IdleTyped DEF TypeOK, Txn
    <2> QED BY <2>1, <2>3 DEF TypeOK
  <1>8. CASE txn' = txn
    BY <1>1, <1>8
  <1> QED BY <1>1, <1>2, <1>4, <1>5, <1>6, <1>7, <1>8
       DEF Next, vars, FieldWork, OpenDetail, Deliver, PassBegin, PassKilled, Execute

LEMMA WithheldStep ==
  ASSUME TypeOK, TypeOK', PassesAhead, SeenHasReport, RiskWasReported, ReportWithheld, [Next]_vars
  PROVE  ReportWithheld'
  <1> SUFFICES ASSUME NEW o \in Orders
               PROVE  /\ draw'[o].state = "pending" => o \notin seen'
                      /\ draw'[o].agent # Unpaired =>
                           \E i \in DOMAIN runs'[o] : verdict_of_risk(runs'[o][i].risk) = draw'[o].agent
    BY DEF ReportWithheld
  <1>1. CASE draw'[o] = draw[o] /\ (o \in seen' => o \in seen \/ draw[o].state # "pending")
    BY <1>1, RunsGrow DEF ReportWithheld
  <1>2. ASSUME NEW w \in Workers, NEW p \in Orders, Execute(w, p)
        PROVE  /\ draw'[o].state = "pending" => o \notin seen'
               /\ draw'[o].agent # Unpaired =>
                    \E i \in DOMAIN runs'[o] : verdict_of_risk(runs'[o][i].risk) = draw'[o].agent
    <2>1. seen' = seen
      BY <1>2 DEF Execute
    <2>2. CASE draw'[o] = draw[o]
      BY <1>1, <2>1, <2>2
    <2>3. CASE p = o /\ draw'[o] = [Undrawn EXCEPT !.state = "pending"]
      <3>1. draw'[o].agent = Unpaired
        BY <2>3 DEF Undrawn
      <3>2. runs[o] = <<>>
        BY <1>2, <2>3 DEF Execute, PassesAhead
      <3> QED BY <2>1, <3>1, <3>2 DEF SeenHasReport
    <2> QED BY <1>2, <2>2, <2>3, ExecuteWrites
  <1>3. ASSUME NEW s \in Sessions, Commit(s)
        PROVE  /\ draw'[o].state = "pending" => o \notin seen'
               /\ draw'[o].agent # Unpaired =>
                    \E i \in DOMAIN runs'[o] : verdict_of_risk(runs'[o][i].risk) = draw'[o].agent
    <2>1. seen' = seen /\ runs' = runs
      BY <1>3 DEF Commit
    <2>2. CASE draw'[o] = draw[o]
      BY <1>1, <2>1, <2>2
    <2>3. CASE draw'[o].state = "revealed" /\ draw'[o].agent = verdict_of_risk(txn[s].risk[o])
      <3>1. CASE txn[s].risk[o] = NoRisk
        <4>1. verdict_of_risk(NoRisk) = Unpaired
          BY DEF verdict_of_risk, NoRisk
        <4>2. draw'[o].state # "pending" /\ draw'[o].agent = Unpaired
          BY <2>3, <3>1, <4>1
        <4> QED BY <4>2
      <3>2. CASE txn[s].risk[o] # NoRisk
        BY <2>1, <2>3, <3>2 DEF RiskWasReported
      <3> QED BY <2>3, <3>1, <3>2
    <2> QED BY <1>3, <2>2, <2>3 DEF Commit, Revealed
  <1>4. ASSUME NEW p \in Orders, OpenDetail(p)
        PROVE  draw'[o] = draw[o] /\ (o \in seen' => o \in seen \/ draw[o].state # "pending")
    BY <1>4 DEF OpenDetail, Shows
  <1>5. CASE UNCHANGED <<draw, seen>>
    BY <1>1, <1>5
  <1> QED BY <1>1, <1>2, <1>3, <1>4, <1>5
       DEF Next, vars, FieldWork, Deliver, PassBegin, PassKilled, DecideBegin, BatchBegin,
           Judge, Rollback

\* RF-111a: a report is not on the screen while its draw is pending, and the agent's half
\* of a draw is what a report said; two passes can rate an order under a draw.
THEOREM ReportsAlwaysWithheld == OneWorker /\ Spec => []ReportWithheld
  <1> SUFFICES ASSUME OneWorker PROVE Spec => []ReportWithheld
    OBVIOUS
  <1>1. Init => BlindInv
    BY DEF Init, BlindInv, PassesAhead, SeenHasReport, RiskWasReported, ReportWithheld, Idle,
           Undrawn
  <1>2. BlindInv /\ TypeOK /\ TypeOK' /\ [Next]_vars => BlindInv'
    BY PassesStep, SeenStep, RiskStep, WithheldStep DEF BlindInv
  <1>3. BlindInv => ReportWithheld
    BY DEF BlindInv
  <1> QED BY <1>1, <1>2, <1>3, DeskTypes, PTL DEF Spec
=============================================================================
