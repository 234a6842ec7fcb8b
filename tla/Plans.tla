-------------------------------- MODULE Plans --------------------------------
(***************************************************************************)
(* A preventive plan issues its orders (plans/service.py, api/plans.py,    *)
(* workers/plan_generation.py).                                            *)
(*                                                                         *)
(* The nightly pass and a planner who presses the button run the same plan *)
(* in two database transactions.  A run reads which assets its period was  *)
(* recorded for, then what is pending and attended, then works the assets  *)
(* one by one.  The first order it creates takes the audit lock of the     *)
(* unit, which it holds to the end; a row of plan_issue another            *)
(* transaction wrote and has not committed makes its own insert wait.      *)
(***************************************************************************)
EXTENDS Periods, SequencesExt

CONSTANTS
  Assets, Sessions, None,
  Calendar,    \* the days of the instance, in order
  Drafts,      \* what the planner may write: cadence, assets in order, window
  MaxOrders,   \* bound: orders the plan creates
  MaxSaves     \* bound: times the plan is written

ASSUME CalendarIsOrdered ==
  /\ Calendar \in Seq(Date) \ {<<>>}
  /\ \A i, j \in DOMAIN Calendar : i < j => Ordinal(Calendar[i]) < Ordinal(Calendar[j])

\* `_replace_targets`: each asset once, in the order of the list.
Targets(route) == route \in Seq(Assets) \ {<<>>} /\ IsInjective(route)

ASSUME DraftsAreOrdered ==
  \A d \in Drafts : d.rule \in Rule /\ Targets(d.targets) /\ d.skip \in BOOLEAN

ASSUME PlanBounds == MaxOrders \in Nat /\ MaxSaves \in Nat

VARIABLES
  today,    \* index of Calendar
  plan,     \* maintenance_plan and its plan_target rows
  issues,   \* plan_issue rows, committed
  orders,   \* orders of the plan, committed
  attended, \* on the trail, the last day each asset was attended
  lock,     \* who holds the audit lock of the unit
  txn,      \* transactions of the runs
  made,     \* orders created, committed or not
  saves

plvars == <<today, plan, issues, orders, attended, lock, txn, made, saves>>

Plan ==
  {[rule |-> d.rule, targets |-> d.targets, skip |-> d.skip, anchor |-> i, active |-> on] :
     d \in Drafts, i \in DOMAIN Calendar, on \in BOOLEAN}

IssueOutcome == {"emitida", "trabajo_pendiente", "atendida_hace_poco"}
Label ==
  {period_of(d.rule, Calendar[i], Calendar[j]) :
     d \in Drafts, i \in DOMAIN Calendar, j \in DOMAIN Calendar}
NoOrder == 0
PlanIssue ==
  [asset: Assets, period: Label, outcome: IssueOutcome, order: NoOrder..MaxOrders]
Order ==
  [id: 1..MaxOrders, asset: Assets, period: Label,
   state: {"planned", "attended", "cancelled", "anulada"}]

Idle == [step |-> "idle"]

PlanInit ==
  /\ today = 1
  /\ plan \in {p \in Plan : p.active /\ p.anchor = 1}
  /\ issues = {}
  /\ orders = {}
  /\ attended = [a \in Assets |-> 0]
  /\ lock = None
  /\ txn = [s \in Sessions |-> Idle]
  /\ made = 0
  /\ saves = 0

-----------------------------------------------------------------------------
(* The calendar, the planner, the crews *)

NewDay ==
  /\ today < Len(Calendar)
  /\ today' = today + 1
  /\ UNCHANGED <<plan, issues, orders, attended, lock, txn, made, saves>>

\* A plan written again without a start date starts today; its list of assets
\* is replaced whole.  The event of the trail takes the lock.
save_plan ==
  /\ saves < MaxSaves
  /\ lock = None
  /\ \E p \in Plan :
       /\ p.anchor \in {today, plan.anchor}
       /\ p # plan
       /\ plan' = p
  /\ saves' = saves + 1
  /\ UNCHANGED <<today, issues, orders, attended, lock, txn, made>>

\* A crew does the work of an order, or somebody cancels it.
OrderEnds ==
  /\ lock = None
  /\ \E o \in orders, state \in {"attended", "cancelled"} :
       /\ o.state = "planned"
       /\ orders' = (orders \ {o}) \cup {[o EXCEPT !.state = state]}
       /\ attended' = IF state = "attended" THEN [attended EXCEPT ![o.asset] = today]
                      ELSE attended
  /\ UNCHANGED <<today, plan, issues, lock, txn, made, saves>>

-----------------------------------------------------------------------------
(* A run *)

Key(row) == <<row.asset, row.period>>
HasRow(a, period) == \E row \in issues : Key(row) = <<a, period>>

\* The first read: the assets the period is recorded for.
Begin(s, on) ==
  /\ txn[s] = Idle
  /\ LET period == period_of(plan.rule, Calendar[on], Calendar[plan.anchor])
         assets == ToSet(plan.targets) IN
     txn' = [txn EXCEPT ![s] =
       [step |-> "reads", period |-> period, todo |-> plan.targets, skip |-> plan.skip,
        issued_before |-> {a \in assets : HasRow(a, period)}, pending |-> {}, recent |-> {},
        rows |-> {}, orders |-> {}, cover |-> assets]]
  /\ UNCHANGED <<today, plan, issues, orders, attended, lock, made, saves>>

\* The nightly pass, and the button that runs it.
run_due(s) ==
  /\ plan.active
  /\ is_due(plan.rule, Calendar[today], Calendar[plan.anchor])
  /\ Begin(s, today)

\* The button of one plan, for any date.
run_plan(s) == \E on \in DOMAIN Calendar : Begin(s, on)

\* `pending_field_work` and `_last_attended`.
ReadField(s) ==
  /\ txn[s].step = "reads"
  /\ txn' = [txn EXCEPT ![s].step = "assets",
       ![s].pending = {o.asset : o \in {p \in orders : p.state = "planned"}},
       ![s].recent = {a \in Assets : txn[s].skip /\ attended[a] # 0}]
  /\ UNCHANGED <<today, plan, issues, orders, attended, lock, made, saves>>

Next1(s) == Head(txn[s].todo)
AtAsset(s) == txn[s].step = "assets" /\ txn[s].todo # <<>>

SkipIssued(s) ==
  /\ AtAsset(s)
  /\ Next1(s) \in txn[s].issued_before
  /\ txn' = [txn EXCEPT ![s].todo = Tail(@)]
  /\ UNCHANGED <<today, plan, issues, orders, attended, lock, made, saves>>

\* The unique index makes an insert wait for a row nobody committed yet.
Waits(s, a) ==
  \E t \in Sessions \ {s} : txn[t] # Idle /\
    \E row \in txn[t].rows : Key(row) = <<a, txn[s].period>>

Row(s, outcome, id) ==
  [asset |-> Next1(s), period |-> txn[s].period, outcome |-> outcome, order |-> id]

\* `_record_issue` of an asset that is skipped: the row, unless one is there.
SkipRows(s, outcome) ==
  IF HasRow(Next1(s), txn[s].period) THEN txn[s].rows
  ELSE txn[s].rows \cup {Row(s, outcome, NoOrder)}

RecordSkip(s) ==
  /\ AtAsset(s)
  /\ Next1(s) \notin txn[s].issued_before
  /\ Next1(s) \in txn[s].pending \cup txn[s].recent
  /\ ~Waits(s, Next1(s))
  /\ LET outcome == IF Next1(s) \in txn[s].pending THEN "trabajo_pendiente"
                    ELSE "atendida_hace_poco" IN
     txn' = [txn EXCEPT ![s].rows = SkipRows(s, outcome), ![s].todo = Tail(@)]
  /\ UNCHANGED <<today, plan, issues, orders, attended, lock, made, saves>>

\* `create_work_order`: the event of the trail takes the lock.
CreateOrder(s) ==
  /\ AtAsset(s)
  /\ Next1(s) \notin txn[s].issued_before \cup txn[s].pending \cup txn[s].recent
  /\ lock \in {None, s}
  /\ made < MaxOrders
  /\ lock' = s
  /\ made' = made + 1
  /\ txn' = [txn EXCEPT ![s].step = "issue", ![s].orders = @ \cup
       {[id |-> made + 1, asset |-> Next1(s), period |-> txn[s].period, state |-> "planned"]}]
  /\ UNCHANGED <<today, plan, issues, orders, attended, saves>>

\* Mutant: the order that lost stays.
LeftToTheCrew(made_, id) == made_

\* The order that lost the race is cancelled.
Cancelled(made_, id) ==
  {IF o.id = id THEN [o EXCEPT !.state = "anulada"] ELSE o : o \in made_}

RecordIssue(s) ==
  /\ txn[s].step = "issue"
  /\ ~Waits(s, Next1(s))
  /\ LET id == (CHOOSE o \in txn[s].orders : \A p \in txn[s].orders : p.id <= o.id).id IN
     IF HasRow(Next1(s), txn[s].period)
     THEN txn' = [txn EXCEPT ![s].step = "assets", ![s].todo = Tail(@),
                                ![s].orders = Cancelled(txn[s].orders, id)]
     ELSE txn' = [txn EXCEPT ![s].step = "assets", ![s].todo = Tail(@),
                                ![s].rows = @ \cup {Row(s, "emitida", id)}]
  /\ UNCHANGED <<today, plan, issues, orders, attended, lock, made, saves>>

\* The event of the run, and the commit.
RunCommit(s) ==
  /\ txn[s].step = "assets"
  /\ txn[s].todo = <<>>
  /\ lock \in {None, s}
  /\ issues' = issues \cup txn[s].rows
  /\ orders' = orders \cup txn[s].orders
  /\ lock' = None
  /\ txn' = [txn EXCEPT ![s] = Idle]
  /\ UNCHANGED <<today, plan, attended, made, saves>>

\* The worker dies, the unit's pass fails, or two runs wait for each other, one
\* for the lock and one for a row, and PostgreSQL ends one of them.
RunAborts(s) ==
  /\ txn[s] # Idle
  /\ txn' = [txn EXCEPT ![s] = Idle]
  /\ lock' = IF lock = s THEN None ELSE lock
  /\ UNCHANGED <<today, plan, issues, orders, attended, made, saves>>

PlanNext ==
  \/ NewDay \/ save_plan \/ OrderEnds
  \/ \E s \in Sessions :
       \/ run_due(s) \/ run_plan(s) \/ ReadField(s)
       \/ SkipIssued(s) \/ RecordSkip(s) \/ CreateOrder(s) \/ RecordIssue(s)
       \/ RunCommit(s) \/ RunAborts(s)

PlanSpec == PlanInit /\ [][PlanNext]_plvars

-----------------------------------------------------------------------------
(* Properties *)

Run ==
  [step: {"reads", "assets", "issue"}, period: Label, todo: Seq(Assets), skip: BOOLEAN,
   issued_before: SUBSET Assets, pending: SUBSET Assets, recent: SUBSET Assets,
   rows: SUBSET PlanIssue, orders: SUBSET Order, cover: SUBSET Assets]

PlanTypeOK ==
  /\ today \in DOMAIN Calendar
  /\ plan \in Plan
  /\ issues \subseteq PlanIssue
  /\ orders \subseteq Order
  /\ attended \in [Assets -> 0..Len(Calendar)]
  /\ lock \in Sessions \cup {None}
  /\ txn \in [Sessions -> Run \cup {Idle}]
  /\ made \in 0..MaxOrders

\* RF-012: whoever runs a plan, and however the runs interleave, abort and are
\* repeated, no asset gets two orders for one period: an order that was not
\* cancelled by its own run is the one the row of its asset and period names,
\* and there is one row.
IssuedOnce ==
  /\ \A r1, r2 \in issues : Key(r1) = Key(r2) => r1 = r2
  /\ \A o \in orders : o.state # "anulada" =>
       \E row \in issues : Key(row) = Key(o) /\ row.order = o.id

\* "Every refusal is recorded with its reason": what a run has been through has
\* a row of its period, its own or that of the run that came first, so a run
\* that commits accounts for every asset it covered.
EveryAssetRecorded ==
  \A s \in Sessions : txn[s] # Idle /\ txn[s].step # "reads" =>
    \A a \in txn[s].cover \ ToSet(txn[s].todo) :
      \E row \in issues \cup txn[s].rows : Key(row) = <<a, txn[s].period>>

\* Once a period: no asset is served twice, and none is passed over in silence.
OnceAPeriod == IssuedOnce /\ EveryAssetRecorded

(* What the documents say and the code does not keep *)

\* "Running it again issues nothing": two orders of a plan for one asset belong
\* to periods that do not overlap -- a period of days lasts its days.
NoOverlap ==
  \A o1, o2 \in orders :
    (/\ o1.asset = o2.asset /\ o1.id # o2.id
     /\ o1.state # "anulada" /\ o2.state # "anulada"
     /\ o1.period[1] = "dias" /\ o2.period[1] = "dias") =>
    \A d \in Drafts : d.rule.cadence = "dias" =>
      \/ o1.period[2] - o2.period[2] >= d.rule.cadence_days
      \/ o2.period[2] - o1.period[2] >= d.rule.cadence_days
=============================================================================
