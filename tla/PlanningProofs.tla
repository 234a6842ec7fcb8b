-------------------------- MODULE PlanningProofs ---------------------------
(***************************************************************************)
(* What is planned and configured, and what phones then do with it: plans, *)
(* fronts, zones, model profiles, forms, positions, captured answers,      *)
(* catalogues, parameters and dispatch, for any number of each, and the    *)
(* numbers that are dictated.                                              *)
(***************************************************************************)
EXTENDS Plans, Fronts, Zones, Profiles, PublishedForms, Positions, Captures, Catalogs,
        Parameters, Dispatch, Dictation, SequenceTheorems, FiniteSetTheorems,
        WellFoundedInduction, TLAPS

-----------------------------------------------------------------------------
(****************************************************************************)
(* MAINTENANCE PLANS: one order of a plan per asset and period              *)
(****************************************************************************)

Newest(run, o) == \A p \in run.orders : p.id <= o.id

Names(row, o) == Key(row) = Key(o) /\ row.order = o.id

\* Where a run stands, over the rows that are committed and the ids given out.
RunOK(run, committed, given) ==
  /\ IsInjective(run.todo)
  /\ \A row \in run.rows :
       /\ row.period = run.period /\ row.asset \notin ToSet(run.todo)
       /\ \A c \in committed : Key(c) # Key(row)
  /\ \A r1, r2 \in run.rows : Key(r1) = Key(r2) => r1 = r2
  /\ \A o \in run.orders : o.id <= given
  /\ \A o1, o2 \in run.orders : o1.id = o2.id => o1 = o2
  /\ \A o \in run.orders : o.state # "anulada" =>
       \/ \E row \in run.rows : Names(row, o)
       \/ run.step = "issue" /\ Newest(run, o)
  /\ run.step = "issue" =>
       /\ run.todo # <<>>
       /\ \E o \in run.orders :
            Newest(run, o) /\ o.asset = Head(run.todo) /\ o.period = run.period
  /\ \A a \in run.issued_before : \E c \in committed : Key(c) = <<a, run.period>>
  /\ \A a \in run.cover \ ToSet(run.todo) :
       \E row \in committed \cup run.rows : Key(row) = <<a, run.period>>

RunsOK == \A s \in Sessions : txn[s] # Idle => RunOK(txn[s], issues, made)

\* The unique index holds across what is not committed.
Apart ==
  \A s, t \in Sessions : s # t /\ txn[s] # Idle /\ txn[t] # Idle =>
    \A r \in txn[s].rows, q \in txn[t].rows : Key(r) # Key(q)

PlansInv == PlanTypeOK /\ RunsOK /\ Apart /\ IssuedOnce

-----------------------------------------------------------------------------
(* Typing *)

LEMMA DaysOfTheCalendar ==
  /\ Len(Calendar) \in Nat \ {0}
  /\ DOMAIN Calendar = 1 .. Len(Calendar)
  BY CalendarIsOrdered, LenProperties, EmptySeq

LEMMA PlanStartsTyped == PlanInit => PlanTypeOK
  <1> SUFFICES ASSUME PlanInit PROVE PlanTypeOK
    OBVIOUS
  <1>1. today \in DOMAIN Calendar
    BY DaysOfTheCalendar DEF PlanInit
  <1>2. attended \in [Assets -> 0..Len(Calendar)]
    BY DaysOfTheCalendar DEF PlanInit
  <1>3. made \in 0..MaxOrders
    BY PlanBounds DEF PlanInit
  <1> QED BY <1>1, <1>2, <1>3 DEF PlanInit, PlanTypeOK

\* What a plan tells a run.
LEMMA PlanTold ==
  ASSUME PlanTypeOK, NEW on \in DOMAIN Calendar
  PROVE  /\ plan.targets \in Seq(Assets) /\ IsInjective(plan.targets)
         /\ ToSet(plan.targets) \subseteq Assets
         /\ plan.skip \in BOOLEAN
         /\ period_of(plan.rule, Calendar[on], Calendar[plan.anchor]) \in Label
  <1>1. PICK d \in Drafts, i \in DOMAIN Calendar, active \in BOOLEAN :
          plan = [rule |-> d.rule, targets |-> d.targets, skip |-> d.skip,
                  anchor |-> i, active |-> active]
    BY DEF PlanTypeOK, Plan
  <1>2. plan.targets = d.targets /\ plan.skip = d.skip /\ plan.rule = d.rule /\ plan.anchor = i
    BY <1>1
  <1>3. d.targets \in Seq(Assets) /\ IsInjective(d.targets) /\ d.skip \in BOOLEAN
    BY DraftsAreOrdered DEF Targets
  <1>4. ToSet(d.targets) \subseteq Assets
    BY <1>3, LenProperties DEF ToSet
  <1>5. period_of(d.rule, Calendar[on], Calendar[i]) \in Label
    BY DEF Label
  <1> QED BY <1>2, <1>3, <1>4, <1>5

LEMMA TailOfRoute ==
  ASSUME NEW todo \in Seq(Assets), todo # <<>>, IsInjective(todo)
  PROVE  /\ Head(todo) \in Assets /\ Head(todo) \in ToSet(todo)
         /\ Tail(todo) \in Seq(Assets) /\ IsInjective(Tail(todo))
         /\ ToSet(Tail(todo)) = ToSet(todo) \ {Head(todo)}
  <1>1. /\ Len(todo) \in Nat \ {0} /\ DOMAIN todo = 1 .. Len(todo)
        /\ Head(todo) = todo[1]
        /\ Tail(todo) \in Seq(Assets) /\ Len(Tail(todo)) = Len(todo) - 1
        /\ DOMAIN Tail(todo) = 1 .. (Len(todo) - 1)
        /\ \A i \in 1 .. (Len(todo) - 1) : Tail(todo)[i] = todo[i + 1]
    BY HeadTailProperties, LenProperties, EmptySeq
  <1>2. Head(todo) \in Assets /\ Head(todo) \in ToSet(todo)
    BY <1>1, HeadTailProperties DEF ToSet
  <1>3. IsInjective(Tail(todo))
    BY <1>1 DEF IsInjective
  <1>4. ASSUME NEW a PROVE a \in ToSet(Tail(todo)) <=> a \in ToSet(todo) \ {Head(todo)}
    <2>1. CASE a \in ToSet(Tail(todo))
      <3>1. PICK i \in 1 .. (Len(todo) - 1) : a = todo[i + 1]
        BY <1>1, <2>1 DEF ToSet
      <3>2. i + 1 \in 1 .. Len(todo) /\ i + 1 # 1
        BY <1>1
      <3>3. a # todo[1]
        BY <1>1, <3>1, <3>2 DEF IsInjective
      <3> QED BY <1>1, <2>1, <3>1, <3>2, <3>3 DEF ToSet
    <2>2. CASE a \in ToSet(todo) \ {Head(todo)}
      <3>1. PICK i \in 1 .. Len(todo) : a = todo[i]
        BY <1>1, <2>2 DEF ToSet
      <3>2. i # 1 /\ i - 1 \in 1 .. (Len(todo) - 1) /\ (i - 1) + 1 = i
        BY <1>1, <2>2, <3>1
      <3>3. Tail(todo)[i - 1] = a
        BY <1>1, <3>1, <3>2
      <3> QED BY <1>1, <2>2, <3>2, <3>3 DEF ToSet
    <2> QED BY <2>1, <2>2
  <1> QED BY <1>1, <1>2, <1>3, <1>4

-----------------------------------------------------------------------------
(* A step of one run *)

\* Everything but the run stays, save that ids may have been given out.
LEMMA StepOfRun ==
  ASSUME PlansInv, NEW s \in Sessions, NEW x \in Run,
         txn' = [txn EXCEPT ![s] = x],
         RunOK(x, issues, made'),
         \A t \in Sessions \ {s} : txn[t] # Idle =>
           \A r \in x.rows, q \in txn[t].rows : Key(r) # Key(q),
         issues' = issues, orders' = orders, plan' = plan, today' = today, attended' = attended,
         lock' \in Sessions \cup {None}, made' \in 0..MaxOrders, made <= made'
  PROVE  PlansInv'
  <1>1. PlanTypeOK /\ RunsOK /\ Apart /\ IssuedOnce
    BY DEF PlansInv
  <1>2. txn'[s] = x /\ \A t \in Sessions \ {s} : txn'[t] = txn[t]
    <2>1. DOMAIN txn = Sessions
      BY <1>1 DEF PlanTypeOK
    <2> QED BY <2>1
  <1>3. PlanTypeOK'
    BY <1>1, <1>2 DEF PlanTypeOK
  <1>4. RunsOK'
    <2> SUFFICES ASSUME NEW t \in Sessions, txn'[t] # Idle
                 PROVE  RunOK(txn'[t], issues', made')
      BY DEF RunsOK
    <2>1. CASE t = s
      BY <1>2, <2>1
    <2>2. CASE t # s
      <3>1. RunOK(txn[t], issues, made)
        BY <1>1, <1>2, <2>2 DEF RunsOK
      <3>2. txn[t] \in Run
        BY <1>1, <1>2, <2>2 DEF PlanTypeOK
      <3>3. \A o \in txn[t].orders : o.id <= made'
        <4>1. made \in Nat /\ made' \in Nat /\ \A o \in txn[t].orders : o.id \in Nat /\ o.id <= made
          BY <1>1, <3>1, <3>2, PlanBounds DEF RunOK, Run, Order, PlanTypeOK
        <4> QED BY <4>1
      <3>4. RunOK(txn[t], issues, made')
        BY <3>1, <3>3 DEF RunOK
      <3> QED BY <1>2, <2>2, <3>4
    <2> QED BY <2>1, <2>2
  <1>5. Apart'
    <2> SUFFICES ASSUME NEW t \in Sessions, NEW v \in Sessions, t # v, txn'[t] # Idle, txn'[v] # Idle,
                        NEW r \in txn'[t].rows, NEW q \in txn'[v].rows
                 PROVE  Key(r) # Key(q)
      BY DEF Apart
    <2>1. CASE t = s
      BY <1>2, <2>1
    <2>2. CASE v = s
      BY <1>2, <2>2
    <2>3. CASE t # s /\ v # s
      BY <1>1, <1>2, <2>3 DEF Apart
    <2> QED BY <2>1, <2>2, <2>3
  <1>6. IssuedOnce'
    BY <1>1 DEF IssuedOnce
  <1> QED BY <1>3, <1>4, <1>5, <1>6 DEF PlansInv

LEMMA BeginKeeps ==
  ASSUME PlansInv, NEW s \in Sessions, NEW on \in DOMAIN Calendar, Begin(s, on)
  PROVE  PlansInv'
  <1> DEFINE during == period_of(plan.rule, Calendar[on], Calendar[plan.anchor])
             assets == ToSet(plan.targets)
             x == [step |-> "reads", period |-> during, todo |-> plan.targets, skip |-> plan.skip,
                   issued_before |-> {a \in assets : HasRow(a, during)}, pending |-> {}, recent |-> {},
                   rows |-> {}, orders |-> {}, cover |-> assets]
  <1>1. PlanTypeOK
    BY DEF PlansInv
  <1>2. /\ plan.targets \in Seq(Assets) /\ IsInjective(plan.targets)
        /\ assets \subseteq Assets /\ plan.skip \in BOOLEAN /\ during \in Label
    BY <1>1, PlanTold
  <1>3. txn' = [txn EXCEPT ![s] = x]
    BY DEF Begin
  <1>4. UNCHANGED <<today, plan, issues, orders, attended, lock, made, saves>>
    BY DEF Begin
  <1> HIDE DEF during
  <1>5. x \in Run
    BY <1>2 DEF Run
  <1>6. RunOK(x, issues, made')
    <2>1. \A a \in x.issued_before : \E c \in issues : Key(c) = <<a, x.period>>
      BY DEF HasRow
    <2>2. /\ x.rows = {} /\ x.orders = {} /\ x.cover \ ToSet(x.todo) = {} /\ x.step # "issue"
          /\ IsInjective(x.todo)
      BY <1>2
    <2> HIDE DEF x
    <2> QED BY <2>1, <2>2 DEF RunOK
  <1>7. x.rows = {}
    OBVIOUS
  <1>8. /\ issues' = issues /\ orders' = orders /\ plan' = plan /\ today' = today
        /\ attended' = attended /\ lock' \in Sessions \cup {None}
        /\ made' \in 0..MaxOrders /\ made <= made'
    BY <1>1, <1>4, PlanBounds DEF PlanTypeOK
  <1> HIDE DEF x
  <1> QED BY <1>3, <1>5, <1>6, <1>7, <1>8, StepOfRun

\* A run that moves is one of the runs, as it was and apart from the others.
LEMMA OneOfTheRuns ==
  ASSUME PlansInv, NEW s \in Sessions, txn[s].step \in {"reads", "assets", "issue"}
  PROVE  /\ txn[s] # Idle /\ txn[s] \in Run
         /\ RunOK(txn[s], issues, made)
         /\ \A t \in Sessions \ {s} : txn[t] # Idle =>
              \A r \in txn[s].rows, q \in txn[t].rows : Key(r) # Key(q)
  <1>1. txn[s] # Idle
    BY DEF Idle
  <1> QED BY <1>1 DEF PlansInv, PlanTypeOK, RunsOK, Apart

LEMMA ReadFieldKeeps ==
  ASSUME PlansInv, NEW s \in Sessions, ReadField(s)
  PROVE  PlansInv'
  <1> DEFINE y == txn[s]
             pending == {o.asset : o \in {p \in orders : p.state = "planned"}}
             recent == {a \in Assets : txn[s].skip /\ attended[a] # 0}
             x == [y EXCEPT !.step = "assets", !.pending = pending, !.recent = recent]
  <1>1. PlanTypeOK /\ y.step = "reads"
    BY DEF PlansInv, ReadField
  <1>2. /\ y \in Run /\ RunOK(y, issues, made)
        /\ \A t \in Sessions \ {s} : txn[t] # Idle =>
             \A r \in y.rows, q \in txn[t].rows : Key(r) # Key(q)
    BY <1>1, OneOfTheRuns
  <1>3. txn' = [txn EXCEPT ![s] = x]
    BY DEF ReadField
  <1>4. pending \subseteq Assets /\ recent \subseteq Assets
    BY <1>1 DEF PlanTypeOK, Order
  <1>5. UNCHANGED <<today, plan, issues, orders, attended, lock, made, saves>>
    BY DEF ReadField
  <1> HIDE DEF y, pending, recent
  <1>6. /\ x \in Run /\ x.todo = y.todo /\ x.rows = y.rows /\ x.orders = y.orders
        /\ x.period = y.period /\ x.issued_before = y.issued_before /\ x.cover = y.cover
        /\ x.step = "assets"
    BY <1>2, <1>4 DEF Run
  <1> HIDE DEF x
  <1>7. RunOK(x, issues, made')
    BY <1>1, <1>2, <1>5, <1>6 DEF RunOK
  <1>8. /\ issues' = issues /\ orders' = orders /\ plan' = plan /\ today' = today
        /\ attended' = attended /\ lock' \in Sessions \cup {None}
        /\ made' \in 0..MaxOrders /\ made <= made'
    BY <1>1, <1>5, PlanBounds DEF PlanTypeOK
  <1>9. \A t \in Sessions \ {s} : txn[t] # Idle =>
           \A r \in x.rows, q \in txn[t].rows : Key(r) # Key(q)
    BY <1>2, <1>6
  <1> QED BY <1>3, <1>6, <1>7, <1>8, <1>9, StepOfRun

LEMMA SkipIssuedKeeps ==
  ASSUME PlansInv, NEW s \in Sessions, SkipIssued(s)
  PROVE  PlansInv'
  <1> DEFINE y == txn[s]
             x == [y EXCEPT !.todo = Tail(y.todo)]
  <1>1. PlanTypeOK /\ y.step = "assets" /\ y.todo # <<>> /\ Head(y.todo) \in y.issued_before
    BY DEF PlansInv, SkipIssued, AtAsset, Next1
  <1>2. /\ y \in Run /\ RunOK(y, issues, made)
        /\ \A t \in Sessions \ {s} : txn[t] # Idle =>
             \A r \in y.rows, q \in txn[t].rows : Key(r) # Key(q)
    BY <1>1, OneOfTheRuns
  <1>3. txn' = [txn EXCEPT ![s] = x]
    BY DEF SkipIssued
  <1>4. /\ issues' = issues /\ orders' = orders /\ plan' = plan /\ today' = today
        /\ attended' = attended /\ lock' \in Sessions \cup {None} /\ made' = made
        /\ made' \in 0..MaxOrders /\ made <= made'
    BY <1>1, PlanBounds DEF PlanTypeOK, SkipIssued
  <1> HIDE DEF y
  <1>5. /\ Tail(y.todo) \in Seq(Assets) /\ IsInjective(Tail(y.todo))
        /\ ToSet(Tail(y.todo)) = ToSet(y.todo) \ {Head(y.todo)}
    <2>1. y.todo \in Seq(Assets) /\ IsInjective(y.todo)
      BY <1>2 DEF Run, RunOK
    <2> QED BY <1>1, <2>1, TailOfRoute
  <1>6. /\ x \in Run /\ x.todo = Tail(y.todo) /\ x.rows = y.rows /\ x.orders = y.orders
        /\ x.period = y.period /\ x.issued_before = y.issued_before /\ x.cover = y.cover
        /\ x.step = y.step
    BY <1>2, <1>5 DEF Run
  <1> HIDE DEF x
  <1>7. \A a \in x.cover \ ToSet(x.todo) :
          \E row \in issues \cup x.rows : Key(row) = <<a, x.period>>
    BY <1>1, <1>2, <1>5, <1>6 DEF RunOK
  <1>8. RunOK(x, issues, made')
    BY <1>1, <1>2, <1>4, <1>5, <1>6, <1>7 DEF RunOK, Newest
  <1>9. \A t \in Sessions \ {s} : txn[t] # Idle =>
           \A r \in x.rows, q \in txn[t].rows : Key(r) # Key(q)
    BY <1>2, <1>6
  <1> QED BY <1>3, <1>4, <1>6, <1>8, <1>9, StepOfRun

LEMMA RecordSkipKeeps ==
  ASSUME PlansInv, NEW s \in Sessions, RecordSkip(s)
  PROVE  PlansInv'
  <1> DEFINE y == txn[s]
             a == Head(y.todo)
             outcome == IF Next1(s) \in txn[s].pending THEN "trabajo_pendiente" ELSE "atendida_hace_poco"
             new == [asset |-> a, period |-> y.period, outcome |-> outcome, order |-> NoOrder]
             rows == IF HasRow(a, y.period) THEN y.rows ELSE y.rows \cup {new}
             x == [y EXCEPT !.rows = rows, !.todo = Tail(y.todo)]
  <1>1. PlanTypeOK /\ y.step = "assets" /\ y.todo # <<>>
    BY DEF PlansInv, RecordSkip, AtAsset
  <1>2. /\ y # Idle /\ y \in Run /\ RunOK(y, issues, made)
        /\ \A t \in Sessions \ {s} : txn[t] # Idle =>
             \A r \in y.rows, q \in txn[t].rows : Key(r) # Key(q)
    BY <1>1, OneOfTheRuns
  <1>3. txn' = [txn EXCEPT ![s] = x]
    BY DEF RecordSkip, SkipRows, Row, Next1
  <1>4. /\ issues' = issues /\ orders' = orders /\ plan' = plan /\ today' = today
        /\ attended' = attended /\ lock' \in Sessions \cup {None} /\ made' = made
        /\ made' \in 0..MaxOrders /\ made <= made'
    BY <1>1, PlanBounds DEF PlanTypeOK, RecordSkip
  <1>5. outcome \in IssueOutcome
    BY DEF IssueOutcome
  <1>6. \A t \in Sessions \ {s} : txn[t] # Idle =>
          \A q \in txn[t].rows : Key(q) # <<a, y.period>>
    BY DEF RecordSkip, Waits, Next1
  <1> HIDE DEF y, outcome
  <1>7. /\ a \in Assets /\ a \in ToSet(y.todo)
        /\ Tail(y.todo) \in Seq(Assets) /\ IsInjective(Tail(y.todo))
        /\ ToSet(Tail(y.todo)) = ToSet(y.todo) \ {a}
    <2>1. y.todo \in Seq(Assets) /\ IsInjective(y.todo)
      BY <1>2 DEF Run, RunOK
    <2> QED BY <1>1, <2>1, TailOfRoute
  <1>8. new \in PlanIssue /\ Key(new) = <<a, y.period>> /\ new.asset = a /\ new.period = y.period
    BY <1>2, <1>5, <1>7, PlanBounds DEF PlanIssue, Run, NoOrder, Key
  <1> HIDE DEF a, new
  <1>9. rows \subseteq PlanIssue /\ y.rows \subseteq rows
    BY <1>2, <1>8 DEF Run
  <1>10. \A r \in rows : r \in y.rows \/ (r = new /\ ~HasRow(a, y.period))
    OBVIOUS
  <1>11. \E r \in issues \cup rows : Key(r) = <<a, y.period>>
    BY <1>8 DEF HasRow
  <1> HIDE DEF rows
  <1>12. /\ x \in Run /\ x.todo = Tail(y.todo) /\ x.rows = rows /\ x.orders = y.orders
         /\ x.period = y.period /\ x.issued_before = y.issued_before /\ x.cover = y.cover
         /\ x.step = y.step
    BY <1>2, <1>7, <1>9 DEF Run
  <1> HIDE DEF x
  <1>13. RunOK(x, issues, made')
    <2>1. ASSUME NEW r \in x.rows
          PROVE  /\ r.period = x.period /\ r.asset \notin ToSet(x.todo)
                 /\ \A c \in issues : Key(c) # Key(r)
      BY <1>2, <1>7, <1>8, <1>10, <1>12 DEF RunOK, HasRow
    <2>2. \A r1, r2 \in x.rows : Key(r1) = Key(r2) => r1 = r2
      <3>1. \A r \in y.rows : Key(r) # Key(new)
        BY <1>2, <1>7, <1>8 DEF RunOK, Key
      <3> QED BY <1>2, <1>10, <1>12, <3>1 DEF RunOK
    <2>3. \A o \in x.orders : o.state # "anulada" => \E row \in x.rows : Names(row, o)
      BY <1>1, <1>2, <1>9, <1>12 DEF RunOK
    <2>4. \A b \in x.cover \ ToSet(x.todo) :
            \E row \in issues \cup x.rows : Key(row) = <<b, x.period>>
      BY <1>2, <1>7, <1>9, <1>11, <1>12 DEF RunOK
    <2> QED BY <1>1, <1>2, <1>4, <1>7, <1>12, <2>1, <2>2, <2>3, <2>4 DEF RunOK
  <1>14. \A t \in Sessions \ {s} : txn[t] # Idle =>
           \A r \in x.rows, q \in txn[t].rows : Key(r) # Key(q)
    BY <1>2, <1>6, <1>8, <1>10, <1>12
  <1> QED BY <1>3, <1>4, <1>12, <1>13, <1>14, StepOfRun

LEMMA CreateOrderKeeps ==
  ASSUME PlansInv, NEW s \in Sessions, CreateOrder(s)
  PROVE  PlansInv'
  <1> DEFINE y == txn[s]
             a == Head(y.todo)
             new == [id |-> made + 1, asset |-> a, period |-> y.period, state |-> "planned"]
             x == [y EXCEPT !.step = "issue", !.orders = y.orders \cup {new}]
  <1>1. PlanTypeOK /\ y.step = "assets" /\ y.todo # <<>>
    BY DEF PlansInv, CreateOrder, AtAsset
  <1>2. /\ y # Idle /\ y \in Run /\ RunOK(y, issues, made)
        /\ \A t \in Sessions \ {s} : txn[t] # Idle =>
             \A r \in y.rows, q \in txn[t].rows : Key(r) # Key(q)
    BY <1>1, OneOfTheRuns
  <1>3. txn' = [txn EXCEPT ![s] = x]
    BY DEF CreateOrder, Next1
  <1>4. /\ issues' = issues /\ orders' = orders /\ plan' = plan /\ today' = today
        /\ attended' = attended /\ lock' \in Sessions \cup {None} /\ made' = made + 1
        /\ made \in Nat /\ made' \in 1..MaxOrders /\ made' \in 0..MaxOrders /\ made <= made'
    BY <1>1, PlanBounds DEF PlanTypeOK, CreateOrder
  <1> HIDE DEF y
  <1>5. a \in Assets
    <2>1. y.todo \in Seq(Assets) /\ IsInjective(y.todo)
      BY <1>2 DEF Run, RunOK
    <2> QED BY <1>1, <2>1, TailOfRoute
  <1>6. /\ new \in Order /\ new.id = made' /\ new.asset = a /\ new.period = y.period
    BY <1>2, <1>4, <1>5 DEF Order, Run
  <1> HIDE DEF new
  <1>7. /\ x \in Run /\ x.todo = y.todo /\ x.rows = y.rows /\ x.orders = y.orders \cup {new}
        /\ x.period = y.period /\ x.issued_before = y.issued_before /\ x.cover = y.cover
        /\ x.step = "issue"
    BY <1>2, <1>6 DEF Run
  <1>8. \A o \in y.orders : o.id \in Nat /\ o.id <= made
    BY <1>2 DEF Run, Order, RunOK
  <1> HIDE DEF x
  <1>9. RunOK(x, issues, made')
    <2>1. Newest(x, new)
      BY <1>4, <1>6, <1>7, <1>8 DEF Newest
    <2>2. \A o \in x.orders : o.id <= made'
      BY <1>4, <1>6, <1>7, <1>8
    <2>3. \A o1, o2 \in x.orders : o1.id = o2.id => o1 = o2
      <3>1. \A o \in y.orders : o.id # new.id
        BY <1>4, <1>6, <1>8
      <3> QED BY <1>2, <1>7, <3>1 DEF RunOK
    <2>4. \A o \in x.orders : o.state # "anulada" =>
            \/ \E row \in x.rows : Names(row, o)
            \/ x.step = "issue" /\ Newest(x, o)
      BY <1>1, <1>2, <1>7, <2>1 DEF RunOK
    <2>5. x.todo # <<>> /\ new \in x.orders /\ new.asset = Head(x.todo) /\ new.period = x.period
      BY <1>1, <1>6, <1>7 DEF a
    <2> QED BY <1>2, <1>7, <2>1, <2>2, <2>3, <2>4, <2>5 DEF RunOK
  <1>10. \A t \in Sessions \ {s} : txn[t] # Idle =>
           \A r \in x.rows, q \in txn[t].rows : Key(r) # Key(q)
    BY <1>2, <1>7
  <1> QED BY <1>3, <1>4, <1>7, <1>9, <1>10, StepOfRun

\* The order whose row is next is the newest of the run.
LEMMA NewestOfRun ==
  ASSUME NEW run \in Run, NEW committed, NEW given, RunOK(run, committed, given), run.step = "issue"
  PROVE  \E n \in run.orders :
           /\ n = CHOOSE o \in run.orders : \A p \in run.orders : p.id <= o.id
           /\ n.asset = Head(run.todo) /\ n.period = run.period
           /\ \A o \in run.orders : Newest(run, o) => o = n
           /\ \A o \in run.orders : o.id = n.id => o = n
  <1>1. PICK n \in run.orders : Newest(run, n) /\ n.asset = Head(run.todo) /\ n.period = run.period
    BY DEF RunOK
  <1>2. \A o \in run.orders : Newest(run, o) => o = n
    <2>1. \A o \in run.orders : o.id \in Nat
      BY DEF Run, Order
    <2>2. \A o \in run.orders : Newest(run, o) => o.id = n.id
      BY <1>1, <2>1 DEF Newest
    <2> QED BY <2>2 DEF RunOK
  <1> DEFINE m == CHOOSE o \in run.orders : \A p \in run.orders : p.id <= o.id
  <1>3. m \in run.orders /\ Newest(run, m)
    BY <1>1 DEF Newest
  <1>4. m = n
    <2> HIDE DEF m
    <2> QED BY <1>2, <1>3
  <1>5. \A o \in run.orders : o.id = n.id => o = n
    BY DEF RunOK
  <1> QED BY <1>1, <1>2, <1>4, <1>5

LEMMA RecordIssueKeeps ==
  ASSUME PlansInv, NEW s \in Sessions, RecordIssue(s)
  PROVE  PlansInv'
  <1> DEFINE y == txn[s]
             a == Head(y.todo)
  <1>1. PlanTypeOK /\ y.step = "issue"
    BY DEF PlansInv, RecordIssue
  <1>2. /\ y # Idle /\ y \in Run /\ RunOK(y, issues, made) /\ y.todo # <<>>
        /\ \A t \in Sessions \ {s} : txn[t] # Idle =>
             \A r \in y.rows, q \in txn[t].rows : Key(r) # Key(q)
    BY <1>1, OneOfTheRuns DEF RunOK
  <1>3. PICK n \in y.orders :
           /\ n = CHOOSE o \in y.orders : \A p \in y.orders : p.id <= o.id
           /\ n.asset = a /\ n.period = y.period
           /\ \A o \in y.orders : Newest(y, o) => o = n
           /\ \A o \in y.orders : o.id = n.id => o = n
    BY <1>1, <1>2, NewestOfRun
  <1> DEFINE cancelled == {IF o.id = n.id THEN [o EXCEPT !.state = "anulada"] ELSE o : o \in y.orders}
             new == [asset |-> a, period |-> y.period, outcome |-> "emitida", order |-> n.id]
  <1>4. /\ issues' = issues /\ orders' = orders /\ plan' = plan /\ today' = today
        /\ attended' = attended /\ lock' \in Sessions \cup {None} /\ made' = made
        /\ made' \in 0..MaxOrders /\ made <= made'
    BY <1>1, PlanBounds DEF PlanTypeOK, RecordIssue
  <1>5. \A t \in Sessions \ {s} : txn[t] # Idle =>
          \A q \in txn[t].rows : Key(q) # <<a, y.period>>
    BY DEF RecordIssue, Waits, Next1
  <1>6. IF HasRow(a, y.period)
        THEN txn' = [txn EXCEPT ![s] = [y EXCEPT !.step = "assets", !.todo = Tail(y.todo),
                                                 !.orders = cancelled]]
        ELSE txn' = [txn EXCEPT ![s] = [y EXCEPT !.step = "assets", !.todo = Tail(y.todo),
                                                 !.rows = y.rows \cup {new}]]
    <2> DEFINE id == (CHOOSE o \in txn[s].orders : \A p \in txn[s].orders : p.id <= o.id).id
    <2>1. id = n.id
      BY <1>3
    <2>2. IF HasRow(Next1(s), txn[s].period)
          THEN txn' = [txn EXCEPT ![s].step = "assets", ![s].todo = Tail(@),
                                  ![s].orders = Cancelled(txn[s].orders, id)]
          ELSE txn' = [txn EXCEPT ![s].step = "assets", ![s].todo = Tail(@),
                                  ![s].rows = @ \cup {Row(s, "emitida", id)}]
      BY DEF RecordIssue
    <2> HIDE DEF id
    <2>3. CASE HasRow(a, y.period)
      <3>1. Cancelled(txn[s].orders, id) = cancelled
        BY <2>1 DEF Cancelled
      <3>2. txn' = [txn EXCEPT ![s].step = "assets", ![s].todo = Tail(@),
                               ![s].orders = Cancelled(txn[s].orders, id)]
        BY <2>2, <2>3 DEF Next1
      <3> HIDE DEF cancelled
      <3> QED BY <2>3, <3>1, <3>2
    <2>4. CASE ~HasRow(a, y.period)
      <3>1. Row(s, "emitida", id) = new
        BY <2>1 DEF Row, Next1
      <3>2. txn' = [txn EXCEPT ![s].step = "assets", ![s].todo = Tail(@),
                               ![s].rows = @ \cup {Row(s, "emitida", id)}]
        BY <2>2, <2>4 DEF Next1
      <3> HIDE DEF new
      <3> QED BY <2>4, <3>1, <3>2
    <2> QED BY <2>3, <2>4
  <1>7. /\ y.todo \in Seq(Assets) /\ IsInjective(y.todo)
    BY <1>2 DEF Run, RunOK
  <1> HIDE DEF y
  <1>8. /\ a \in Assets /\ a \in ToSet(y.todo)
        /\ Tail(y.todo) \in Seq(Assets) /\ IsInjective(Tail(y.todo))
        /\ ToSet(Tail(y.todo)) = ToSet(y.todo) \ {a}
    BY <1>2, <1>7, TailOfRoute
  <1> HIDE DEF a
  <1>9. \A o \in y.orders : o.state # "anulada" /\ o # n => \E row \in y.rows : Names(row, o)
    BY <1>2, <1>3 DEF RunOK
  <1>10. \A o \in y.orders : o \in Order
    BY <1>2 DEF Run
  <1>11. CASE HasRow(a, y.period)
    <2> DEFINE x == [y EXCEPT !.step = "assets", !.todo = Tail(y.todo), !.orders = cancelled]
    <2>1. \A o \in cancelled :
            /\ o \in Order
            /\ \E p \in y.orders : p.id = o.id /\ (o = p \/ (p = n /\ o.state = "anulada"))
      <3> SUFFICES ASSUME NEW p \in y.orders,
                          NEW o, o = IF p.id = n.id THEN [p EXCEPT !.state = "anulada"] ELSE p
                   PROVE  o \in Order /\ p.id = o.id /\ (o = p \/ (p = n /\ o.state = "anulada"))
        OBVIOUS
      <3> QED BY <1>3, <1>10 DEF Order
    <2>2. \A o1, o2 \in cancelled : o1.id = o2.id => o1 = o2
      <3> SUFFICES ASSUME NEW p \in y.orders, NEW q \in y.orders,
                          NEW o1, o1 = (IF p.id = n.id THEN [p EXCEPT !.state = "anulada"] ELSE p),
                          NEW o2, o2 = (IF q.id = n.id THEN [q EXCEPT !.state = "anulada"] ELSE q),
                          o1.id = o2.id
                   PROVE  o1 = o2
        OBVIOUS
      <3>1. o1.id = p.id /\ o2.id = q.id
        BY <1>10 DEF Order
      <3>2. p = q
        BY <1>2, <3>1 DEF RunOK
      <3> QED BY <3>2
    <2> HIDE DEF cancelled
    <2>3. /\ x \in Run /\ x.todo = Tail(y.todo) /\ x.rows = y.rows /\ x.orders = cancelled
          /\ x.period = y.period /\ x.issued_before = y.issued_before /\ x.cover = y.cover
          /\ x.step = "assets"
      BY <1>2, <1>8, <2>1 DEF Run
    <2>4. txn' = [txn EXCEPT ![s] = x]
      BY <1>6, <1>11
    <2> HIDE DEF x
    <2>5. RunOK(x, issues, made')
      <3>1. \A o \in x.orders : o.id <= made'
        BY <1>2, <1>4, <2>1, <2>3 DEF RunOK
      <3>2. \A o \in x.orders : o.state # "anulada" => \E row \in x.rows : Names(row, o)
        <4> SUFFICES ASSUME NEW o \in x.orders, o.state # "anulada"
                     PROVE  \E row \in x.rows : Names(row, o)
          OBVIOUS
        <4>1. PICK p \in y.orders : p.id = o.id /\ (o = p \/ (p = n /\ o.state = "anulada"))
          BY <2>1, <2>3
        <4>2. CASE o # n
          BY <1>9, <2>3, <4>1, <4>2
        <4>3. CASE o = n
          <5>1. o \notin cancelled
            <6>1. \A p2 \in y.orders : n # (IF p2.id = n.id THEN [p2 EXCEPT !.state = "anulada"] ELSE p2)
              <7> SUFFICES ASSUME NEW p2 \in y.orders, p2.id = n.id,
                                  n = [p2 EXCEPT !.state = "anulada"]
                           PROVE  FALSE
                OBVIOUS
              <7> QED BY <1>10, <4>3 DEF Order
            <6> QED BY <4>3, <6>1 DEF cancelled
          <5> QED BY <2>3, <5>1
        <4> QED BY <4>2, <4>3
      <3>3. \A b \in x.cover \ ToSet(x.todo) :
              \E row \in issues \cup x.rows : Key(row) = <<b, x.period>>
        BY <1>2, <1>8, <1>11, <2>3 DEF RunOK, HasRow
      <3> QED BY <1>2, <1>8, <2>2, <2>3, <3>1, <3>2, <3>3 DEF RunOK
    <2>6. \A t \in Sessions \ {s} : txn[t] # Idle =>
            \A r \in x.rows, q \in txn[t].rows : Key(r) # Key(q)
      BY <1>2, <2>3
    <2> QED BY <1>4, <2>3, <2>4, <2>5, <2>6, StepOfRun
  <1>12. CASE ~HasRow(a, y.period)
    <2> DEFINE x == [y EXCEPT !.step = "assets", !.todo = Tail(y.todo), !.rows = y.rows \cup {new}]
    <2>1. /\ new \in PlanIssue /\ Key(new) = <<a, y.period>> /\ new.asset = a
          /\ new.period = y.period /\ Names(new, n)
      BY <1>2, <1>3, <1>8, <1>10, PlanBounds DEF PlanIssue, Run, Order, NoOrder, Key, IssueOutcome, Names
    <2> HIDE DEF new
    <2>2. /\ x \in Run /\ x.todo = Tail(y.todo) /\ x.rows = y.rows \cup {new} /\ x.orders = y.orders
          /\ x.period = y.period /\ x.issued_before = y.issued_before /\ x.cover = y.cover
          /\ x.step = "assets"
      BY <1>2, <1>8, <2>1 DEF Run
    <2>3. txn' = [txn EXCEPT ![s] = x]
      BY <1>6, <1>12
    <2> HIDE DEF x
    <2>4. RunOK(x, issues, made')
      <3>1. ASSUME NEW r \in x.rows
            PROVE  /\ r.period = x.period /\ r.asset \notin ToSet(x.todo)
                   /\ \A c \in issues : Key(c) # Key(r)
        BY <1>2, <1>8, <1>12, <2>1, <2>2 DEF RunOK, HasRow
      <3>2. \A r1, r2 \in x.rows : Key(r1) = Key(r2) => r1 = r2
        <4>1. \A r \in y.rows : Key(r) # Key(new)
          BY <1>2, <1>8, <2>1 DEF RunOK, Key
        <4> QED BY <1>2, <2>2, <4>1 DEF RunOK
      <3>3. \A o \in x.orders : o.state # "anulada" => \E row \in x.rows : Names(row, o)
        BY <1>9, <2>1, <2>2
      <3>4. \A b \in x.cover \ ToSet(x.todo) :
              \E row \in issues \cup x.rows : Key(row) = <<b, x.period>>
        BY <1>2, <1>8, <2>1, <2>2 DEF RunOK
      <3> QED BY <1>2, <1>4, <1>8, <2>2, <3>1, <3>2, <3>3, <3>4 DEF RunOK
    <2>5. \A t \in Sessions \ {s} : txn[t] # Idle =>
            \A r \in x.rows, q \in txn[t].rows : Key(r) # Key(q)
      BY <1>2, <1>5, <2>1, <2>2
    <2> QED BY <1>4, <2>2, <2>3, <2>4, <2>5, StepOfRun
  <1> QED BY <1>11, <1>12

-----------------------------------------------------------------------------
(* A run that ends *)

LEMMA RunCommitKeeps ==
  ASSUME PlansInv, NEW s \in Sessions, RunCommit(s)
  PROVE  PlansInv'
  <1> DEFINE y == txn[s]
  <1>1. PlanTypeOK /\ RunsOK /\ Apart /\ IssuedOnce /\ y.step = "assets"
    BY DEF PlansInv, RunCommit
  <1>2. /\ y # Idle /\ y \in Run /\ RunOK(y, issues, made)
        /\ \A t \in Sessions \ {s} : txn[t] # Idle =>
             \A r \in y.rows, q \in txn[t].rows : Key(r) # Key(q)
    BY <1>1, OneOfTheRuns
  <1>3. /\ issues' = issues \cup y.rows /\ orders' = orders \cup y.orders
        /\ lock' = None /\ txn' = [txn EXCEPT ![s] = Idle]
        /\ plan' = plan /\ today' = today /\ attended' = attended /\ made' = made
    BY DEF RunCommit
  <1> HIDE DEF y
  <1>4. txn'[s] = Idle /\ \A t \in Sessions \ {s} : txn'[t] = txn[t]
    BY <1>1, <1>3 DEF PlanTypeOK
  <1>5. PlanTypeOK'
    BY <1>1, <1>2, <1>3 DEF PlanTypeOK, Run
  <1>6. RunsOK'
    <2> SUFFICES ASSUME NEW t \in Sessions, txn'[t] # Idle
                 PROVE  RunOK(txn[t], issues', made')
      BY <1>4 DEF RunsOK
    <2>1. t # s
      BY <1>4
    <2>2. RunOK(txn[t], issues, made) /\ txn[t] # Idle
      BY <1>1, <1>4, <2>1 DEF RunsOK
    <2> DEFINE z == txn[t]
    <2>3. \A q \in z.rows : \A c \in issues' : Key(c) # Key(q)
      BY <1>2, <1>3, <2>1, <2>2 DEF RunOK
    <2> HIDE DEF z
    <2>4. RunOK(z, issues, made)
      BY <2>2 DEF z
    <2>5. /\ \A a \in z.issued_before : \E c \in issues' : Key(c) = <<a, z.period>>
          /\ \A a \in z.cover \ ToSet(z.todo) :
               \E row \in issues' \cup z.rows : Key(row) = <<a, z.period>>
      BY <1>3, <2>4 DEF RunOK
    <2>6. RunOK(z, issues', made')
      BY <1>3, <2>3, <2>4, <2>5 DEF RunOK
    <2> QED BY <2>6 DEF z
  <1>7. Apart'
    BY <1>1, <1>4 DEF Apart
  <1>8. IssuedOnce'
    <2>1. \A r1, r2 \in issues' : Key(r1) = Key(r2) => r1 = r2
      <3>1. \A r1, r2 \in issues : Key(r1) = Key(r2) => r1 = r2
        BY <1>1 DEF IssuedOnce
      <3>2. \A r1, r2 \in y.rows : Key(r1) = Key(r2) => r1 = r2
        BY <1>2 DEF RunOK
      <3>3. \A r1 \in y.rows, r2 \in issues : Key(r1) # Key(r2)
        BY <1>2 DEF RunOK
      <3> QED BY <1>3, <3>1, <3>2, <3>3
    <2>2. \A o \in orders' : o.state # "anulada" =>
            \E row \in issues' : Key(row) = Key(o) /\ row.order = o.id
      <3>1. \A o \in orders : o.state # "anulada" =>
              \E row \in issues : Key(row) = Key(o) /\ row.order = o.id
        BY <1>1 DEF IssuedOnce
      <3>2. \A o \in y.orders : o.state # "anulada" =>
              \E row \in y.rows : Key(row) = Key(o) /\ row.order = o.id
        BY <1>1, <1>2 DEF RunOK, Names
      <3> QED BY <1>3, <3>1, <3>2
    <2> QED BY <2>1, <2>2 DEF IssuedOnce
  <1> QED BY <1>5, <1>6, <1>7, <1>8 DEF PlansInv

\* Steps that touch no row and start no run; a run may end.
LEMMA OthersKeep ==
  ASSUME PlansInv, PlanTypeOK', issues' = issues, made' = made, IssuedOnce',
         \A s \in Sessions : txn'[s] = txn[s] \/ txn'[s] = Idle
  PROVE  PlansInv'
  <1>1. RunsOK'
    <2> SUFFICES ASSUME NEW t \in Sessions, txn'[t] # Idle
                 PROVE  RunOK(txn'[t], issues', made')
      BY DEF RunsOK
    <2> QED BY DEF PlansInv, RunsOK
  <1>2. Apart'
    BY DEF PlansInv, Apart
  <1> QED BY <1>1, <1>2 DEF PlansInv

LEMMA PlansStart == PlanInit => PlansInv
  BY PlanStartsTyped DEF PlanInit, PlansInv, RunsOK, Apart, IssuedOnce

LEMMA PlansStep == PlansInv /\ [PlanNext]_plvars => PlansInv'
  <1> SUFFICES ASSUME PlansInv, [PlanNext]_plvars PROVE PlansInv'
    OBVIOUS
  <1>1. PlanTypeOK /\ IssuedOnce
    BY DEF PlansInv
  <1>2. CASE NewDay
    <2>1. today' \in DOMAIN Calendar
      BY <1>1, <1>2, DaysOfTheCalendar DEF NewDay, PlanTypeOK
    <2>2. /\ plan' = plan /\ issues' = issues /\ orders' = orders /\ attended' = attended
          /\ lock' = lock /\ txn' = txn /\ made' = made
      BY <1>2 DEF NewDay
    <2>3. PlanTypeOK' /\ IssuedOnce'
      BY <1>1, <2>1, <2>2 DEF PlanTypeOK, IssuedOnce
    <2> QED BY <2>2, <2>3, OthersKeep
  <1>3. CASE save_plan
    <2>1. /\ today' = today /\ issues' = issues /\ orders' = orders /\ attended' = attended
          /\ lock' = lock /\ txn' = txn /\ made' = made /\ plan' \in Plan
      BY <1>3 DEF save_plan
    <2>2. PlanTypeOK' /\ IssuedOnce'
      BY <1>1, <2>1 DEF PlanTypeOK, IssuedOnce
    <2> QED BY <2>1, <2>2, OthersKeep
  <1>4. CASE OrderEnds
    <2>1. PICK o \in orders, final \in {"attended", "cancelled"} :
            /\ o.state = "planned"
            /\ orders' = (orders \ {o}) \cup {[o EXCEPT !.state = final]}
            /\ attended' = IF final = "attended" THEN [attended EXCEPT ![o.asset] = today]
                           ELSE attended
      BY <1>4 DEF OrderEnds
    <2>2. /\ today' = today /\ plan' = plan /\ issues' = issues /\ lock' = lock
          /\ txn' = txn /\ made' = made
      BY <1>4 DEF OrderEnds
    <2> DEFINE ended == [o EXCEPT !.state = final]
    <2>3. /\ ended \in Order /\ Key(ended) = Key(o) /\ ended.id = o.id /\ o.asset \in Assets
          /\ o.state # "anulada"
      BY <1>1, <2>1 DEF PlanTypeOK, Order, Key
    <2> HIDE DEF ended
    <2>4. attended' \in [Assets -> 0..Len(Calendar)]
      BY <1>1, <2>1, <2>3, DaysOfTheCalendar DEF PlanTypeOK
    <2>5. PlanTypeOK'
      <3>1. orders' \subseteq Order
        BY <1>1, <2>1, <2>3 DEF PlanTypeOK, ended
      <3> QED BY <1>1, <2>2, <2>4, <3>1 DEF PlanTypeOK
    <2>6. IssuedOnce'
      <3>1. \A p \in orders' : p \in orders \/ p = ended
        BY <2>1 DEF ended
      <3>2. \E row \in issues : Key(row) = Key(ended) /\ row.order = ended.id
        BY <1>1, <2>3 DEF IssuedOnce
      <3> QED BY <1>1, <2>2, <3>1, <3>2 DEF IssuedOnce
    <2> QED BY <2>2, <2>5, <2>6, OthersKeep
  <1>5. ASSUME NEW s \in Sessions, run_due(s) \/ run_plan(s) PROVE PlansInv'
    <2>1. PICK on \in DOMAIN Calendar : Begin(s, on)
      BY <1>1, <1>5 DEF run_due, run_plan, PlanTypeOK
    <2> QED BY <2>1, BeginKeeps
  <1>6. ASSUME NEW s \in Sessions, RunAborts(s) PROVE PlansInv'
    <2>1. /\ txn' = [txn EXCEPT ![s] = Idle] /\ lock' \in {None, lock}
          /\ today' = today /\ plan' = plan /\ issues' = issues /\ orders' = orders
          /\ attended' = attended /\ made' = made
      BY <1>6 DEF RunAborts
    <2>2. PlanTypeOK' /\ IssuedOnce'
      BY <1>1, <2>1 DEF PlanTypeOK, IssuedOnce
    <2>3. \A t \in Sessions : txn'[t] = txn[t] \/ txn'[t] = Idle
      BY <1>1, <2>1 DEF PlanTypeOK
    <2> QED BY <2>1, <2>2, <2>3, OthersKeep
  <1>7. CASE UNCHANGED plvars
    <2>1. /\ today' = today /\ plan' = plan /\ issues' = issues /\ orders' = orders
          /\ attended' = attended /\ lock' = lock /\ txn' = txn /\ made' = made
      BY <1>7 DEF plvars
    <2>2. PlanTypeOK' /\ IssuedOnce'
      BY <1>1, <2>1 DEF PlanTypeOK, IssuedOnce
    <2> QED BY <2>1, <2>2, OthersKeep
  <1> QED BY <1>2, <1>3, <1>4, <1>5, <1>6, <1>7, ReadFieldKeeps, SkipIssuedKeeps, RecordSkipKeeps,
             CreateOrderKeeps, RecordIssueKeeps, RunCommitKeeps DEF PlanNext

\* Plans, runs, rows and orders are values of their kinds.
THEOREM PlansTyped == PlanSpec => []PlanTypeOK
  <1>1. PlansInv => PlanTypeOK
    BY DEF PlansInv
  <1> QED BY <1>1, PlansStart, PlansStep, PTL DEF PlanSpec

\* RF-012: no asset gets two orders of a plan for one period (`_record_issue`
\* and the order its loser cancels, plans/service.py).
THEOREM AlwaysIssuedOnce == PlanSpec => []IssuedOnce
  <1>1. PlansInv => IssuedOnce
    BY DEF PlansInv
  <1> QED BY <1>1, PlansStart, PlansStep, PTL DEF PlanSpec

\* Every asset a run went through has a row of its period (`run_plan`).
THEOREM EveryAssetAlwaysRecorded == PlanSpec => []EveryAssetRecorded
  <1>1. PlansInv => EveryAssetRecorded
    BY DEF PlansInv, RunsOK, RunOK, EveryAssetRecorded
  <1> QED BY <1>1, PlansStart, PlansStep, PTL DEF PlanSpec

\* No asset is served twice in a period, and none is passed over in silence.
THEOREM AlwaysOnceAPeriod == PlanSpec => []OnceAPeriod
  BY AlwaysIssuedOnce, EveryAssetAlwaysRecorded, PTL DEF OnceAPeriod

-----------------------------------------------------------------------------
(****************************************************************************)
(* FRONTS OF A WORK: the work settles last                                  *)
(****************************************************************************)

\* One session at a time attaches, separates and moves orders.
OnePlanner == \A s, t \in Planners : s = t

\* What an open request judged, of the rows as they are now.
Holds(request) ==
  /\ request.act = "attach" => MayAttach(request.front, request.work)
  /\ request.act = "transition" =>
       /\ request.target \in TRANSITIONS[state[request.order]]
       /\ blocking_fronts(request.order, request.target) = {}

JudgedStill == \A s \in Planners : Holds(req[s])

FrontInv == FrontTypeOK /\ OneLevel /\ SettledLast /\ JudgedStill

LEMMA SettledHasNoExit ==
  ASSUME NEW st \in WorkOrderState, NEW target \in TRANSITIONS[st]
  PROVE  st \notin Settled
  BY DEF WorkOrderState, TRANSITIONS, Settled

\* A request that opens has judged the rows as they are.
LEMMA FrontOpens ==
  ASSUME FrontInv, NEW s \in Planners, NEW request \in Request, Opens(s, request),
         UNCHANGED <<state, parent>>,
         Holds(request)
  PROVE  FrontInv'
  <1>1. FrontTypeOK'
    BY DEF FrontInv, FrontTypeOK, Opens
  <1>2. OneLevel' /\ SettledLast'
    BY DEF FrontInv, OneLevel, SettledLast, open_fronts, children_of
  <1>3. ASSUME NEW r \in Request, Holds(r)
        PROVE  Holds(r)'
    BY <1>3 DEF Holds, MayAttach, blocking_fronts, open_fronts, children_of
  <1>4. \A t \in Planners : req'[t] = IF t = s THEN request ELSE req[t]
    BY DEF Opens, FrontInv, FrontTypeOK
  <1>5. JudgedStill'
    BY <1>3, <1>4 DEF FrontInv, FrontTypeOK, JudgedStill
  <1> QED BY <1>1, <1>2, <1>5 DEF FrontInv

LEMMA FrontBegins ==
  ASSUME FrontInv, NEW s \in Planners, AttachBegin(s) \/ DetachBegin(s) \/ TransitionBegin(s)
  PROVE  FrontInv'
  <1>1. CASE AttachBegin(s)
    <2>1. PICK front, work \in Orders :
            MayAttach(front, work) /\ Opens(s, [act |-> "attach", front |-> front, work |-> work])
      BY <1>1 DEF AttachBegin
    <2> DEFINE request == [act |-> "attach", front |-> front, work |-> work]
    <2>2. request \in Request /\ request.act = "attach" /\ request.front = front /\ request.work = work
      BY DEF Request
    <2>3. Opens(s, request) /\ UNCHANGED <<state, parent>>
      BY <1>1, <2>1 DEF AttachBegin
    <2> HIDE DEF request
    <2> QED BY <2>1, <2>2, <2>3, FrontOpens DEF Holds
  <1>2. CASE DetachBegin(s)
    <2>1. PICK front \in Orders : Opens(s, [act |-> "detach", front |-> front])
      BY <1>2 DEF DetachBegin
    <2> DEFINE request == [act |-> "detach", front |-> front]
    <2>2. request \in Request /\ request.act = "detach"
      BY DEF Request
    <2>3. Opens(s, request) /\ UNCHANGED <<state, parent>>
      BY <1>2, <2>1 DEF DetachBegin
    <2> HIDE DEF request
    <2> QED BY <2>2, <2>3, FrontOpens DEF Holds
  <1>3. CASE TransitionBegin(s)
    <2>1. PICK o \in Orders, target \in Reached :
            /\ target \in TRANSITIONS[state[o]]
            /\ blocking_fronts(o, target) = {}
            /\ Opens(s, [act |-> "transition", order |-> o, target |-> target])
      BY <1>3 DEF TransitionBegin
    <2> DEFINE request == [act |-> "transition", order |-> o, target |-> target]
    <2>2. /\ request \in Request /\ request.act = "transition"
          /\ request.order = o /\ request.target = target
      BY DEF Request
    <2>3. Opens(s, request) /\ UNCHANGED <<state, parent>>
      BY <1>3, <2>1 DEF TransitionBegin
    <2> HIDE DEF request
    <2> QED BY <2>1, <2>2, <2>3, FrontOpens DEF Holds
  <1> QED BY <1>1, <1>2, <1>3

\* With one session, nothing is open once its request has ended.
LEMMA FrontEnded ==
  ASSUME FrontInv, OnePlanner, NEW s \in Planners, Ends(s)
  PROVE  req' \in [Planners -> Request] /\ JudgedStill'
  <1>1. req' \in [Planners -> Request]
    BY DEF FrontInv, FrontTypeOK, Ends, Request
  <1>2. \A t \in Planners : req'[t] = NoRequest
    BY DEF FrontInv, FrontTypeOK, Ends, OnePlanner
  <1> QED BY <1>1, <1>2 DEF JudgedStill, Holds, NoRequest

LEMMA FrontAttached ==
  ASSUME FrontInv, OnePlanner, NEW s \in Planners, AttachCommit(s)
  PROVE  FrontInv'
  <1>1. req[s] \in [act: {"attach"}, front: Orders, work: Orders]
    BY DEF FrontInv, FrontTypeOK, Request, NoRequest, AttachCommit
  <1>2. PICK front \in Orders, work \in Orders :
          /\ parent' = [parent EXCEPT ![front] = work]
          /\ MayAttach(front, work)
    BY <1>1 DEF FrontInv, JudgedStill, Holds, AttachCommit
  <1>3. state' = state
    BY DEF AttachCommit
  <1>4. parent' \in [Orders -> Orders \cup {NoWork}]
    BY <1>2 DEF FrontInv, FrontTypeOK
  <1>5. OneLevel'
    <2> SUFFICES ASSUME NEW o \in Orders, parent'[o] # NoWork
                 PROVE  parent'[parent'[o]] = NoWork
      BY DEF OneLevel
    <2>1. \A c \in Orders : parent[c] # front
      BY <1>2 DEF MayAttach, children_of
    <2>2. CASE o = front
      BY <1>2, <2>2 DEF MayAttach, FrontInv, FrontTypeOK
    <2>3. CASE o # front
      BY <1>2, <2>1, <2>3 DEF FrontInv, FrontTypeOK, OneLevel
    <2> QED BY <2>2, <2>3
  <1>6. SettledLast'
    <2> SUFFICES ASSUME NEW o \in Orders, state[o] \in Settled, NEW c \in Orders,
                        parent'[c] = o
                 PROVE  state[c] \notin OPEN_FRONT_STATES
      BY <1>3 DEF SettledLast, open_fronts, children_of
    <2>1. o # work
      BY <1>2 DEF MayAttach, ATTACHABLE_PARENT_STATES, Settled
    <2>2. parent[c] = o
      BY <1>2, <2>1 DEF FrontInv, FrontTypeOK
    <2> QED BY <2>2 DEF FrontInv, SettledLast, open_fronts, children_of
  <1> QED BY <1>3, <1>4, <1>5, <1>6, FrontEnded DEF FrontInv, FrontTypeOK, AttachCommit

LEMMA FrontDetached ==
  ASSUME FrontInv, OnePlanner, NEW s \in Planners, DetachCommit(s)
  PROVE  FrontInv'
  <1>1. req[s] \in [act: {"detach"}, front: Orders]
    BY DEF FrontInv, FrontTypeOK, Request, NoRequest, DetachCommit
  <1>2. PICK front \in Orders : parent' = [parent EXCEPT ![front] = NoWork]
    BY <1>1 DEF DetachCommit
  <1>3. state' = state
    BY DEF DetachCommit
  <1>4. parent' \in [Orders -> Orders \cup {NoWork}]
    BY <1>2 DEF FrontInv, FrontTypeOK
  <1>5. \A c \in Orders : parent'[c] # NoWork => parent'[c] = parent[c]
    BY <1>2 DEF FrontInv, FrontTypeOK
  <1>6. OneLevel'
    BY <1>2, <1>4, <1>5, NoWorkIsNoOrder DEF FrontInv, FrontTypeOK, OneLevel
  <1>7. SettledLast'
    BY <1>3, <1>5, NoWorkIsNoOrder DEF FrontInv, SettledLast, open_fronts, children_of
  <1> QED BY <1>3, <1>4, <1>6, <1>7, FrontEnded DEF FrontInv, FrontTypeOK, DetachCommit

LEMMA FrontMoved ==
  ASSUME FrontInv, OnePlanner, NEW s \in Planners, TransitionCommit(s)
  PROVE  FrontInv'
  <1>1. req[s] \in [act: {"transition"}, order: Orders, target: Reached]
    BY DEF FrontInv, FrontTypeOK, Request, NoRequest, TransitionCommit
  <1>2. PICK o \in Orders, target \in Reached :
          /\ state' = [state EXCEPT ![o] = target]
          /\ target \in TRANSITIONS[state[o]]
          /\ blocking_fronts(o, target) = {}
    BY <1>1 DEF FrontInv, JudgedStill, Holds, TransitionCommit
  <1>3. parent' = parent
    BY DEF TransitionCommit
  <1>4. state' \in [Orders -> WorkOrderState]
    BY <1>2, ReachedAreStates DEF FrontInv, FrontTypeOK
  <1>5. state[o] \notin Settled
    BY <1>2, SettledHasNoExit DEF FrontInv, FrontTypeOK
  <1>6. SettledLast'
    <2> SUFFICES ASSUME NEW w \in Orders, state'[w] \in Settled, NEW c \in Orders,
                        parent[c] = w, state'[c] \in OPEN_FRONT_STATES
                 PROVE  FALSE
      BY <1>3 DEF SettledLast, open_fronts, children_of
    <2>1. CASE w = o
      <3>1. target \in Settled /\ open_fronts(o) = {}
        BY <1>2, <2>1 DEF blocking_fronts, FrontInv, FrontTypeOK
      <3>2. state[c] \notin OPEN_FRONT_STATES
        BY <3>1, <2>1 DEF open_fronts, children_of
      <3>3. c = o
        BY <1>2, <3>2 DEF FrontInv, FrontTypeOK
      <3> QED BY <1>2, <3>1, <3>3 DEF OPEN_FRONT_STATES, Settled, FrontInv, FrontTypeOK
    <2>2. CASE w # o
      <3>1. state[w] \in Settled
        BY <1>2, <2>2 DEF FrontInv, FrontTypeOK
      <3>2. state[c] \notin OPEN_FRONT_STATES
        BY <3>1 DEF FrontInv, SettledLast, open_fronts, children_of
      <3>3. state[c] \in Settled
        BY <3>2 DEF OPEN_FRONT_STATES, Settled, FrontInv, FrontTypeOK
      <3>4. c # o
        BY <3>3, <1>5
      <3> QED BY <1>2, <3>2, <3>4 DEF FrontInv, FrontTypeOK
    <2> QED BY <2>1, <2>2
  <1> QED BY <1>3, <1>4, <1>6, FrontEnded DEF FrontInv, FrontTypeOK, OneLevel, TransitionCommit

LEMMA FrontFails ==
  ASSUME FrontInv, OnePlanner, NEW s \in Planners, RequestFails(s)
  PROVE  FrontInv'
  BY FrontEnded
     DEF FrontInv, FrontTypeOK, OneLevel, SettledLast, open_fronts, children_of, RequestFails

\* One level of fronts, no parent settled before them, and what a session judged
\* still stands when it commits.
THEOREM FrontAlways == OnePlanner /\ FrontSpec => []FrontInv
  <1> SUFFICES ASSUME OnePlanner PROVE FrontSpec => []FrontInv
    OBVIOUS
  <1>1. FrontInit => FrontInv
    BY DEF FrontInit, FrontInv, FrontTypeOK, WorkOrderState, Request, OneLevel, SettledLast,
           Settled, JudgedStill, Holds, NoRequest
  <1>2. FrontInv /\ [FrontNext]_fvars => FrontInv'
    <2> SUFFICES ASSUME FrontInv, [FrontNext]_fvars PROVE FrontInv'
      OBVIOUS
    <2>1. CASE UNCHANGED fvars
      BY <2>1 DEF fvars, FrontInv, FrontTypeOK, OneLevel, SettledLast, open_fronts, children_of,
                  JudgedStill, Holds, MayAttach, blocking_fronts
    <2>2. CASE FrontNext
      BY <2>2, FrontBegins, FrontAttached, FrontDetached, FrontMoved, FrontFails DEF FrontNext
    <2> QED BY <2>1, <2>2
  <1> QED BY <1>1, <1>2, PTL DEF FrontSpec

\* RF-015: a work is not closed or approved while one of its fronts is open.
THEOREM WorksAlwaysSettleLast == OnePlanner /\ FrontSpec => []WorksSettleLast
  <1>1. FrontInv => WorksSettleLast
    BY DEF FrontInv, WorksSettleLast
  <1> QED BY <1>1, FrontAlways, PTL

-----------------------------------------------------------------------------
(****************************************************************************)
(* MODEL PROFILES: what was adopted stays                                   *)
(****************************************************************************)

\* One session at a time drafts, saves and publishes: the state of a draft is read without
\* a lock (model_profile/drafts.py).
OneMapper == \A a, b \in Mappers : a = b

MapperSession ==
  {NoMapper}
  \cup [act: {"start"}, metadata: SUBSET Classes, version: Nat, decisions: Mapping]
  \cup [act: {"save"}, version: Nat, metadata: SUBSET Classes, decisions: Mapping]
  \cup [act: {"publish", "refuse"}, version: Nat, previous: SUBSET Nat]

\* What a session works on stays as it found it, when there is no other.
WorksOn(c) ==
  /\ c.act \in {"save", "publish", "refuse"} =>
       c.version \in DOMAIN drafts /\ drafts[c.version].status = "draft"
  /\ c.act = "publish" =>
       /\ validate_document(drafts[c.version].document)
       /\ \A v \in c.previous : v \in DOMAIN drafts => drafts[v].status # "draft"

ProfileInv ==
  /\ drafts \in Seq(DraftRow)
  /\ snapshot \subseteq Classes
  /\ mapper \in [Mappers -> MapperSession]
  /\ \A a \in Mappers : WorksOn(mapper[a])
  /\ \A v \in DOMAIN drafts :
       drafts[v].status # "draft" => validate_document(drafts[v].document)

\* What was adopted is what it was.
AdoptedKept ==
  \A v \in DOMAIN drafts : drafts[v].status # "draft" =>
    /\ drafts'[v].document = drafts[v].document
    /\ drafts'[v].decisions = drafts[v].decisions
    /\ validate_document(drafts[v].document)

LEMMA DraftRows ==
  ASSUME drafts \in Seq(DraftRow)
  PROVE  /\ Len(drafts) \in Nat /\ DOMAIN drafts = 1 .. Len(drafts) /\ DOMAIN drafts \subseteq Nat
         /\ \A v \in DOMAIN drafts : drafts[v] \in DraftRow
  BY LenProperties

LEMMA AppliedTyped ==
  ASSUME NEW r \in DraftRow, NEW metadata, NEW decisions \in Mapping
  PROVE  Applied(r, metadata, decisions) \in DraftRow
         /\ Applied(r, metadata, decisions).status = r.status
  <1> DEFINE document == build_profile_document(decisions, metadata)
             complete == validate_document(document)
  <1>1. document \in Mapping \cup {Undecided}
    BY DEF build_profile_document
  <1>2. complete \in BOOLEAN
    BY DEF validate_document
  <1>3. Applied(r, metadata, decisions) =
          [r EXCEPT !.decisions = decisions, !.document = document, !.complete = complete]
    BY DEF Applied
  <1> HIDE DEF document, complete
  <1> QED BY <1>1, <1>2, <1>3 DEF DraftRow

LEMMA CarryOverTyped ==
  ASSUME NEW p \in Mapping, NEW q \in Mapping
  PROVE  CarryOver(p, q) \in Mapping
  BY DEF CarryOver, Mapping

\* A session that opens.
LEMMA MapperOpens ==
  ASSUME ProfileInv, NEW a \in Mappers, NEW c \in MapperSession, Maps(a, c), WorksOn(c)
  PROVE  ProfileInv' /\ AdoptedKept
  BY DEF ProfileInv, Maps, WorksOn, AdoptedKept

\* One that ends, of one session only.
LEMMA MapperOver ==
  ASSUME OneMapper, ProfileInv, NEW a \in Mappers, mapper' = [mapper EXCEPT ![a] = NoMapper]
  PROVE  mapper' \in [Mappers -> MapperSession] /\ \A b \in Mappers : WorksOn(mapper[b])'
  <1>1. NoMapper \in MapperSession
    BY DEF MapperSession
  <1>2. \A b \in Mappers : mapper'[b] = NoMapper
    BY DEF OneMapper, ProfileInv
  <1> QED BY <1>1, <1>2 DEF ProfileInv, WorksOn, NoMapper

LEMMA ProfileStep ==
  ASSUME OneMapper, ProfileInv, [ProfileNext]_mvars
  PROVE  ProfileInv' /\ AdoptedKept
  <1> USE DraftRows
  <1>0. drafts \in Seq(DraftRow)
    BY DEF ProfileInv
  <1>1. CASE Sync
    BY <1>1 DEF Sync, ProfileInv, WorksOn, AdoptedKept
  <1>2. ASSUME NEW a \in Mappers, StartBegin(a)
        PROVE  ProfileInv' /\ AdoptedKept
    <2>1. PICK proposed \in Mapping :
            Maps(a, [act |-> "start", metadata |-> snapshot, version |-> Len(drafts) + 1,
                     decisions |-> IF Adopted = {} THEN proposed
                       ELSE CarryOver(drafts[CHOOSE v \in Adopted : TRUE].decisions, proposed)])
      BY <1>2, Zenon DEF StartBegin
    <2> DEFINE decisions == IF Adopted = {} THEN proposed
                       ELSE CarryOver(drafts[CHOOSE v \in Adopted : TRUE].decisions, proposed)
               c == [act |-> "start", metadata |-> snapshot, version |-> Len(drafts) + 1,
                     decisions |-> decisions]
    <2>2. decisions \in Mapping
      <3>1. CASE Adopted = {}
        BY <3>1
      <3>2. CASE Adopted # {}
        <4>1. (CHOOSE v \in Adopted : TRUE) \in Adopted
          BY <3>2
        <4>2. drafts[CHOOSE v \in Adopted : TRUE].decisions \in Mapping
          BY <1>0, <4>1 DEF Adopted, DraftRow
        <4> QED BY <3>2, <4>2, CarryOverTyped
      <3> QED BY <3>1, <3>2
    <2>3. c \in MapperSession /\ c.act = "start"
      <3> HIDE DEF decisions
      <3> QED BY <1>0, <2>2 DEF MapperSession, ProfileInv
    <2>4. Maps(a, c)
      BY <2>1
    <2> HIDE DEF c
    <2> QED BY <2>3, <2>4, MapperOpens DEF WorksOn
  <1>3. ASSUME NEW a \in Mappers, StartCommit(a)
        PROVE  ProfileInv' /\ AdoptedKept
    <2> DEFINE new == Applied([status |-> "draft", decisions |-> mapper[a].decisions,
                               document |-> Undecided, complete |-> FALSE],
                              mapper[a].metadata, mapper[a].decisions)
    <2>1. mapper[a].decisions \in Mapping
      BY <1>3 DEF StartCommit, ProfileInv, MapperSession, NoMapper
    <2>2. [status |-> "draft", decisions |-> mapper[a].decisions,
           document |-> Undecided, complete |-> FALSE] \in DraftRow
      BY <2>1 DEF DraftRow, Status
    <2>3. new \in DraftRow /\ new.status = "draft"
      BY <2>1, <2>2, AppliedTyped
    <2>4. drafts' = Append(drafts, new) /\ mapper' = [mapper EXCEPT ![a] = NoMapper]
          /\ UNCHANGED <<snapshot, syncs>>
      BY <1>3 DEF StartCommit, Writes
    <2> HIDE DEF new
    <2>5. /\ drafts' \in Seq(DraftRow)
          /\ \A v \in DOMAIN drafts' : \/ v \in DOMAIN drafts /\ drafts'[v] = drafts[v]
                                       \/ drafts'[v] = new
          /\ \A v \in DOMAIN drafts : drafts'[v] = drafts[v]
      BY <1>0, <2>3, <2>4, AppendProperties
    <2> QED BY <2>3, <2>4, <2>5, MapperOver DEF ProfileInv, AdoptedKept
  <1>4. ASSUME NEW a \in Mappers, SaveBegin(a)
        PROVE  ProfileInv' /\ AdoptedKept
    <2>1. PICK v \in MayEdit, decisions \in Mapping :
            Maps(a, [act |-> "save", version |-> v, metadata |-> snapshot, decisions |-> decisions])
      BY <1>4 DEF SaveBegin
    <2> DEFINE c == [act |-> "save", version |-> v, metadata |-> snapshot, decisions |-> decisions]
    <2>2. v \in DOMAIN drafts /\ drafts[v].status = "draft" /\ v \in Nat
      BY <1>0 DEF MayEdit, Open
    <2>3. c \in MapperSession /\ c.act = "save" /\ c.version = v
      BY <2>2 DEF MapperSession, ProfileInv
    <2>4. Maps(a, c)
      BY <2>1
    <2> HIDE DEF c
    <2> QED BY <2>2, <2>3, <2>4, MapperOpens DEF WorksOn
  <1>5. ASSUME NEW a \in Mappers, SaveDraftCommit(a)
        PROVE  ProfileInv' /\ AdoptedKept
    <2> DEFINE i == mapper[a].version
               new == Applied(drafts[i], mapper[a].metadata, mapper[a].decisions)
    <2>1. mapper[a].decisions \in Mapping
      BY <1>5 DEF SaveDraftCommit, ProfileInv, MapperSession, NoMapper
    <2>2. i \in DOMAIN drafts /\ drafts[i].status = "draft"
      BY <1>5 DEF SaveDraftCommit, ProfileInv, WorksOn
    <2>3. new \in DraftRow /\ new.status = "draft"
      BY <1>0, <2>1, <2>2, AppliedTyped
    <2>4. drafts' = [drafts EXCEPT ![i] = new] /\ mapper' = [mapper EXCEPT ![a] = NoMapper]
          /\ UNCHANGED <<snapshot, syncs>>
      BY <1>5 DEF SaveDraftCommit, Writes
    <2> HIDE DEF new, i
    <2>5. drafts' \in Seq(DraftRow) /\ DOMAIN drafts' = DOMAIN drafts
      BY <1>0, <2>2, <2>3, <2>4, ExceptSeq
    <2>6. \A v \in DOMAIN drafts : drafts'[v] = IF v = i THEN new ELSE drafts[v]
      BY <1>0, <2>4
    <2> QED BY <2>2, <2>3, <2>4, <2>5, <2>6, MapperOver DEF ProfileInv, AdoptedKept
  <1>6. ASSUME NEW a \in Mappers, PublishBegin(a)
        PROVE  ProfileInv' /\ AdoptedKept
    <2>1. PICK v \in Open :
            Maps(a, [act |-> IF validate_document(drafts[v].document) THEN "publish" ELSE "refuse",
                     version |-> v, previous |-> Adopted])
      BY <1>6 DEF PublishBegin
    <2> DEFINE c == [act |-> IF validate_document(drafts[v].document) THEN "publish" ELSE "refuse",
                     version |-> v, previous |-> Adopted]
    <2>2. v \in DOMAIN drafts /\ drafts[v].status = "draft" /\ v \in Nat /\ Adopted \in SUBSET Nat
      BY <1>0 DEF Open, Adopted
    <2>3. /\ c \in MapperSession /\ c.version = v /\ c.act \in {"publish", "refuse"}
          /\ c.act = "publish" => validate_document(drafts[v].document)
          /\ \A w \in c.previous : drafts[w].status # "draft"
      BY <2>2 DEF MapperSession, Adopted
    <2>4. Maps(a, c)
      BY <2>1
    <2> HIDE DEF c
    <2> QED BY <2>2, <2>3, <2>4, MapperOpens DEF WorksOn
  <1>7. ASSUME NEW a \in Mappers, PublishCommit(a)
        PROVE  ProfileInv' /\ AdoptedKept
    <2> DEFINE i == mapper[a].version
               Now(v) == IF v = i THEN [drafts[v] EXCEPT !.status = "published"]
                         ELSE IF v \in mapper[a].previous
                              THEN [drafts[v] EXCEPT !.status = "superseded"] ELSE drafts[v]
    <2>1. i \in DOMAIN drafts /\ validate_document(drafts[i].document)
      BY <1>7 DEF PublishCommit, ProfileInv, WorksOn
    <2>2. \A v \in DOMAIN drafts :
            /\ Now(v) \in DraftRow /\ Now(v).document = drafts[v].document
            /\ Now(v).decisions = drafts[v].decisions
      BY <1>0 DEF DraftRow, Status
    <2>3. drafts' = [v \in DOMAIN drafts |-> Now(v)] /\ mapper' = [mapper EXCEPT ![a] = NoMapper]
          /\ UNCHANGED <<snapshot, syncs>>
      BY <1>7 DEF PublishCommit, Writes
    <2>4. \A v \in mapper[a].previous : v \in DOMAIN drafts => drafts[v].status # "draft"
      BY <1>7 DEF PublishCommit, ProfileInv, WorksOn
    <2>5. \A v \in DOMAIN drafts : Now(v).status # "draft" => validate_document(drafts[v].document)
      BY <1>0, <2>1, <2>4 DEF ProfileInv, DraftRow
    <2> HIDE DEF Now, i
    <2>6. drafts' \in Seq(DraftRow) /\ DOMAIN drafts' = DOMAIN drafts
      <3>1. drafts' = [v \in 1 .. Len(drafts) |-> Now(v)] /\ \A v \in 1 .. Len(drafts) : Now(v) \in DraftRow
        BY <1>0, <2>2, <2>3
      <3> QED BY <1>0, <3>1
    <2>7. \A v \in DOMAIN drafts : drafts'[v] = Now(v)
      BY <2>3
    <2> QED BY <2>2, <2>3, <2>5, <2>6, <2>4, <2>7, MapperOver DEF ProfileInv, AdoptedKept
  <1>8. ASSUME NEW a \in Mappers, RefuseCommit(a)
        PROVE  ProfileInv' /\ AdoptedKept
    <2> DEFINE i == mapper[a].version
               new == [drafts[i] EXCEPT !.complete = FALSE]
    <2>1. i \in DOMAIN drafts /\ drafts[i].status = "draft"
      BY <1>8 DEF RefuseCommit, ProfileInv, WorksOn
    <2>2. new \in DraftRow /\ new.status = "draft"
      BY <1>0, <2>1 DEF DraftRow
    <2>3. drafts' = [drafts EXCEPT ![i] = new] /\ mapper' = [mapper EXCEPT ![a] = NoMapper]
          /\ UNCHANGED <<snapshot, syncs>>
      BY <1>8 DEF RefuseCommit, Writes
    <2> HIDE DEF new, i
    <2>4. drafts' \in Seq(DraftRow) /\ DOMAIN drafts' = DOMAIN drafts
      BY <1>0, <2>1, <2>2, <2>3, ExceptSeq
    <2>5. \A v \in DOMAIN drafts : drafts'[v] = IF v = i THEN new ELSE drafts[v]
      BY <1>0, <2>3
    <2> QED BY <2>1, <2>2, <2>3, <2>4, <2>5, MapperOver DEF ProfileInv, AdoptedKept
  <1>9. ASSUME NEW a \in Mappers, MapperEnds(a)
        PROVE  ProfileInv' /\ AdoptedKept
    BY <1>9, MapperOver DEF MapperEnds, ProfileInv, AdoptedKept
  <1>10. CASE UNCHANGED mvars
    BY <1>10 DEF mvars, ProfileInv, WorksOn, AdoptedKept
  <1> QED BY <1>1, <1>2, <1>3, <1>4, <1>5, <1>6, <1>7, <1>8, <1>9, <1>10 DEF ProfileNext

\* A profile that was adopted keeps its document and its decisions.
THEOREM PublishedAlwaysStands == OneMapper /\ ProfileSpec => PublishedStands
  <1> SUFFICES ASSUME OneMapper PROVE ProfileSpec => PublishedStands
    OBVIOUS
  <1>1. ProfileInit => ProfileInv
    BY DEF ProfileInit, ProfileInv, WorksOn, MapperSession, NoMapper
  <1>2. ProfileInv /\ [ProfileNext]_mvars => ProfileInv'
    BY ProfileStep
  <1>3. ProfileInv /\ [ProfileNext]_mvars =>
          [\A v \in DOMAIN drafts : drafts[v].status # "draft" =>
             /\ drafts'[v].document = drafts[v].document
             /\ drafts'[v].decisions = drafts[v].decisions
             /\ validate_document(drafts[v].document)]_mvars
    BY ProfileStep DEF AdoptedKept
  <1> QED BY <1>1, <1>2, <1>3, PTL DEF ProfileSpec, PublishedStands

-----------------------------------------------------------------------------
(****************************************************************************)
(* FORMS: the shape an order took stays                                     *)
(****************************************************************************)

\* A session that publishes holds a file, and the versions it will end exist.
PressHolds ==
  /\ press \in [Publishers -> {NoPress} \cup [act: {"publish"}, file: File, ends: SUBSET Versions]]
  /\ \A p \in Publishers : press[p].act = "publish" =>
       \A v \in press[p].ends : published[v] # Unpublished

FormInv == FormTypeOK /\ PressHolds

\* A row that was published keeps its shape.
ShapesKept ==
  \A v \in Versions : published[v] # Unpublished =>
    /\ published'[v] # Unpublished
    /\ published'[v].definition = published[v].definition
    /\ published'[v].blocks = published[v].blocks

PinsKept == \A o \in Carriers : pinned[o] # NoVersion => pinned'[o] = pinned[o]

LEMMA FormRows ==
  ASSUME FormTypeOK, NEW v \in Versions
  PROVE  /\ published[v] # Unpublished => published[v] \in FormRow
         /\ published[v] \in FormRow => published[v] # Unpublished
         /\ published[v] \in FormRow =>
              LET row == [published[v] EXCEPT !.state = "obsoleto"] IN
              /\ row \in FormRow /\ row.definition = published[v].definition
              /\ row.blocks = published[v].blocks
         /\ \A row \in FormRow : row # Unpublished
  <1>1. \A row \in FormRow : row # Unpublished
    BY DEF FormRow, FormState, Unpublished
  <1>2. published[v] # Unpublished => published[v] \in FormRow
    BY DEF FormTypeOK
  <1>3. published[v] \in FormRow =>
              LET row == [published[v] EXCEPT !.state = "obsoleto"] IN
              /\ row \in FormRow /\ row.definition = published[v].definition
              /\ row.blocks = published[v].blocks
    BY DEF FormRow, FormState
  <1> QED BY <1>1, <1>2, <1>3

LEMMA FormPublishes ==
  ASSUME FormInv, NEW p \in Publishers, PublishFormCommit(p)
  PROVE  ShapesKept /\ PinsKept /\ FormInv'
  <1> DEFINE new == press[p].file
             ends == press[p].ends
             row == [state |-> "publicado", definition |-> new.definition, blocks |-> new.blocks]
             Ended(v) == [published[v] EXCEPT !.state = "obsoleto"]
  <1>1. press[p] \in [act: {"publish"}, file: File, ends: SUBSET Versions]
    BY DEF FormInv, PressHolds, PublishFormCommit, NoPress
  <1>2. new \in File /\ ends \in SUBSET Versions /\ row \in FormRow
    BY <1>1 DEF File, FormRow, FormState
  <1>3. \A v \in ends : published[v] # Unpublished
    BY DEF FormInv, PressHolds, PublishFormCommit
  <1>4. /\ published[new.version] = Unpublished /\ press' = [press EXCEPT ![p] = NoPress]
        /\ published' = [v \in Versions |-> IF v = new.version THEN row
                                            ELSE IF v \in ends THEN Ended(v) ELSE published[v]]
        /\ UNCHANGED <<file, pinned>>
    BY DEF PublishFormCommit
  <1> HIDE DEF new, ends, row
  <1>5. ASSUME NEW v \in Versions
        PROVE  /\ published'[v] \in FormRow \cup {Unpublished}
               /\ published[v] # Unpublished =>
                    /\ published'[v] # Unpublished
                    /\ published'[v].definition = published[v].definition
                    /\ published'[v].blocks = published[v].blocks
    <2>1. CASE v = new.version
      BY <1>2, <1>4, <2>1
    <2>2. CASE v # new.version /\ v \in ends
      <3>1. published'[v] = Ended(v) /\ published[v] \in FormRow
        BY <1>3, <1>4, <2>2, FormRows DEF FormInv
      <3>2. Ended(v) \in FormRow /\ Ended(v).definition = published[v].definition
                                 /\ Ended(v).blocks = published[v].blocks
        BY <3>1, FormRows DEF FormInv
      <3> HIDE DEF Ended
      <3> QED BY <3>1, <3>2, FormRows DEF FormInv
    <2>3. CASE v # new.version /\ v \notin ends
      BY <1>4, <2>3 DEF FormInv, FormTypeOK
    <2> QED BY <2>1, <2>2, <2>3
  <1>6. ShapesKept /\ PinsKept
    BY <1>4, <1>5 DEF ShapesKept, PinsKept
  <1>7. FormTypeOK'
    <2> HIDE DEF Ended
    <2> QED BY <1>4, <1>5 DEF FormInv, FormTypeOK
  <1>8. PressHolds'
    BY <1>4, <1>6 DEF FormInv, PressHolds, ShapesKept, NoPress
  <1> QED BY <1>6, <1>7, <1>8 DEF FormInv

LEMMA FormStep ==
  ASSUME FormInv, [FormNext]_fovars
  PROVE  ShapesKept /\ PinsKept /\ FormInv'
  <1>1. CASE Deploy
    BY <1>1 DEF Deploy, FormInv, FormTypeOK, PressHolds, ShapesKept, PinsKept
  <1>2. ASSUME NEW p \in Publishers, PublishFormBegin(p)
        PROVE  ShapesKept /\ PinsKept /\ FormInv'
    <2> DEFINE c == [act |-> "publish", file |-> file, ends |-> InForce]
    <2>1. press' = [press EXCEPT ![p] = c] /\ UNCHANGED <<file, published, pinned>>
      BY <1>2 DEF PublishFormBegin
    <2>2. /\ c \in [act: {"publish"}, file: File, ends: SUBSET Versions]
          /\ \A v \in c.ends : published[v] # Unpublished
      BY DEF FormInv, FormTypeOK, InForce, Unpublished
    <2> HIDE DEF c
    <2> QED BY <2>1, <2>2 DEF FormInv, FormTypeOK, PressHolds, ShapesKept, PinsKept
  <1>3. ASSUME NEW p \in Publishers, PublishFormCommit(p)
        PROVE  ShapesKept /\ PinsKept /\ FormInv'
    BY <1>3, FormPublishes
  <1>4. ASSUME NEW p \in Publishers, PressEnds(p)
        PROVE  ShapesKept /\ PinsKept /\ FormInv'
    BY <1>4 DEF PressEnds, FormInv, FormTypeOK, PressHolds, ShapesKept, PinsKept, NoPress
  <1>5. ASSUME NEW v \in Versions, obsolete(v)
        PROVE  ShapesKept /\ PinsKept /\ FormInv'
    <2> DEFINE row == [published[v] EXCEPT !.state = "obsoleto"]
    <2>1. published' = [published EXCEPT ![v] = row] /\ UNCHANGED <<file, pinned, press>>
      BY <1>5 DEF obsolete
    <2>2. published[v] # Unpublished
      BY <1>5 DEF obsolete, Unpublished
    <2>3. /\ row \in FormRow /\ row # Unpublished
          /\ row.definition = published[v].definition /\ row.blocks = published[v].blocks
      BY <2>2, FormRows DEF FormInv
    <2> HIDE DEF row
    <2> QED BY <2>1, <2>3 DEF FormInv, FormTypeOK, PressHolds, ShapesKept, PinsKept
  <1>6. ASSUME NEW o \in Carriers, PinVersion(o)
        PROVE  ShapesKept /\ PinsKept /\ FormInv'
    BY <1>6 DEF PinVersion, InForce, File, FormInv, FormTypeOK, PressHolds, ShapesKept, PinsKept
  <1>7. CASE UNCHANGED fovars
    BY <1>7 DEF fovars, FormInv, FormTypeOK, PressHolds, ShapesKept, PinsKept
  <1> QED BY <1>1, <1>2, <1>3, <1>4, <1>5, <1>6, <1>7 DEF FormNext

\* The published versions keep their shape, and the versions a session will end exist.
THEOREM FormAlways == FormSpec => []FormInv
  <1>1. FormInit => FormInv
    BY DEF FormInit, FormInv, FormTypeOK, PressHolds, NoPress
  <1> QED BY <1>1, FormStep, PTL DEF FormSpec

\* RF-032: an order that took its form is composed of the same blocks for ever,
\* whatever is published after.
THEOREM ShapeAlwaysStands == FormSpec => ShapeStands
  <1>1. FormInv /\ [FormNext]_fovars =>
          [\A o \in Carriers : HasFrozen(o) => Composed(o)' = Composed(o)]_fovars
    <2> SUFFICES ASSUME FormInv, [FormNext]_fovars, NEW o \in Carriers, HasFrozen(o)
                 PROVE  Composed(o)' = Composed(o)
      OBVIOUS
    <2>1. pinned[o] \in Versions /\ pinned[o] # NoVersion /\ published[pinned[o]] # Unpublished
      BY DEF HasFrozen, FormInv, FormTypeOK
    <2>2. pinned'[o] = pinned[o] /\ published'[pinned[o]] # Unpublished
      BY <2>1, FormStep DEF ShapesKept, PinsKept
    <2>3. /\ published'[pinned[o]].definition = published[pinned[o]].definition
          /\ published'[pinned[o]].blocks = published[pinned[o]].blocks
      BY <2>1, FormStep DEF ShapesKept
    <2>4. Composed(o) = Frozen(pinned[o]) /\ Composed(o)' = Frozen(pinned[o])'
      BY <2>1, <2>2 DEF Composed, HasFrozen, Frozen
    <2> QED BY <2>3, <2>4, <2>2 DEF Frozen
  <1> QED BY <1>1, FormAlways, PTL DEF FormSpec, ShapeStands

-----------------------------------------------------------------------------
(****************************************************************************)
(* POSITIONS: none is kept of who said no                                   *)
(****************************************************************************)

\* One session of the phone at a time, and consent is asked for.
OneReporter == \A s, t \in Reporters : s = t
ConsentAsked == Required = {TRUE}

ChatRow ==
  {Silent}
  \cup [act: {"report"}, new: Dot, over: BOOLEAN]
  \cup [act: {"accept"}, by: Holders]
  \cup [act: {"withdraw"}, by: Holders, sees: BOOLEAN]

\* Who accepted has not said no since; a position stays only while somebody
\* accepts; and what an open session read is so still.
ConsentIsWord == consent # NobodyYet => word[consent] # "no"
DotUnderConsent == dot # NoDot => consent # NobodyYet /\ word[dot.by] # "no"
ReadsStand ==
  \A s \in Reporters :
    /\ chat[s].act = "report" => consent = chat[s].new.by
    /\ chat[s].act = "withdraw" /\ ~chat[s].sees => dot = NoDot

PositionInv ==
  /\ PositionTypeOK /\ chat \in [Reporters -> ChatRow]
  /\ required = TRUE
  /\ ConsentIsWord /\ DotUnderConsent /\ ReadsStand

LEMMA PositionClock ==
  ASSUME PositionInv, ConsentAsked, NextDay \/ PolicySet
  PROVE  PositionInv'
  <1>1. required' = TRUE
    BY DEF PositionInv, ConsentAsked, NextDay, PolicySet
  <1>2. PositionTypeOK'
    <2>1. now' \in Day
      <3>1. CASE NextDay
        BY <3>1, DaysGiven DEF PositionInv, PositionTypeOK, Day, NextDay
      <3>2. CASE PolicySet
        BY <3>2 DEF PositionInv, PositionTypeOK, PolicySet
      <3> QED BY <3>1, <3>2
    <2> QED BY <1>1, <2>1 DEF PositionInv, PositionTypeOK, NextDay, PolicySet
  <1>3. UNCHANGED <<consent, dot, word, chat>>
    BY DEF NextDay, PolicySet
  <1> QED BY <1>1, <1>2, <1>3 DEF PositionInv, ConsentIsWord, DotUnderConsent, ReadsStand

LEMMA PositionPurged ==
  ASSUME PositionInv, purge
  PROVE  PositionInv'
  BY DEF PositionInv, PositionTypeOK, purge, ConsentIsWord, DotUnderConsent, ReadsStand

LEMMA PositionNothing ==
  ASSUME PositionInv, NEW p \in Holders, WithdrawNothing(p)
  PROVE  PositionInv'
  <1>1. word' \in [Holders -> {"none", "yes", "no"}]
    BY DEF PositionInv, PositionTypeOK, WithdrawNothing
  <1> QED BY <1>1
        DEF PositionInv, PositionTypeOK, WithdrawNothing, ConsentIsWord, DotUnderConsent, ReadsStand

\* A session that opens has read what is stored.
LEMMA PositionOpens ==
  ASSUME PositionInv, NEW s \in Reporters, ReportBegin(s) \/ AcceptBegin(s) \/ WithdrawBegin(s)
  PROVE  PositionInv'
  <1>1. UNCHANGED <<now, required, consent, dot, word>>
    BY DEF ReportBegin, AcceptBegin, WithdrawBegin, Talks
  <1>2. \E row \in ChatRow :
          /\ chat' = [chat EXCEPT ![s] = row]
          /\ row.act = "report" => consent = row.new.by
          /\ row.act = "withdraw" /\ ~row.sees => dot = NoDot
    <2>1. CASE ReportBegin(s)
      <3>1. PICK p \in Holders, at \in 1 .. now :
              /\ MayReport(p, at)
              /\ Talks(s, [act |-> "report", new |-> [by |-> p, at |-> at], over |-> dot # NoDot])
        BY <2>1 DEF ReportBegin
      <3> DEFINE row == [act |-> "report", new |-> [by |-> p, at |-> at], over |-> dot # NoDot]
      <3>2. at \in Day
        BY <3>1, DaysGiven DEF PositionInv, PositionTypeOK, Day
      <3>3. row \in ChatRow
        BY <3>2 DEF ChatRow, Dot
      <3>4. row.act = "report" /\ row.new.by = p
        OBVIOUS
      <3>5. consent = p
        BY <3>1 DEF MayReport, has_consent, PositionInv
      <3>6. chat' = [chat EXCEPT ![s] = row]
        BY <3>1 DEF Talks
      <3> HIDE DEF row
      <3> QED BY <3>3, <3>4, <3>5, <3>6
    <2>2. CASE AcceptBegin(s)
      <3>1. PICK p \in Holders : Talks(s, [act |-> "accept", by |-> p])
        BY <2>2 DEF AcceptBegin
      <3> DEFINE row == [act |-> "accept", by |-> p]
      <3>2. row \in ChatRow /\ row.act = "accept"
        BY DEF ChatRow
      <3>3. chat' = [chat EXCEPT ![s] = row]
        BY <3>1 DEF Talks
      <3> HIDE DEF row
      <3> QED BY <3>2, <3>3
    <2>3. CASE WithdrawBegin(s)
      <3>1. PICK p \in Holders : Talks(s, [act |-> "withdraw", by |-> p, sees |-> dot # NoDot])
        BY <2>3 DEF WithdrawBegin
      <3> DEFINE row == [act |-> "withdraw", by |-> p, sees |-> dot # NoDot]
      <3>2. row \in ChatRow
        BY DEF ChatRow
      <3>3. row.act = "withdraw" /\ (row.sees <=> dot # NoDot)
        OBVIOUS
      <3>4. chat' = [chat EXCEPT ![s] = row]
        BY <3>1 DEF Talks
      <3> HIDE DEF row
      <3> QED BY <3>2, <3>3, <3>4
    <2> QED BY <2>1, <2>2, <2>3
  <1> QED BY <1>1, <1>2
        DEF PositionInv, PositionTypeOK, ConsentIsWord, DotUnderConsent, ReadsStand

LEMMA PositionReported ==
  ASSUME PositionInv, OneReporter, NEW s \in Reporters, ReportCommit(s)
  PROVE  PositionInv'
  <1>1. /\ chat[s].act = "report"
        /\ dot' = chat[s].new
        /\ chat' = [chat EXCEPT ![s] = Silent]
        /\ UNCHANGED <<now, required, consent, word>>
    BY DEF ReportCommit
  <1>2. chat[s] \in [act: {"report"}, new: Dot, over: BOOLEAN]
    BY <1>1 DEF PositionInv, ChatRow, Silent
  <1>3. dot' \in Dot /\ dot'.by \in Holders /\ consent = dot'.by
    BY <1>1, <1>2 DEF PositionInv, ReadsStand, Dot
  <1>4. chat' \in [Reporters -> ChatRow] /\ \A t \in Reporters : chat'[t] = Silent
    BY <1>1 DEF PositionInv, ChatRow, OneReporter
  <1> QED BY <1>1, <1>3, <1>4, NobodyIsNoHolder
        DEF PositionInv, PositionTypeOK, ConsentIsWord, DotUnderConsent, ReadsStand, Silent

LEMMA PositionAccepted ==
  ASSUME PositionInv, OneReporter, NEW s \in Reporters, AcceptCommit(s)
  PROVE  PositionInv'
  <1>1. /\ chat[s].act = "accept"
        /\ consent' = chat[s].by
        /\ word' = [word EXCEPT ![chat[s].by] = "yes"]
        /\ chat' = [chat EXCEPT ![s] = Silent]
        /\ UNCHANGED <<now, required, dot>>
    BY DEF AcceptCommit
  <1>2. chat[s] \in [act: {"accept"}, by: Holders]
    BY <1>1 DEF PositionInv, ChatRow, Silent
  <1>3. chat' \in [Reporters -> ChatRow] /\ \A t \in Reporters : chat'[t] = Silent
    BY <1>1 DEF PositionInv, ChatRow, OneReporter
  <1>4. consent' \in Holders /\ word' \in [Holders -> {"none", "yes", "no"}]
    BY <1>1, <1>2 DEF PositionInv, PositionTypeOK
  <1>5. PositionTypeOK'
    BY <1>1, <1>4 DEF PositionInv, PositionTypeOK
  <1>6. ConsentIsWord'
    BY <1>1, <1>2 DEF ConsentIsWord, PositionInv, PositionTypeOK
  <1>7. DotUnderConsent'
    BY <1>1, <1>2, <1>4, NobodyIsNoHolder
       DEF DotUnderConsent, PositionInv, PositionTypeOK, Dot
  <1> QED BY <1>1, <1>3, <1>5, <1>6, <1>7 DEF PositionInv, ReadsStand, Silent

LEMMA PositionWithdrawn ==
  ASSUME PositionInv, OneReporter, NEW s \in Reporters, WithdrawCommit(s)
  PROVE  PositionInv'
  <1>1. /\ chat[s].act = "withdraw"
        /\ consent' = NobodyYet
        /\ dot' = IF chat[s].sees THEN NoDot ELSE dot
        /\ word' = [word EXCEPT ![chat[s].by] = "no"]
        /\ chat' = [chat EXCEPT ![s] = Silent]
        /\ UNCHANGED <<now, required>>
    BY DEF WithdrawCommit, Erased
  <1>2. chat[s] \in [act: {"withdraw"}, by: Holders, sees: BOOLEAN]
    BY <1>1 DEF PositionInv, ChatRow, Silent
  <1>3. dot' = NoDot
    BY <1>1 DEF PositionInv, ReadsStand
  <1>4. chat' \in [Reporters -> ChatRow] /\ \A t \in Reporters : chat'[t] = Silent
    BY <1>1 DEF PositionInv, ChatRow, OneReporter
  <1>5. word' \in [Holders -> {"none", "yes", "no"}]
    BY <1>1, <1>2 DEF PositionInv, PositionTypeOK
  <1> QED BY <1>1, <1>3, <1>4, <1>5
        DEF PositionInv, PositionTypeOK, ConsentIsWord, DotUnderConsent, ReadsStand, Silent

LEMMA PositionChatEnds ==
  ASSUME PositionInv, NEW s \in Reporters, ChatEnds(s)
  PROVE  PositionInv'
  <1>1. chat' \in [Reporters -> ChatRow]
    BY DEF PositionInv, ChatRow, ChatEnds
  <1> QED BY <1>1
        DEF PositionInv, PositionTypeOK, ConsentIsWord, DotUnderConsent, ReadsStand, ChatEnds, Silent

\* With one session at a time: who consented has not said no since, a position stays
\* only under a consent, and what a session read is so still.
THEOREM PositionAlways == OneReporter /\ ConsentAsked /\ PositionSpec => []PositionInv
  <1> SUFFICES ASSUME OneReporter, ConsentAsked PROVE PositionSpec => []PositionInv
    OBVIOUS
  <1>1. PositionInit => PositionInv
    BY DaysGiven DEF PositionInit, PositionInv, PositionTypeOK, ConsentAsked, Day, ChatRow,
       ConsentIsWord, DotUnderConsent, ReadsStand, Silent
  <1>2. PositionInv /\ [PositionNext]_dvars => PositionInv'
    <2> SUFFICES ASSUME PositionInv, [PositionNext]_dvars PROVE PositionInv'
      OBVIOUS
    <2>1. CASE UNCHANGED dvars
      BY <2>1 DEF dvars, PositionInv, PositionTypeOK, ConsentIsWord, DotUnderConsent, ReadsStand
    <2>2. CASE PositionNext
      BY <2>2, PositionClock, PositionPurged, PositionNothing, PositionOpens, PositionReported,
         PositionAccepted, PositionWithdrawn, PositionChatEnds
         DEF PositionNext
    <2> QED BY <2>1, <2>2
  <1> QED BY <1>1, <1>2, PTL DEF PositionSpec

\* RF-107: no position is kept of somebody whose last word was no.
THEOREM NeverADotAfterNo == OneReporter /\ ConsentAsked /\ PositionSpec => []NoDotAfterNo
  <1>1. PositionInv => NoDotAfterNo
    BY DEF PositionInv, DotUnderConsent, NoDotAfterNo
  <1> QED BY <1>1, PositionAlways, PTL

-----------------------------------------------------------------------------
(****************************************************************************)
(* CAPTURED ANSWERS: only what people said                                  *)
(****************************************************************************)

DeskRow ==
  {Free, [act |-> "approve"]}
  \cup [act: {"confirm"}, field: Fields, value: Values,
        read: [Fields -> Values \cup {NoAnswer}], proposed: Values]

\* The copies under way, too, hold only what people said.
CopiesFromPeople ==
  \A d \in Desks : desk[d].act = "confirm" =>
    \A f \in Fields : desk[d].read[f] # NoAnswer =>
      desk[d].read[f] \in sent[f] \cup confirmed[f]

CaptureInv ==
  /\ CaptureTypeOK /\ desk \in [Desks -> DeskRow]
  /\ AnswersFromPeople /\ CopiesFromPeople

\* Steps that leave the answers, the copies and what people said alone.
LEMMA CaptureQuiet ==
  ASSUME CaptureInv, CaptureTypeOK', desk' \in [Desks -> DeskRow],
         UNCHANGED <<answers, sent, confirmed>>,
         \A d \in Desks : desk'[d].act = "confirm" => desk'[d] = desk[d]
  PROVE  CaptureInv'
  BY DEF CaptureInv, AnswersFromPeople, CopiesFromPeople

LEMMA CaptureSaves == CaptureInv /\ save_answers => CaptureInv'
  <1> SUFFICES ASSUME CaptureInv, save_answers PROVE CaptureInv'
    OBVIOUS
  <1>1. PICK new \in [Fields -> Values \cup {NoAnswer}], submit \in BOOLEAN :
          /\ answers' = new
          /\ sent' = [f \in Fields |-> sent[f] \cup ({new[f]} \ {NoAnswer})]
          /\ cstate' = IF submit THEN "enviada"
                       ELSE IF cstate = "none" THEN "borrador" ELSE cstate
    BY DEF save_answers
  <1>2. UNCHANGED <<provenance, evidence, desk, confirmed, dictations>>
    BY DEF save_answers
  <1>3. sent' \in [Fields -> SUBSET Values]
    BY <1>1 DEF CaptureInv, CaptureTypeOK
  <1>4. CaptureTypeOK'
    BY <1>1, <1>2, <1>3 DEF CaptureInv, CaptureTypeOK, ResponseState
  <1>5. AnswersFromPeople'
    BY <1>1, <1>2 DEF AnswersFromPeople
  <1>6. CopiesFromPeople'
    BY <1>1, <1>2 DEF CaptureInv, CopiesFromPeople
  <1> QED BY <1>2, <1>4, <1>5, <1>6 DEF CaptureInv

LEMMA CaptureDictates == CaptureInv /\ dictate => CaptureInv'
  <1> SUFFICES ASSUME CaptureInv, dictate PROVE CaptureInv'
    OBVIOUS
  <1>1. PICK f \in Fields, v \in Values :
          provenance' = [provenance EXCEPT ![f] =
            [proposed |-> v, final |-> NoAnswer, confirmed_by |-> provenance[f].confirmed_by]]
    BY DEF dictate, Proposal
  <1>2. provenance[f].confirmed_by \in BOOLEAN
    <2>1. provenance[f] \in ProvenanceRow \/ provenance[f] = NoRow
      BY DEF CaptureInv, CaptureTypeOK
    <2>2. CASE provenance[f] \in ProvenanceRow
      BY <2>2, Zenon DEF ProvenanceRow
    <2>3. CASE provenance[f] = NoRow
      <3>1. NoRow.confirmed_by = FALSE
        BY DEF NoRow
      <3> QED BY <2>3, <3>1, Zenon
    <2> QED BY <2>1, <2>2, <2>3
  <1>3. provenance' \in [Fields -> ProvenanceRow \cup {NoRow}]
    BY <1>1, <1>2 DEF CaptureInv, CaptureTypeOK, ProvenanceRow
  <1>4. CaptureTypeOK'
    BY <1>1, <1>3, DictationsCounted DEF CaptureInv, CaptureTypeOK, dictate
  <1> QED BY <1>1, <1>4, CaptureQuiet DEF CaptureInv, dictate

LEMMA CapturePhotos ==
  ASSUME NEW p \in Photos
  PROVE  CaptureInv /\ (register_evidence(p) \/ confirm_upload(p)) => CaptureInv'
  <1> SUFFICES ASSUME CaptureInv, register_evidence(p) \/ confirm_upload(p)
               PROVE  CaptureInv'
    OBVIOUS
  <1>1. evidence' \in [Photos -> Photo \cup {NoPhoto}]
    BY DEF CaptureInv, CaptureTypeOK, Photo, NoPhoto, IntegrityStatus, register_evidence, confirm_upload
  <1>2. CaptureTypeOK'
    BY <1>1 DEF CaptureInv, CaptureTypeOK, register_evidence, confirm_upload
  <1> QED BY <1>2, CaptureQuiet DEF CaptureInv, register_evidence, confirm_upload

LEMMA CaptureConfirmBegins ==
  ASSUME NEW d \in Desks
  PROVE  CaptureInv /\ ConfirmBegin(d) => CaptureInv'
  <1> SUFFICES ASSUME CaptureInv, ConfirmBegin(d) PROVE CaptureInv'
    OBVIOUS
  <1>1. PICK f \in Fields, v \in Values :
          /\ provenance[f] # NoRow
          /\ desk' = [desk EXCEPT ![d] =
               [act |-> "confirm", field |-> f, value |-> v, read |-> answers,
                proposed |-> provenance[f].proposed]]
    BY DEF ConfirmBegin, Copied
  <1>2. provenance[f].proposed \in Values
    BY <1>1 DEF CaptureInv, CaptureTypeOK, ProvenanceRow
  <1>3. desk' \in [Desks -> DeskRow]
    BY <1>1, <1>2 DEF CaptureInv, CaptureTypeOK, DeskRow
  <1>4. CopiesFromPeople'
    BY <1>1 DEF CaptureInv, CopiesFromPeople, AnswersFromPeople, ConfirmBegin
  <1> QED BY <1>3, <1>4 DEF CaptureInv, CaptureTypeOK, AnswersFromPeople, ConfirmBegin

LEMMA CaptureConfirmCommits ==
  ASSUME NEW d \in Desks
  PROVE  CaptureInv /\ ConfirmCommit(d) => CaptureInv'
  <1> SUFFICES ASSUME CaptureInv, ConfirmCommit(d) PROVE CaptureInv'
    OBVIOUS
  <1>1. desk[d] \in [act: {"confirm"}, field: Fields, value: Values,
                     read: [Fields -> Values \cup {NoAnswer}], proposed: Values]
    BY DEF CaptureInv, DeskRow, Free, ConfirmCommit
  <1> DEFINE f == desk[d].field
  <1>2. /\ answers' = [desk[d].read EXCEPT ![f] = desk[d].value]
        /\ provenance' = [provenance EXCEPT ![f] =
             [proposed |-> desk[d].proposed, final |-> desk[d].value, confirmed_by |-> TRUE]]
        /\ confirmed' = [confirmed EXCEPT ![f] = @ \cup {desk[d].value}]
        /\ desk' = [desk EXCEPT ![d] = Free]
        /\ UNCHANGED <<cstate, evidence, sent, dictations>>
    BY DEF ConfirmCommit
  <1>3. CaptureTypeOK' /\ desk' \in [Desks -> DeskRow]
    <2>1. answers' \in [Fields -> Values \cup {NoAnswer}]
      BY <1>1, <1>2
    <2>2. provenance' \in [Fields -> ProvenanceRow \cup {NoRow}]
      BY <1>1, <1>2 DEF CaptureInv, CaptureTypeOK, ProvenanceRow
    <2>3. confirmed' \in [Fields -> SUBSET Values]
      BY <1>1, <1>2 DEF CaptureInv, CaptureTypeOK
    <2>4. desk' \in [Desks -> DeskRow]
      BY <1>2 DEF CaptureInv, DeskRow
    <2> QED BY <1>2, <2>1, <2>2, <2>3, <2>4 DEF CaptureInv, CaptureTypeOK
  <1>4. \A g \in Fields : confirmed[g] \subseteq confirmed'[g]
    BY <1>1, <1>2 DEF CaptureInv, CaptureTypeOK
  <1>5. AnswersFromPeople'
    <2> SUFFICES ASSUME NEW g \in Fields, answers'[g] # NoAnswer
                 PROVE  answers'[g] \in sent'[g] \cup confirmed'[g]
      BY DEF AnswersFromPeople
    <2>1. CASE g = f
      BY <1>1, <1>2, <2>1 DEF CaptureInv, CaptureTypeOK
    <2>2. CASE g # f
      <3>1. answers'[g] = desk[d].read[g]
        BY <1>1, <1>2, <2>2
      <3> QED BY <1>1, <1>2, <1>4, <3>1 DEF CaptureInv, CopiesFromPeople
    <2> QED BY <2>1, <2>2
  <1>6. CopiesFromPeople'
    <2>1. \A e \in Desks : desk'[e].act = "confirm" => desk'[e] = desk[e]
      BY <1>2 DEF CaptureInv, Free
    <2> QED BY <1>2, <1>4, <2>1 DEF CaptureInv, CopiesFromPeople
  <1> QED BY <1>3, <1>5, <1>6 DEF CaptureInv

LEMMA CaptureDiscards ==
  ASSUME NEW f \in Fields
  PROVE  CaptureInv /\ discard(f) => CaptureInv'
  <1> SUFFICES ASSUME CaptureInv, discard(f) PROVE CaptureInv'
    OBVIOUS
  <1>1. CaptureTypeOK'
    BY DEF CaptureInv, CaptureTypeOK, discard
  <1> QED BY <1>1, CaptureQuiet DEF CaptureInv, discard

LEMMA CaptureDesk ==
  ASSUME NEW d \in Desks
  PROVE  CaptureInv /\ (ApprovalBegin(d) \/ ApprovalCommit(d) \/ DeskEnds(d)) => CaptureInv'
  <1> SUFFICES ASSUME CaptureInv, ApprovalBegin(d) \/ ApprovalCommit(d) \/ DeskEnds(d)
               PROVE  CaptureInv'
    OBVIOUS
  <1>1. desk' \in [Desks -> DeskRow]
    BY DEF CaptureInv, DeskRow, ApprovalBegin, ApprovalCommit, DeskEnds
  <1>2. CaptureTypeOK'
    BY DEF CaptureInv, CaptureTypeOK, ResponseState, ApprovalBegin, ApprovalCommit, DeskEnds
  <1>3. \A e \in Desks : desk'[e].act = "confirm" => desk'[e] = desk[e]
    BY DEF CaptureInv, Free, ApprovalBegin, ApprovalCommit, DeskEnds
  <1>4. UNCHANGED <<answers, sent, confirmed>>
    BY DEF ApprovalBegin, ApprovalCommit, DeskEnds
  <1> QED BY <1>1, <1>2, <1>3, <1>4, CaptureQuiet

LEMMA CaptureReturned == CaptureInv /\ ReturnResponse => CaptureInv'
  <1> SUFFICES ASSUME CaptureInv, ReturnResponse PROVE CaptureInv'
    OBVIOUS
  <1>1. CaptureTypeOK'
    BY DEF CaptureInv, CaptureTypeOK, ResponseState, ReturnResponse
  <1> QED BY <1>1, CaptureQuiet DEF CaptureInv, ReturnResponse

\* The answers keep their shape, and neither the row nor a copy a screen has open
\* holds a value nobody said (responses/service.py, voice confirmations).
THEOREM CaptureAlways == CaptureSpec => []CaptureInv
  <1>1. CaptureInit => CaptureInv
    BY DictationsCounted
       DEF CaptureInit, CaptureInv, CaptureTypeOK, ResponseState, DeskRow, Free,
           AnswersFromPeople, CopiesFromPeople
  <1>2. CaptureInv /\ [CaptureNext]_cvars => CaptureInv'
    <2> SUFFICES ASSUME CaptureInv, [CaptureNext]_cvars PROVE CaptureInv'
      OBVIOUS
    <2>1. CASE UNCHANGED cvars
      BY <2>1 DEF cvars, CaptureInv, CaptureTypeOK, AnswersFromPeople, CopiesFromPeople
    <2>2. CASE CaptureNext
      BY <2>2, CaptureSaves, CaptureDictates, CapturePhotos, CaptureConfirmBegins,
         CaptureConfirmCommits, CaptureDiscards, CaptureDesk, CaptureReturned
         DEF CaptureNext
    <2> QED BY <2>1, <2>2
  <1> QED BY <1>1, <1>2, PTL DEF CaptureSpec

\* Rule 0.5: a value stands in an answer only if somebody wrote it on the phone or
\* confirmed it, whatever the models propose and however screens interleave.
THEOREM AnswersAlwaysFromPeople == CaptureSpec => []AnswersFromPeople
  <1>1. CaptureInv => AnswersFromPeople
    BY DEF CaptureInv
  <1> QED BY <1>1, CaptureAlways, PTL

-----------------------------------------------------------------------------
(****************************************************************************)
(* CATALOGUES: a device mirrors what was committed                          *)
(****************************************************************************)

RowOrNone == EntryRow \cup {Missing}
EditorRow ==
  [act: {"flush", "bump"}, todo: SUBSET Keys, op: {"upsert", "retire"}, label: [Codes -> Labels],
   active: BOOLEAN, wrote: [Keys -> RowOrNone], version: 1 .. MaxVersion, bumped: BOOLEAN,
   complete: BOOLEAN, known: SUBSET Keys]

CatalogTyped == CatalogTypeOK /\ editor \in [Editors -> EditorRow \cup {NoEditor}]

\* No revision is past the last drawn.
RevisionsDrawn ==
  /\ device.since <= drawn
  /\ \A k \in Keys : entries[k].revision <= drawn
  /\ \A w \in Editors : editor[w] # NoEditor => \A k \in Keys : editor[w].wrote[k].revision <= drawn

\* What is not committed comes after what is, and after what the device asked from.
PendingIsLater ==
  \A w \in Editors : editor[w] # NoEditor =>
    \A k \in Keys : editor[w].wrote[k] # Missing =>
      /\ device.since < editor[w].wrote[k].revision
      /\ \A n \in Keys : entries[n].revision < editor[w].wrote[k].revision

CatalogInv == CatalogTyped /\ RevisionsDrawn
MirrorInv == CatalogInv /\ PendingIsLater /\ DeviceMirrors

LEMMA RowsTyped ==
  /\ Missing \in RowOrNone /\ Missing.revision = 0
  /\ \A row \in EntryRow : row # Missing /\ row.revision \in 1 .. MaxRevision
                           /\ row.label \in Labels /\ row.active \in BOOLEAN
  /\ \A row \in RowOrNone : row.revision \in 0 .. MaxRevision /\ (row # Missing => row \in EntryRow)
  <1>1. Missing \in RowOrNone /\ Missing.revision = 0
    BY DEF RowOrNone, Missing
  <1>2. ASSUME NEW row \in EntryRow
        PROVE  /\ row # Missing /\ row.revision \in 1 .. MaxRevision
               /\ row.label \in Labels /\ row.active \in BOOLEAN
    <2>1. row.revision \in 1 .. MaxRevision /\ row.label \in Labels /\ row.active \in BOOLEAN
      BY DEF EntryRow
    <2>2. row # Missing
      BY <1>1, <2>1
    <2> QED BY <2>1, <2>2
  <1>3. ASSUME NEW row \in RowOrNone
        PROVE  row.revision \in 0 .. MaxRevision /\ (row # Missing => row \in EntryRow)
    BY <1>1, <1>2, CatalogBounds DEF RowOrNone
  <1> QED BY <1>1, <1>2, <1>3

LEMMA EditorOpen ==
  ASSUME NEW c \in EditorRow
  PROVE  c # NoEditor
  BY DEF EditorRow, NoEditor

\* A session that reads the page of nobody: the fields every step needs.
LEMMA EditorAt ==
  ASSUME CatalogTyped, NEW w \in Editors, editor[w] # NoEditor
  PROVE  /\ editor[w] \in EditorRow
         /\ \A k \in Keys : SeesEntry(w, k) \in RowOrNone
  <1>1. editor[w] \in EditorRow
    BY DEF CatalogTyped
  <1>2. \A k \in Keys : editor[w].wrote[k] \in RowOrNone /\ entries[k] \in RowOrNone
    BY <1>1 DEF EditorRow, CatalogTyped, CatalogTypeOK, RowOrNone
  <1> QED BY <1>1, <1>2 DEF SeesEntry

-----------------------------------------------------------------------------
(* One session moves *)

\* What a session may become: a row of that type, whose new writes are later than
\* everything.
LEMMA EditorMoves ==
  ASSUME CatalogInv, NEW w \in Editors, NEW c \in EditorRow,
         editor' = [editor EXCEPT ![w] = c],
         UNCHANGED <<source, entries, version, device>>,
         drawn' \in drawn .. MaxRevision,
         \A k \in Keys : c.wrote[k].revision <= drawn'
  PROVE  CatalogInv'
  <1>1. drawn' \in 0 .. MaxRevision /\ drawn <= drawn' /\ drawn \in Nat
    BY DEF CatalogInv, CatalogTyped, CatalogTypeOK
  <1>2. CatalogTyped'
    BY <1>1 DEF CatalogInv, CatalogTyped, CatalogTypeOK
  <1>3. ASSUME NEW k \in Keys
        PROVE  entries[k].revision \in Nat /\ device.since \in Nat
    BY RowsTyped DEF CatalogInv, CatalogTyped, CatalogTypeOK, RowOrNone
  <1>4. ASSUME NEW v \in Editors, editor'[v] # NoEditor, NEW k \in Keys
        PROVE  editor'[v].wrote[k].revision <= drawn'
    <2>1. CASE v = w
      BY <2>1 DEF CatalogInv, CatalogTyped
    <2>2. CASE v # w
      <3>1. editor'[v] = editor[v]
        BY <2>2 DEF CatalogInv, CatalogTyped
      <3>2. editor[v].wrote[k] \in RowOrNone
        BY <1>4, <3>1 DEF CatalogInv, CatalogTyped, EditorRow
      <3>3. editor[v].wrote[k].revision \in Nat /\ editor[v].wrote[k].revision <= drawn
        BY <1>4, <3>1, <3>2, RowsTyped DEF CatalogInv, RevisionsDrawn
      <3> QED BY <1>1, <3>1, <3>3
    <2> QED BY <2>1, <2>2
  <1>5. device'.since <= drawn'
    <2>1. device.since \in Nat /\ device.since <= drawn
      BY DEF CatalogInv, CatalogTyped, CatalogTypeOK, RevisionsDrawn
    <2> QED BY <1>1, <2>1
  <1>6. \A k \in Keys : entries'[k].revision <= drawn'
    BY <1>1, <1>3 DEF CatalogInv, RevisionsDrawn
  <1> QED BY <1>2, <1>4, <1>5, <1>6 DEF CatalogInv, RevisionsDrawn

LEMMA PendingMoves ==
  ASSUME MirrorInv, NEW w \in Editors, NEW c \in EditorRow,
         editor' = [editor EXCEPT ![w] = c],
         UNCHANGED <<entries, device>>, CatalogInv',
         \A k \in Keys : c.wrote[k] # Missing =>
           c.wrote[k].revision = drawn + 1 \/ (editor[w] # NoEditor /\ c.wrote[k] = editor[w].wrote[k])
  PROVE  MirrorInv'
  <1>1. ASSUME NEW v \in Editors, editor'[v] # NoEditor, NEW k \in Keys, editor'[v].wrote[k] # Missing
        PROVE  /\ device.since < editor'[v].wrote[k].revision
               /\ \A n \in Keys : entries[n].revision < editor'[v].wrote[k].revision
    <2>1. CASE editor[v] # NoEditor /\ editor'[v].wrote[k] = editor[v].wrote[k]
      BY <1>1, <2>1 DEF MirrorInv, PendingIsLater
    <2>2. CASE v = w /\ editor'[v].wrote[k].revision = drawn + 1
      <3>1. device.since <= drawn /\ \A n \in Keys : entries[n].revision <= drawn
        BY DEF MirrorInv, CatalogInv, RevisionsDrawn
      <3>2. drawn \in Nat /\ device.since \in Nat /\ \A n \in Keys : entries[n].revision \in Nat
        BY RowsTyped DEF MirrorInv, CatalogInv, CatalogTyped, CatalogTypeOK, RowOrNone
      <3> QED BY <2>2, <3>1, <3>2
    <2>3. editor'[v] = IF v = w THEN c ELSE editor[v]
      BY DEF MirrorInv, CatalogInv, CatalogTyped
    <2> QED BY <1>1, <2>1, <2>2, <2>3
  <1>2. PendingIsLater'
    BY <1>1 DEF PendingIsLater
  <1>3. DeviceMirrors'
    BY DEF MirrorInv, DeviceMirrors
  <1> QED BY <1>2, <1>3 DEF MirrorInv

\* A row of the session is none, the one it had, or the one just drawn.
Moves(w, c) ==
  /\ editor' = [editor EXCEPT ![w] = c]
  /\ UNCHANGED <<source, entries, version, device>>
  /\ drawn' \in drawn .. MaxRevision
  /\ \A k \in Keys :
       \/ c.wrote[k] = Missing
       \/ editor[w] # NoEditor /\ c.wrote[k] = editor[w].wrote[k]
       \/ c.wrote[k].revision = drawn + 1 /\ drawn' = drawn + 1

LEMMA EditingTyped ==
  ASSUME CatalogTyped, NEW todo \in SUBSET Keys, NEW op \in {"upsert", "retire"},
         NEW label \in [Codes -> Labels], NEW active \in BOOLEAN
  PROVE  /\ Editing(todo, op, label, active) \in EditorRow
         /\ \A k \in Keys : Editing(todo, op, label, active).wrote[k] = Missing
  <1> DEFINE none == [k \in Keys |-> Missing]
  <1>1. version \in 1 .. MaxVersion
    BY DEF CatalogTyped, CatalogTypeOK
  <1>2. none \in [Keys -> RowOrNone] /\ \A k \in Keys : none[k] = Missing
    BY RowsTyped
  <1>3. Editing(todo, op, label, active).wrote = none
    BY DEF Editing
  <1>4. Editing(todo, op, label, active) \in EditorRow
    <2>1. Editing(todo, op, label, active) =
            [act |-> "flush", todo |-> todo, op |-> op, label |-> label, active |-> active,
             wrote |-> none, version |-> version, bumped |-> FALSE, complete |-> FALSE, known |-> {}]
      BY DEF Editing
    <2> HIDE DEF none
    <2> QED BY <1>1, <1>2, <2>1 DEF EditorRow
  <1> HIDE DEF none
  <1> QED BY <1>2, <1>3, <1>4

LEMMA SessionOpens ==
  ASSUME CatalogTyped, NEW w \in Editors, NEW c \in EditorRow, Opened(w, c),
         \A k \in Keys : c.wrote[k] = Missing
  PROVE  Moves(w, c)
  <1>1. drawn \in 0 .. MaxRevision
    BY DEF CatalogTyped, CatalogTypeOK
  <1>2. drawn' \in drawn .. MaxRevision
    BY <1>1, CatalogBounds DEF Opened
  <1> QED BY <1>2 DEF Moves, Opened

LEMMA SessionFlushes ==
  ASSUME CatalogTyped, NEW w \in Editors, FlushEntry(w)
  PROVE  \E c \in EditorRow : Moves(w, c)
  <1> DEFINE b == editor[w]
  <1>1. b \in EditorRow /\ b # NoEditor
    BY EditorAt DEF FlushEntry, NoEditor
  <1>2. PICK k \in b.todo :
          IF Changes(w, k)
          THEN /\ drawn < MaxRevision
               /\ drawn' = drawn + 1
               /\ editor' = [editor EXCEPT ![w].act = "bump", ![w].todo = @ \ {k},
                    ![w].wrote[k] = [label |-> editor[w].label[k[2]],
                                     active |-> editor[w].active, revision |-> drawn + 1]]
          ELSE /\ UNCHANGED drawn
               /\ editor' = [editor EXCEPT ![w].todo = @ \ {k},
                    ![w].act = IF editor[w].op = "upsert" THEN "bump" ELSE @]
    BY DEF FlushEntry
  <1>3. k \in Keys /\ k[2] \in Codes /\ b.label[k[2]] \in Labels /\ b.active \in BOOLEAN
        /\ drawn \in 0 .. MaxRevision
    BY <1>1, <1>2 DEF EditorRow, Keys, CatalogTyped, CatalogTypeOK
  <1>4. UNCHANGED <<source, entries, version, device>>
    BY DEF FlushEntry
  <1>5. editor \in [Editors -> EditorRow \cup {NoEditor}]
    BY DEF CatalogTyped
  <1>6. CASE Changes(w, k)
    <2> DEFINE row == [label |-> b.label[k[2]], active |-> b.active, revision |-> drawn + 1]
               c == [b EXCEPT !.act = "bump", !.todo = @ \ {k}, !.wrote[k] = row]
    <2>1. drawn + 1 \in 1 .. MaxRevision /\ drawn' = drawn + 1
      BY <1>2, <1>3, <1>6, CatalogBounds
    <2>2. row \in RowOrNone /\ row.revision = drawn + 1
      <3>1. row \in EntryRow /\ row.revision = drawn + 1
        BY <1>3, <2>1, Zenon DEF EntryRow
      <3> QED BY <3>1 DEF RowOrNone
    <2>3. editor' = [editor EXCEPT ![w] = c]
      <3>1. editor' = [editor EXCEPT ![w].act = "bump", ![w].todo = @ \ {k}, ![w].wrote[k] = row]
        BY <1>2, <1>6, Zenon
      <3> HIDE DEF row
      <3> QED BY <1>1, <1>5, <3>1 DEF EditorRow
    <2>4. c \in EditorRow /\ c.wrote = [b.wrote EXCEPT ![k] = row]
      <3> HIDE DEF row
      <3> QED BY <1>1, <1>3, <2>2 DEF EditorRow
    <2> HIDE DEF c, row
    <2>5. \A n \in Keys : c.wrote[n] = IF n = k THEN row ELSE b.wrote[n]
      BY <1>1, <1>3, <2>4 DEF EditorRow
    <2>6. drawn' \in drawn .. MaxRevision
      BY <1>3, <2>1, CatalogBounds
    <2> QED BY <1>1, <1>4, <2>1, <2>2, <2>3, <2>4, <2>5, <2>6 DEF Moves
  <1>7. CASE ~Changes(w, k)
    <2> DEFINE act == IF b.op = "upsert" THEN "bump" ELSE b.act
               c == [b EXCEPT !.todo = @ \ {k}, !.act = act]
    <2>1. act \in {"flush", "bump"}
      BY <1>1 DEF EditorRow
    <2>2. editor' = [editor EXCEPT ![w] = c] /\ drawn' = drawn
      BY <1>1, <1>2, <1>5, <1>7 DEF EditorRow
    <2>3. c \in EditorRow /\ c.wrote = b.wrote
      <3> HIDE DEF act
      <3> QED BY <1>1, <2>1 DEF EditorRow
    <2>4. drawn' \in drawn .. MaxRevision
      BY <1>3, <2>2, CatalogBounds
    <2> HIDE DEF c
    <2> QED BY <1>1, <1>4, <2>2, <2>3, <2>4 DEF Moves
  <1> QED BY <1>6, <1>7

LEMMA SessionBumps ==
  ASSUME CatalogTyped, NEW w \in Editors, Bump(w)
  PROVE  \E c \in EditorRow : Moves(w, c)
  <1> DEFINE b == editor[w]
             c == [b EXCEPT !.act = "flush", !.version = @ + 1, !.bumped = TRUE]
  <1>1. b \in EditorRow /\ b # NoEditor
    BY EditorAt DEF Bump, NoEditor
  <1>2. editor' = [editor EXCEPT ![w] = c] /\ UNCHANGED <<source, entries, version, drawn, device>>
    BY <1>1 DEF Bump, CatalogTyped, EditorRow
  <1>3. b.version + 1 \in 1 .. MaxVersion
    BY <1>1, CatalogBounds DEF Bump, EditorRow
  <1>4. c \in EditorRow /\ c.wrote = b.wrote
    BY <1>1, <1>3 DEF EditorRow
  <1>5. drawn' \in drawn .. MaxRevision
    BY <1>2, CatalogBounds DEF CatalogTyped, CatalogTypeOK
  <1> HIDE DEF c
  <1> QED BY <1>1, <1>2, <1>4, <1>5 DEF Moves

LEMMA SessionRetires ==
  ASSUME CatalogTyped, NEW w \in Editors, RetireMissing(w)
  PROVE  \E c \in EditorRow : Moves(w, c)
  <1> DEFINE b == editor[w]
             gone == {k \in {"national"} \X Codes :
                        SeesEntry(w, k) # Missing /\ SeesEntry(w, k).active /\ k \notin b.known}
             label == [c \in Codes |->
               IF <<"national", c>> \in gone THEN SeesEntry(w, <<"national", c>>).label ELSE b.label[c]]
             d == [b EXCEPT !.todo = gone, !.op = "retire", !.active = FALSE, !.complete = FALSE,
                            !.label = label]
  <1>1. b \in EditorRow /\ b # NoEditor
    <2>1. b.act = "flush"
      BY Zenon DEF RetireMissing
    <2>2. b # NoEditor
      <3> HIDE DEF b
      <3> QED BY <2>1 DEF NoEditor
    <2> QED BY <2>2, EditorAt
  <1>2. gone \in SUBSET Keys /\ \A k \in gone : SeesEntry(w, k).label \in Labels
    <2>1. \A k \in gone : k \in Keys
      BY DEF Keys, Owners
    <2>2. \A k \in gone : SeesEntry(w, k) # Missing
      OBVIOUS
    <2> HIDE DEF gone
    <2> QED BY <1>1, <2>1, <2>2, EditorAt, RowsTyped
  <1>3. label \in [Codes -> Labels]
    <2> HIDE DEF gone
    <2> QED BY <1>1, <1>2 DEF EditorRow
  <1>4. editor' = [editor EXCEPT ![w] = d] /\ UNCHANGED <<source, entries, version, drawn, device>>
    <2>1. editor' = [editor EXCEPT ![w].todo = gone, ![w].op = "retire", ![w].active = FALSE,
            ![w].complete = FALSE,
            ![w].label = [c \in Codes |->
               IF <<"national", c>> \in gone THEN SeesEntry(w, <<"national", c>>).label ELSE @[c]]]
      BY Zenon DEF RetireMissing
    <2>2. editor \in [Editors -> EditorRow \cup {NoEditor}]
      BY DEF CatalogTyped
    <2> HIDE DEF gone
    <2>3. editor' = [editor EXCEPT ![w] = d]
      BY <1>1, <2>1, <2>2 DEF EditorRow
    <2> QED BY <2>3 DEF RetireMissing
  <1>5. d \in EditorRow /\ d.wrote = b.wrote
    <2> HIDE DEF gone, label
    <2> QED BY <1>1, <1>2, <1>3 DEF EditorRow
  <1>6. drawn' \in drawn .. MaxRevision
    BY <1>4, CatalogBounds DEF CatalogTyped, CatalogTypeOK
  <1> HIDE DEF d
  <1> QED BY <1>1, <1>4, <1>5, <1>6 DEF Moves

LEMMA SessionMoves ==
  ASSUME CatalogTyped, NEW w \in Editors,
         \/ upsert_entry(w) \/ retire_entry(w) \/ import_materials(w) \/ FlushEntry(w)
         \/ Bump(w) \/ RetireMissing(w)
  PROVE  \E c \in EditorRow : Moves(w, c)
  <1>1. CASE upsert_entry(w)
    <2>1. PICK k \in Keys, label \in Labels, active \in BOOLEAN :
            Opened(w, Editing({k}, "upsert", [c \in Codes |-> label], active))
      BY <1>1 DEF upsert_entry
    <2>2. {k} \in SUBSET Keys /\ [c \in Codes |-> label] \in [Codes -> Labels]
      OBVIOUS
    <2> QED BY <2>1, <2>2, EditingTyped, SessionOpens
  <1>2. CASE retire_entry(w)
    <2>1. PICK k \in {n \in Keys : entries[n] # Missing /\ n[1] = "national"} :
            Opened(w, Editing({k}, "retire", [c \in Codes |-> entries[k].label], FALSE))
      BY <1>2 DEF retire_entry
    <2>2. entries[k].label \in Labels
      BY RowsTyped DEF CatalogTyped, CatalogTypeOK, RowOrNone
    <2>3. {k} \in SUBSET Keys /\ [c \in Codes |-> entries[k].label] \in [Codes -> Labels]
      BY <2>2
    <2> QED BY <2>1, <2>3, EditingTyped, SessionOpens
  <1>3. CASE import_materials(w)
    <2>1. PICK batch \in SUBSET Codes, label \in [Codes -> Labels], complete \in BOOLEAN :
            Opened(w, [Editing({"national"} \X batch, "upsert", label, TRUE)
                         EXCEPT !.complete = complete, !.known = {"national"} \X batch])
      BY <1>3 DEF import_materials
    <2> DEFINE e == Editing({"national"} \X batch, "upsert", label, TRUE)
               c == [e EXCEPT !.complete = complete, !.known = {"national"} \X batch]
    <2>2. {"national"} \X batch \in SUBSET Keys
      BY DEF Keys, Owners
    <2>3. e \in EditorRow /\ \A k \in Keys : e.wrote[k] = Missing
      BY <2>2, EditingTyped
    <2> HIDE DEF e
    <2>4. c \in EditorRow /\ c.wrote = e.wrote
      BY <2>2, <2>3 DEF EditorRow
    <2>5. Opened(w, c)
      BY <2>1 DEF e
    <2> HIDE DEF c
    <2> QED BY <2>3, <2>4, <2>5, SessionOpens
  <1> QED BY <1>1, <1>2, <1>3, SessionFlushes, SessionBumps, SessionRetires

LEMMA MovesKeep ==
  ASSUME CatalogInv, NEW w \in Editors, NEW c \in EditorRow, Moves(w, c)
  PROVE  CatalogInv' /\ (MirrorInv => MirrorInv')
  <1>1. \A k \in Keys : c.wrote[k].revision <= drawn'
    <2> SUFFICES ASSUME NEW k \in Keys PROVE c.wrote[k].revision <= drawn'
      OBVIOUS
    <2>1. drawn \in Nat /\ drawn' \in Nat /\ drawn <= drawn'
      BY DEF Moves, CatalogInv, CatalogTyped, CatalogTypeOK
    <2>2. CASE c.wrote[k] = Missing
      BY <2>1, <2>2, RowsTyped
    <2>3. CASE editor[w] # NoEditor /\ c.wrote[k] = editor[w].wrote[k]
      <3>1. c.wrote[k].revision \in Nat /\ c.wrote[k].revision <= drawn
        BY <2>3, RowsTyped DEF EditorRow, CatalogInv, RevisionsDrawn
      <3> QED BY <2>1, <3>1
    <2>4. CASE c.wrote[k].revision = drawn + 1 /\ drawn' = drawn + 1
      BY <2>1, <2>4
    <2> QED BY <2>2, <2>3, <2>4 DEF Moves
  <1>2. CatalogInv'
    BY <1>1, EditorMoves DEF Moves
  <1>3. ASSUME MirrorInv
        PROVE  MirrorInv'
    <2>1. \A k \in Keys : c.wrote[k] # Missing =>
            c.wrote[k].revision = drawn + 1 \/ (editor[w] # NoEditor /\ c.wrote[k] = editor[w].wrote[k])
      BY DEF Moves
    <2>2. editor' = [editor EXCEPT ![w] = c] /\ UNCHANGED <<entries, device>>
      BY DEF Moves
    <2> QED BY <1>2, <1>3, <2>1, <2>2, PendingMoves
  <1> QED BY <1>2, <1>3

-----------------------------------------------------------------------------
(* A session ends; the device downloads *)

LEMMA SessionEnds ==
  ASSUME CatalogInv, NEW w \in Editors, CatalogRollback(w)
  PROVE  CatalogInv' /\ (MirrorInv => MirrorInv')
  <1>1. /\ UNCHANGED <<source, entries, version, drawn, device>>
        /\ editor' \in [Editors -> EditorRow \cup {NoEditor}]
        /\ \A v \in Editors : editor'[v] # NoEditor => editor'[v] = editor[v]
    BY DEF CatalogRollback, CatalogInv, CatalogTyped
  <1>2. CatalogInv'
    BY <1>1 DEF CatalogInv, CatalogTyped, CatalogTypeOK, RevisionsDrawn
  <1>3. MirrorInv => PendingIsLater' /\ DeviceMirrors'
    BY <1>1 DEF MirrorInv, PendingIsLater, DeviceMirrors
  <1> QED BY <1>2, <1>3 DEF MirrorInv

LEMMA SessionCommits ==
  ASSUME CatalogInv, NEW w \in Editors, CatalogCommit(w)
  PROVE  CatalogInv' /\ (MirrorInv /\ (\A v \in Editors : v = w) => MirrorInv')
  <1> DEFINE b == editor[w]
  <1>1. b \in EditorRow /\ b # NoEditor
    <2>1. b # NoEditor
      BY DEF CatalogCommit, NoEditor
    <2> QED BY <2>1, EditorAt DEF CatalogInv
  <1>2. \A k \in Keys : entries'[k] = SeesEntry(w, k)
    BY DEF CatalogCommit
  <1>3. /\ editor' \in [Editors -> EditorRow \cup {NoEditor}]
        /\ editor'[w] = NoEditor
        /\ \A v \in Editors : editor'[v] # NoEditor => editor'[v] = editor[v]
        /\ UNCHANGED <<source, drawn, device>>
    BY DEF CatalogCommit, CatalogInv, CatalogTyped
  <1>4. version' \in 1 .. MaxVersion
    BY <1>1 DEF CatalogCommit, EditorRow, CatalogInv, CatalogTyped, CatalogTypeOK
  <1>5. entries' \in [Keys -> EntryRow \cup {Missing}]
    BY <1>1, EditorAt DEF CatalogCommit, CatalogInv, RowOrNone
  <1>6. \A k \in Keys : entries'[k].revision <= drawn
    BY <1>1, <1>2 DEF SeesEntry, CatalogInv, RevisionsDrawn
  <1>7. CatalogInv'
    BY <1>3, <1>4, <1>5, <1>6 DEF CatalogInv, CatalogTyped, CatalogTypeOK, RevisionsDrawn
  <1>8. ASSUME MirrorInv, \A v \in Editors : v = w
        PROVE  MirrorInv'
    <2>1. PendingIsLater'
      BY <1>3, <1>8 DEF PendingIsLater
    <2>2. ASSUME NEW k \in Keys, entries'[k].revision <= device'.since
          PROVE  device'.held[k] = entries'[k]
      <3>1. CASE b.wrote[k] # Missing
        <4>1. device.since < b.wrote[k].revision /\ entries'[k] = b.wrote[k]
          BY <1>1, <1>2, <1>8, <3>1 DEF MirrorInv, PendingIsLater, SeesEntry
        <4>2. b.wrote[k] \in RowOrNone
          BY <1>1 DEF EditorRow
        <4>3. b.wrote[k].revision \in Nat /\ device.since \in Nat
          BY <4>2, RowsTyped DEF CatalogInv, CatalogTyped, CatalogTypeOK
        <4> QED BY <1>3, <2>2, <4>1, <4>3
      <3>2. CASE b.wrote[k] = Missing
        <4>1. entries'[k] = entries[k]
          BY <1>2, <3>2 DEF SeesEntry
        <4> QED BY <1>3, <1>8, <2>2, <4>1 DEF MirrorInv, DeviceMirrors
      <3> QED BY <3>1, <3>2
    <2> QED BY <1>7, <2>1, <2>2 DEF MirrorInv, DeviceMirrors
  <1> QED BY <1>7, <1>8

\* A set of naturals that is not empty and has a bound has a greatest element.
LEMMA Greatest ==
  ASSUME NEW S \in SUBSET Nat, S # {}, NEW bound \in Nat, \A n \in S : n <= bound
  PROVE  \E n \in S : \A m \in S : m <= n
  <1> DEFINE T == {bound - n : n \in S}
  <1>1. T \in SUBSET Nat /\ T # {}
    <2>1. \A n \in S : n \in Nat /\ n <= bound
      OBVIOUS
    <2>2. \A n \in S : bound - n \in Nat
      BY <2>1
    <2> QED BY <2>2
  <1>2. PICK x \in T : \A y \in T : <<y, x>> \notin OpToRel(<, Nat)
    <2> HIDE DEF T
    <2> QED BY <1>1, NatLessThanWellFounded, WFMin
  <1>3. \A y \in T : ~(y < x)
    BY <1>1, <1>2 DEF OpToRel
  <1>4. PICK n \in S : x = bound - n
    OBVIOUS
  <1>5. ASSUME NEW m \in S
        PROVE  m <= n
    <2>1. ~(bound - m < bound - n)
      BY <1>3, <1>4
    <2> QED BY <2>1
  <1> QED BY <1>5

LEMMA KeysAreListed == IsFiniteSet(Keys)
  <1>1. IsFiniteSet({"national"} \cup {"unit"})
    BY FS_Singleton, FS_Union
  <1>2. Owners = {"national"} \cup {"unit"}
    BY DEF Owners
  <1> QED BY <1>1, <1>2, CodesAreListed, FS_Product DEF Keys

\* What the device asks from next is a revision of the page, and all the rows up
\* to it were in the page.
LEMMA PageIsPrefix ==
  ASSUME CatalogTyped, Download
  PROVE  /\ \E m \in Delta(device.since) : device'.since = entries[m].revision
         /\ \A k \in Keys : device.since < entries[k].revision /\ entries[k].revision <= device'.since
              => k \in Delta(device.since)
  <1> DEFINE page == Delta(device.since)
             due == {k \in Keys : Travels(entries[k], device.since)}
             Before(k) == {n \in due : entries[n].revision < entries[k].revision}
             revisions == {entries[k].revision : k \in page}
  <1>1. \A k \in Keys : entries[k].revision \in 0 .. MaxRevision
    BY RowsTyped DEF CatalogTyped, CatalogTypeOK, RowOrNone
  <1>2. page = {k \in due : Cardinality(Before(k)) < PageSize}
    BY DEF Delta
  <1>3. page # {} /\ page \subseteq Keys
    BY <1>2 DEF Download
  <1>4. \E n \in revisions : \A m \in revisions : m <= n
    <2>1. revisions \in SUBSET Nat /\ revisions # {} /\ \A n \in revisions : n <= MaxRevision
      <3> HIDE DEF page
      <3> QED BY <1>1, <1>3, CatalogBounds
    <2> HIDE DEF revisions
    <2> QED BY <2>1, CatalogBounds, Greatest
  <1>5. \E n \in revisions : \A k \in page : entries[k].revision <= n
    <2> HIDE DEF page
    <2> QED BY <1>4
  <1>6. device'.since = CHOOSE n \in revisions : \A k \in page : entries[k].revision <= n
    BY DEF Download
  <1>7. device'.since \in revisions
    <2> HIDE DEF revisions, page
    <2> QED BY <1>5, <1>6
  <1>8. PICK m \in page : device'.since = entries[m].revision
    <2> HIDE DEF page
    <2> QED BY <1>7
  <1>9. ASSUME NEW k \in Keys, device.since < entries[k].revision, entries[k].revision <= device'.since
        PROVE  k \in page
    <2>1. k \in due
      BY <1>9 DEF Travels
    <2>2. Before(k) \subseteq Before(m)
      BY <1>1, <1>3, <1>8, <1>9
    <2>3. Before(m) \subseteq Keys
      OBVIOUS
    <2>4. Cardinality(Before(m)) < PageSize
      BY <1>2
    <2> HIDE DEF Before, due
    <2>5. IsFiniteSet(Before(m)) /\ IsFiniteSet(Before(k))
      BY <2>2, <2>3, KeysAreListed, FS_Subset
    <2>6. Cardinality(Before(k)) <= Cardinality(Before(m))
      BY <2>2, <2>5, FS_Subset
    <2>7. Cardinality(Before(k)) \in Nat /\ Cardinality(Before(m)) \in Nat
      BY <2>5, FS_CardinalityType
    <2>8. Cardinality(Before(k)) < PageSize
      BY <2>4, <2>6, <2>7, PageHoldsOne
    <2> QED BY <1>2, <2>1, <2>8
  <1> QED BY <1>8, <1>9

LEMMA DeviceDownloads ==
  ASSUME CatalogInv, Download
  PROVE  CatalogInv' /\ (MirrorInv => MirrorInv')
  <1> DEFINE page == Delta(device.since)
  <1>1. \A k \in Keys : entries[k] \in RowOrNone /\ entries[k].revision \in 0 .. MaxRevision
    BY RowsTyped DEF CatalogInv, CatalogTyped, CatalogTypeOK, RowOrNone
  <1>2. page \subseteq Keys
    BY DEF Delta
  <1>3. PICK m \in page : device'.since = entries[m].revision
    BY PageIsPrefix DEF CatalogInv
  <1>4. device.since < entries[m].revision
    BY <1>3 DEF Delta, Travels
  <1>5. \A k \in Keys : device'.held[k] = IF k \in page THEN entries[k] ELSE device.held[k]
    BY DEF Download
  <1>6. UNCHANGED <<source, entries, version, drawn, editor>>
    BY DEF Download
  <1>7. device' \in [held: [Keys -> EntryRow \cup {Missing}], since: 0 .. MaxRevision]
    <2> DEFINE held == [k \in Keys |-> IF k \in page THEN entries[k] ELSE device.held[k]]
    <2>1. device' = [held |-> held, since |-> device'.since]
      BY DEF Download
    <2>2. held \in [Keys -> EntryRow \cup {Missing}]
      <3> HIDE DEF page
      <3> QED BY <1>1 DEF CatalogInv, CatalogTyped, CatalogTypeOK, RowOrNone
    <2>3. device'.since \in 0 .. MaxRevision
      BY <1>1, <1>2, <1>3
    <2> HIDE DEF held
    <2> QED BY <2>1, <2>2, <2>3
  <1> HIDE DEF page
  <1>8. CatalogInv'
    <2>1. device'.since <= drawn
      BY <1>2, <1>3 DEF CatalogInv, RevisionsDrawn
    <2> QED BY <1>6, <1>7, <2>1 DEF CatalogInv, CatalogTyped, CatalogTypeOK, RevisionsDrawn
  <1>9. ASSUME MirrorInv
        PROVE  MirrorInv'
    <2>1. PendingIsLater'
      BY <1>2, <1>3, <1>6, <1>9 DEF MirrorInv, PendingIsLater
    <2>2. ASSUME NEW k \in Keys, entries[k].revision <= device'.since
          PROVE  device'.held[k] = entries[k]
      <3>1. CASE k \in page
        BY <1>5, <3>1
      <3>2. CASE k \notin page
        <4>1. ~(device.since < entries[k].revision)
          BY <2>2, <3>2, PageIsPrefix DEF CatalogInv, page
        <4>2. entries[k].revision <= device.since
          BY <1>1, <4>1 DEF CatalogInv, CatalogTyped, CatalogTypeOK
        <4> QED BY <1>5, <1>9, <3>2, <4>2 DEF MirrorInv, DeviceMirrors
      <3> QED BY <3>1, <3>2
    <2> QED BY <1>6, <1>8, <2>1, <2>2 DEF MirrorInv, DeviceMirrors
  <1> QED BY <1>8, <1>9

LEMMA CatalogStarts == CatalogInit => MirrorInv
  <1> SUFFICES ASSUME CatalogInit PROVE MirrorInv
    OBVIOUS
  <1>1. /\ source \in CatalogSource /\ entries = [k \in Keys |-> Missing] /\ version = 1 /\ drawn = 0
        /\ editor = [w \in Editors |-> NoEditor]
        /\ device = [held |-> [k \in Keys |-> Missing], since |-> 0]
    BY DEF CatalogInit
  <1>2. CatalogTyped
    BY <1>1, CatalogBounds DEF CatalogTyped, CatalogTypeOK
  <1>3. RevisionsDrawn /\ PendingIsLater /\ DeviceMirrors
    BY <1>1, RowsTyped DEF RevisionsDrawn, PendingIsLater, DeviceMirrors
  <1> QED BY <1>2, <1>3 DEF MirrorInv, CatalogInv

LEMMA CatalogStays ==
  ASSUME CatalogInv, UNCHANGED kvars
  PROVE  CatalogInv' /\ (MirrorInv => MirrorInv')
  <1>1. UNCHANGED <<source, entries, version, drawn, editor, device>>
    BY DEF kvars
  <1>2. CatalogInv'
    BY <1>1 DEF CatalogInv, CatalogTyped, CatalogTypeOK, RevisionsDrawn
  <1>3. MirrorInv => PendingIsLater' /\ DeviceMirrors'
    BY <1>1 DEF MirrorInv, PendingIsLater, DeviceMirrors
  <1> QED BY <1>2, <1>3 DEF MirrorInv

LEMMA CatalogSteps ==
  ASSUME CatalogInv, [CatalogNext]_kvars
  PROVE  /\ CatalogInv'
         /\ MirrorInv /\ (\A v, w \in Editors : v = w) => MirrorInv'
  <1>1. ASSUME NEW w \in Editors,
               \/ upsert_entry(w) \/ retire_entry(w) \/ import_materials(w) \/ FlushEntry(w)
               \/ Bump(w) \/ RetireMissing(w)
        PROVE  CatalogInv' /\ (MirrorInv => MirrorInv')
    <2>1. PICK c \in EditorRow : Moves(w, c)
      BY <1>1, SessionMoves DEF CatalogInv
    <2> QED BY <2>1, MovesKeep
  <1>2. ASSUME NEW w \in Editors, CatalogCommit(w)
        PROVE  CatalogInv' /\ (MirrorInv /\ (\A v, u \in Editors : v = u) => MirrorInv')
    BY <1>2, SessionCommits
  <1>3. ASSUME NEW w \in Editors, CatalogRollback(w)
        PROVE  CatalogInv' /\ (MirrorInv => MirrorInv')
    BY <1>3, SessionEnds
  <1> QED BY <1>1, <1>2, <1>3, CatalogStays, DeviceDownloads DEF CatalogNext

\* The entries and the device keep their shape, and no revision is past the last drawn.
THEOREM CatalogAlways == CatalogSpec => []CatalogInv
  <1>1. CatalogInit => CatalogInv
    BY CatalogStarts DEF MirrorInv
  <1>2. CatalogInv /\ [CatalogNext]_kvars => CatalogInv'
    BY CatalogSteps
  <1> QED BY <1>1, <1>2, PTL DEF CatalogSpec

\* One session edits the catalogues at a time; two can commit out of the order of their
\* revisions, and a device between them misses the earlier (catalogs/service.py).
OneEditor == \A v, w \in Editors : v = w

\* A device that has every page up to a revision shows the catalogue as it was
\* committed: when one session writes at a time, nothing is skipped between pages.
THEOREM DeviceAlwaysMirrors == OneEditor /\ CatalogSpec => []DeviceMirrors
  <1> SUFFICES ASSUME OneEditor PROVE CatalogSpec => []DeviceMirrors
    OBVIOUS
  <1>1. CatalogInit => MirrorInv
    BY CatalogStarts
  <1>2. MirrorInv /\ [CatalogNext]_kvars => MirrorInv'
    BY CatalogSteps DEF MirrorInv, OneEditor
  <1>3. MirrorInv => DeviceMirrors
    BY DEF MirrorInv
  <1> QED BY <1>1, <1>2, <1>3, PTL DEF CatalogSpec

-----------------------------------------------------------------------------
(****************************************************************************)
(* PARAMETERS: the past stands                                              *)
(****************************************************************************)

SettingRow ==
  [act: {"creado", "corregido"}, code: ParameterCode, from: Dates, to: Dates \cup {Forever},
   value: Limits, strict: Strictness, closes: SUBSET Dates]
VerifyingRow == [act: {"verificado"}, code: ParameterCode, from: Dates]

\* What a session means to do: it corrects and verifies periods that are there, and
\* ends earlier ones.
CallSound(c) ==
  /\ c.act \in {"corregido", "verificado"} => period[c.code][c.from] # NoPeriod
  /\ c.act \in {"creado", "corregido"} =>
       \A d \in c.closes : d < c.from /\ period[c.code][d] # NoPeriod

ParameterInv ==
  /\ period \in [ParameterCode -> [Dates -> PeriodRow \cup {NoPeriod}]]
  /\ readAs \in [ParameterCode -> [Dates -> SUBSET Limits]]
  /\ calls \in Nat
  /\ admin \in [Admins -> SettingRow \cup VerifyingRow \cup {NoAdmin}]
  /\ \A a \in Admins : admin[a] # NoAdmin => CallSound(admin[a])

\* With one session, what it read to be open is open when it writes.
ClosesOpen ==
  \A a \in Admins : admin[a] # NoAdmin /\ admin[a].act \in {"creado", "corregido"} =>
    \A d \in admin[a].closes : period[admin[a].code][d].to = Forever

\* One session edits parameters at a time: the periods it will end are read without a lock.
OneAdmin == \A a, b \in Admins : a = b

LEMMA DaysAreNumbers ==
  /\ LastDay \in Nat /\ Dates \subseteq Nat /\ Forever \in Nat /\ \A d \in Dates : 1 <= d /\ d < Forever
  BY LimitsAreNumbers DEF Dates, Forever

LEMMA PeriodTyped ==
  ASSUME NEW row \in PeriodRow
  PROVE  /\ row.to \in Nat /\ row.value \in Limits /\ row.verified \in BOOLEAN
         /\ row.strict \in BOOLEAN /\ row # NoPeriod
  BY DaysAreNumbers, NoPeriodIsNoRow DEF PeriodRow

LEMMA AdminActs ==
  /\ \A c \in SettingRow : c.act \in {"creado", "corregido"}
  /\ \A c \in VerifyingRow : c.act = "verificado"
  /\ NoAdmin.act = "none"
  BY DEF SettingRow, VerifyingRow, NoAdmin

LEMMA SettingAt ==
  ASSUME ParameterInv, NEW a \in Admins, SetCommit(a)
  PROVE  admin[a] \in SettingRow /\ admin[a] # NoAdmin
  <1>1. admin[a].act \in {"creado", "corregido"}
    BY DEF SetCommit
  <1> QED BY <1>1, AdminActs DEF ParameterInv

LEMMA VerifyingAt ==
  ASSUME ParameterInv, NEW a \in Admins, VerifyCommit(a)
  PROVE  admin[a] \in VerifyingRow /\ admin[a] # NoAdmin
  <1>1. admin[a].act = "verificado"
    BY DEF VerifyCommit
  <1> QED BY <1>1, AdminActs DEF ParameterInv

\* Only a call changes the periods, and none of them goes.
LEMMA PeriodsStay ==
  ASSUME ParameterInv,
         period' \in [ParameterCode -> [Dates -> PeriodRow \cup {NoPeriod}]],
         readAs' \in [ParameterCode -> [Dates -> SUBSET Limits]], calls' \in Nat,
         NEW a \in Admins, NEW c,
         admin' = [admin EXCEPT ![a] = c],
         c \in SettingRow \cup VerifyingRow \cup {NoAdmin},
         c # NoAdmin => CallSound(c),
         \A code \in ParameterCode, d \in Dates :
           period[code][d] # NoPeriod => period'[code][d] # NoPeriod
  PROVE  ParameterInv'
  <1>1. admin' \in [Admins -> SettingRow \cup VerifyingRow \cup {NoAdmin}]
    BY DEF ParameterInv
  <1>2. ASSUME NEW b \in SettingRow \cup VerifyingRow, CallSound(b)
        PROVE  CallSound(b)'
    <2>1. b.code \in ParameterCode /\ b.from \in Dates
      BY DEF SettingRow, VerifyingRow
    <2>2. b.act \in {"creado", "corregido"} => b.closes \subseteq Dates
      BY AdminActs DEF SettingRow
    <2>3. \A code \in ParameterCode, d \in Dates :
            period[code][d] # NoPeriod => period'[code][d] # NoPeriod
      OBVIOUS
    <2> QED BY <1>2, <2>1, <2>2, <2>3 DEF CallSound
  <1>3. ASSUME NEW b \in Admins, admin'[b] # NoAdmin
        PROVE  CallSound(admin[b])'
    <2> DEFINE e == admin'[b]
    <2>1. admin'[b] = IF b = a THEN c ELSE admin[b]
      BY DEF ParameterInv
    <2>2. CASE b = a
      <3>1. CallSound(c)' /\ admin'[b] = c
        BY <1>2, <1>3, <2>1, <2>2
      <3> QED BY <3>1, Zenon DEF CallSound
    <2>3. CASE b # a
      <3>1. admin'[b] = admin[b] /\ admin[b] \in SettingRow \cup VerifyingRow
        BY <1>3, <2>1, <2>3 DEF ParameterInv
      <3> DEFINE f == admin[b]
      <3>2. CallSound(f) /\ f \in SettingRow \cup VerifyingRow
        BY <1>3, <3>1 DEF ParameterInv
      <3>3. PICK g : g = admin[b]
        OBVIOUS
      <3>4. CallSound(g)
        BY <3>2, <3>3, Zenon DEF CallSound
      <3>5. CallSound(g)'
        BY <1>2, <3>1, <3>3, <3>4
      <3> QED BY <3>1, <3>3, <3>5, Zenon DEF CallSound
    <2> QED BY <2>2, <2>3
  <1> QED BY <1>1, <1>3 DEF ParameterInv

LEMMA CallsBegin ==
  ASSUME ParameterInv, NEW a \in Admins, NEW c \in SettingRow \cup VerifyingRow,
         Calling(a, c), CallSound(c)
  PROVE  ParameterInv'
  <1>1. admin' = [admin EXCEPT ![a] = c] /\ UNCHANGED <<period, readAs, calls>>
    BY DEF Calling
  <1> QED BY <1>1, PeriodsStay DEF ParameterInv

\* A session that sets a value: what it carries, and that what it ends was open.
LEMMA SetsBegin ==
  ASSUME ParameterInv, NEW a \in Admins, SetBegin(a)
  PROVE  /\ ParameterInv'
         /\ (ClosesOpen => ClosesOpen')
         /\ UNCHANGED <<period, calls>>
  <1>1. PICK code \in ParameterCode, from \in Dates, to \in Dates \cup {Forever},
             value \in Limits, strict \in Strictness :
          /\ period[code][from] # NoPeriod \/ ~Overlaps(code, from)
          /\ Calling(a,
               [act |-> IF period[code][from] # NoPeriod THEN "corregido" ELSE "creado",
                code |-> code, from |-> from, to |-> to, value |-> value, strict |-> strict,
                closes |-> IF period[code][from] # NoPeriod THEN {} ELSE ToClose(code, from)])
    BY DEF SetBegin
  <1> DEFINE closes == IF period[code][from] # NoPeriod THEN {} ELSE ToClose(code, from)
             act == IF period[code][from] # NoPeriod THEN "corregido" ELSE "creado"
             c == [act |-> act, code |-> code, from |-> from, to |-> to, value |-> value,
                   strict |-> strict, closes |-> closes]
  <1>2. ASSUME NEW d \in closes
        PROVE  d \in Dates /\ d < from /\ period[code][d] # NoPeriod /\ period[code][d].to = Forever
    <2>1. period[code][from] = NoPeriod /\ d \in ToClose(code, from)
      BY <1>2
    <2>2. d \in Periods(code) /\ period[code][d].to = Forever
      BY <2>1 DEF ToClose
    <2>3. ~(d >= from)
      BY <1>1, <2>1, <2>2 DEF Overlaps
    <2> QED BY <2>2, <2>3, DaysAreNumbers DEF Periods
  <1>3. act \in {"creado", "corregido"} /\ (act = "corregido" => period[code][from] # NoPeriod)
    OBVIOUS
  <1> HIDE DEF act, closes
  <1>4. closes \in SUBSET Dates
    BY <1>2
  <1>5. /\ c \in SettingRow /\ c.act = act /\ c.code = code /\ c.from = from /\ c.closes = closes
    BY <1>3, <1>4 DEF SettingRow
  <1>6. Calling(a, c)
    BY <1>1 DEF act, closes
  <1> HIDE DEF c
  <1>7. CallSound(c)
    BY <1>2, <1>3, <1>5 DEF CallSound
  <1>8. ParameterInv'
    BY <1>5, <1>6, <1>7, CallsBegin
  <1>9. ClosesOpen => ClosesOpen'
    <2>1. admin' = [admin EXCEPT ![a] = c] /\ period' = period
      BY <1>6 DEF Calling
    <2>2. \A b \in Admins : admin'[b] = IF b = a THEN c ELSE admin[b]
      BY <2>1 DEF ParameterInv
    <2> QED BY <1>2, <1>5, <2>1, <2>2 DEF ClosesOpen
  <1>10. UNCHANGED <<period, calls>>
    BY <1>6 DEF Calling
  <1> QED BY <1>8, <1>9, <1>10

LEMMA VerifiesBegin ==
  ASSUME ParameterInv, NEW a \in Admins, VerifyBegin(a)
  PROVE  /\ ParameterInv'
         /\ (ClosesOpen => ClosesOpen')
         /\ UNCHANGED <<period, calls>>
  <1>1. PICK code \in ParameterCode : \E from \in Periods(code) :
          Calling(a, [act |-> "verificado", code |-> code, from |-> from])
    BY DEF VerifyBegin
  <1>2. PICK from \in Periods(code) :
          Calling(a, [act |-> "verificado", code |-> code, from |-> from])
    BY <1>1
  <1> DEFINE c == [act |-> "verificado", code |-> code, from |-> from]
  <1>3. from \in Dates /\ period[code][from] # NoPeriod
    BY DEF Periods
  <1>4. c \in VerifyingRow /\ c.act = "verificado" /\ CallSound(c)
    BY <1>3 DEF VerifyingRow, CallSound
  <1>5. Calling(a, c)
    BY <1>2
  <1> HIDE DEF c
  <1>6. ParameterInv'
    BY <1>4, <1>5, CallsBegin
  <1>7. ClosesOpen => ClosesOpen'
    <2>1. admin' = [admin EXCEPT ![a] = c] /\ period' = period
      BY <1>5 DEF Calling
    <2>2. \A b \in Admins : admin'[b] = IF b = a THEN c ELSE admin[b]
      BY <2>1 DEF ParameterInv
    <2> QED BY <1>4, <2>1, <2>2 DEF ClosesOpen
  <1> QED BY <1>5, <1>6, <1>7 DEF Calling

\* The period set, the open ones it ends, and every other as it was.
LEMMA PeriodsSet ==
  ASSUME ParameterInv, NEW a \in Admins, SetCommit(a)
  PROVE  /\ period' \in [ParameterCode -> [Dates -> PeriodRow \cup {NoPeriod}]]
         /\ \A code \in ParameterCode, d \in Dates :
              /\ d # admin[a].from \/ code # admin[a].code =>
                   period'[code][d] = IF code = admin[a].code /\ d \in admin[a].closes
                                      THEN [period[code][d] EXCEPT !.to = admin[a].from - 1]
                                      ELSE period[code][d]
              /\ period[code][d] # NoPeriod => period'[code][d] # NoPeriod
  <1> DEFINE call == admin[a]
             old == period[call.code]
             row == [value |-> call.value, to |-> call.to, strict |-> call.strict,
                     verified |-> IF call.act = "creado" THEN FALSE ELSE old[call.from].verified]
             new == [d \in Dates |-> IF d = call.from THEN row
                       ELSE IF d \in call.closes THEN [old[d] EXCEPT !.to = call.from - 1] ELSE old[d]]
  <1>1. call \in SettingRow /\ CallSound(call)
    BY SettingAt DEF ParameterInv
  <1>2. /\ call.code \in ParameterCode /\ call.from \in Dates /\ call.to \in Dates \cup {Forever}
        /\ call.value \in Limits /\ call.strict \in BOOLEAN /\ call.closes \in SUBSET Dates
        /\ call.act \in {"creado", "corregido"}
    BY <1>1, LimitsAreNumbers DEF SettingRow
  <1>3. old \in [Dates -> PeriodRow \cup {NoPeriod}]
    BY <1>2 DEF ParameterInv
  <1>4. period' = [period EXCEPT ![call.code] = new]
    BY DEF SetCommit
  <1>5. row \in PeriodRow
    <2> DEFINE verified == IF call.act = "creado" THEN FALSE ELSE old[call.from].verified
    <2>1. verified \in BOOLEAN
      <3>1. CASE call.act = "creado"
        BY <3>1
      <3>2. CASE call.act = "corregido"
        <4>1. old[call.from] \in PeriodRow
          BY <1>1, <1>2, <1>3, <3>2 DEF CallSound
        <4>2. old[call.from].verified \in BOOLEAN
          BY <4>1, PeriodTyped
        <4> QED BY <3>2, <4>2
      <3> QED BY <1>2, <3>1, <3>2
    <2> HIDE DEF verified
    <2>2. [value |-> call.value, to |-> call.to, strict |-> call.strict, verified |-> verified] \in PeriodRow
      BY <1>2, <2>1 DEF PeriodRow
    <2> QED BY <2>2 DEF verified
  <1>6. ASSUME NEW d \in call.closes
        PROVE  d \in Dates /\ d < call.from /\ [old[d] EXCEPT !.to = call.from - 1] \in PeriodRow
    <2>1. d \in Dates /\ d < call.from /\ old[d] # NoPeriod
      BY <1>1, <1>2 DEF CallSound
    <2>2. old[d] \in PeriodRow
      BY <1>3, <2>1
    <2>3. call.from - 1 \in Dates
      BY <1>2, <2>1, DaysAreNumbers DEF Dates
    <2> HIDE DEF old
    <2> QED BY <2>1, <2>2, <2>3 DEF PeriodRow
  <1> HIDE DEF row
  <1>7. new \in [Dates -> PeriodRow \cup {NoPeriod}]
    <2> HIDE DEF old, call
    <2> QED BY <1>3, <1>5, <1>6
  <1>8. \A d \in Dates : old[d] # NoPeriod => new[d] # NoPeriod
    <2> HIDE DEF old, call
    <2> QED BY <1>3, <1>5, <1>6, NoPeriodIsNoRow
  <1>9. \A d \in Dates : d # call.from =>
          new[d] = IF d \in call.closes THEN [old[d] EXCEPT !.to = call.from - 1] ELSE old[d]
    OBVIOUS
  <1> HIDE DEF new
  <1>10. \A code \in ParameterCode :
           period'[code] = IF code = call.code THEN new ELSE period[code]
    BY <1>2, <1>4 DEF ParameterInv
  <1>11. period' \in [ParameterCode -> [Dates -> PeriodRow \cup {NoPeriod}]]
    BY <1>4, <1>7 DEF ParameterInv
  <1> QED BY <1>8, <1>9, <1>10, <1>11

LEMMA SetsCommit ==
  ASSUME ParameterInv, NEW a \in Admins, SetCommit(a)
  PROVE  ParameterInv'
  <1>1. readAs' = readAs /\ calls' = calls + 1 /\ admin' = [admin EXCEPT ![a] = NoAdmin]
    BY DEF SetCommit, Committed
  <1>2. calls' \in Nat /\ readAs' \in [ParameterCode -> [Dates -> SUBSET Limits]]
    BY <1>1 DEF ParameterInv
  <1> QED BY <1>1, <1>2, PeriodsSet, PeriodsStay

\* The period verified, and every other as it was.
LEMMA PeriodVerified ==
  ASSUME ParameterInv, NEW a \in Admins, VerifyCommit(a)
  PROVE  /\ period' \in [ParameterCode -> [Dates -> PeriodRow \cup {NoPeriod}]]
         /\ \A code \in ParameterCode, d \in Dates :
              /\ d # admin[a].from \/ code # admin[a].code => period'[code][d] = period[code][d]
              /\ period[code][d] # NoPeriod => period'[code][d] # NoPeriod
  <1> DEFINE call == admin[a]
             row == [period[call.code][call.from] EXCEPT !.verified = TRUE]
  <1>1. call \in VerifyingRow /\ CallSound(call)
    BY VerifyingAt DEF ParameterInv
  <1>2. call.code \in ParameterCode /\ call.from \in Dates /\ call.act = "verificado"
    BY <1>1 DEF VerifyingRow
  <1>3. period[call.code][call.from] \in PeriodRow
    BY <1>1, <1>2 DEF CallSound, ParameterInv
  <1>4. row \in PeriodRow
    BY <1>3 DEF PeriodRow
  <1>5. period' = [period EXCEPT ![call.code][call.from] = row]
    BY DEF VerifyCommit
  <1> HIDE DEF row
  <1> QED BY <1>2, <1>4, <1>5, NoPeriodIsNoRow DEF ParameterInv

LEMMA VerifiesCommit ==
  ASSUME ParameterInv, NEW a \in Admins, VerifyCommit(a)
  PROVE  ParameterInv'
  <1> DEFINE call == admin[a]
             value == period[call.code][call.from].value
  <1>1. call \in VerifyingRow /\ CallSound(call)
    BY VerifyingAt DEF ParameterInv
  <1>2. call.code \in ParameterCode /\ call.from \in Dates /\ call.act = "verificado"
    BY <1>1 DEF VerifyingRow
  <1>3. value \in Limits
    <2>1. period[call.code][call.from] \in PeriodRow
      BY <1>1, <1>2 DEF CallSound, ParameterInv
    <2> QED BY <2>1, PeriodTyped
  <1>4. /\ readAs' = [readAs EXCEPT ![call.code][call.from] = @ \cup {value}]
        /\ calls' = calls + 1 /\ admin' = [admin EXCEPT ![a] = NoAdmin]
    BY DEF VerifyCommit, Committed
  <1>5. readAs' \in [ParameterCode -> [Dates -> SUBSET Limits]]
    <2> HIDE DEF value
    <2> QED BY <1>2, <1>3, <1>4 DEF ParameterInv
  <1>6. calls' \in Nat
    BY <1>4 DEF ParameterInv
  <1> QED BY <1>4, <1>5, <1>6, PeriodVerified, PeriodsStay

LEMMA AdminsEnd ==
  ASSUME ParameterInv, NEW a \in Admins, AdminEnds(a)
  PROVE  ParameterInv' /\ (ClosesOpen => ClosesOpen') /\ UNCHANGED <<period, calls>>
  <1>1. admin' = [admin EXCEPT ![a] = NoAdmin] /\ UNCHANGED <<period, readAs, calls>>
    BY DEF AdminEnds
  <1>2. ParameterInv'
    BY <1>1, PeriodsStay DEF ParameterInv
  <1> QED BY <1>1, <1>2 DEF ClosesOpen, ParameterInv

LEMMA ParameterStays ==
  ASSUME ParameterInv, UNCHANGED rvars
  PROVE  ParameterInv' /\ (ClosesOpen => ClosesOpen') /\ UNCHANGED calls
  <1>1. UNCHANGED <<period, readAs, admin, calls>>
    BY DEF rvars
  <1> QED BY <1>1 DEF ParameterInv, ClosesOpen, CallSound

\* The periods keep their shape, and an open call corrects and ends periods that are there.
THEOREM ParametersAlways == ParameterSpec => []ParameterInv
  <1>1. ParameterInit => ParameterInv
    BY DEF ParameterInit, ParameterInv
  <1>2. ParameterInv /\ [ParameterNext]_rvars => ParameterInv'
    BY SetsBegin, VerifiesBegin, SetsCommit, VerifiesCommit, AdminsEnd, ParameterStays
       DEF ParameterNext
  <1> QED BY <1>1, <1>2, PTL DEF ParameterSpec

-----------------------------------------------------------------------------
(* What was judged stays judged *)

\* What a rule makes of the one period in force.
Verdict(row) ==
  IF row.strict /\ ~row.verified THEN [outcome |-> "no_determinable"]
  ELSE [outcome |-> IF Measured <= row.value THEN "cumple" ELSE "incumple",
        verified |-> row.verified]

\* A call that leaves alone which periods cover a day, and what those say, leaves
\* alone what a rule makes of it.
LEMMA JudgedBySame ==
  ASSUME ParameterInv, NEW day \in Dates,
         \A c \in ParameterCode : Covering(c, day)' = Covering(c, day),
         \A c \in ParameterCode : \A d \in Covering(c, day) :
           /\ period'[c][d].value = period[c][d].value
           /\ period'[c][d].strict = period[c][d].strict
           /\ period'[c][d].verified = period[c][d].verified
  PROVE  Judged(day)' = Judged(day)
  <1> DEFINE code == IF Covering("keyed", day) # {} THEN "keyed" ELSE "base"
             these == Covering(code, day)
  <1>1. code \in ParameterCode
    BY DEF ParameterCode
  <1>2. Covering("keyed", day)' = Covering("keyed", day) /\ Covering(code, day)' = these
    BY <1>1 DEF ParameterCode
  <1>3. CASE these = {}
    BY <1>2, <1>3 DEF Judged
  <1>4. CASE Cardinality(these) > 1 /\ these # {}
    BY <1>2, <1>4 DEF Judged
  <1>5. CASE ~(Cardinality(these) > 1) /\ these # {}
    <2>1. these \subseteq 1 .. LastDay
      BY DEF Covering, Periods, Dates
    <2>2. IsFiniteSet(these)
      <3>1. IsFiniteSet(1 .. LastDay)
        BY LimitsAreNumbers, FS_Interval
      <3> QED BY <2>1, <3>1, FS_Subset
    <2>3. Cardinality(these) = 1
      BY <1>5, <2>2, FS_CardinalityType, FS_EmptySet
    <2>4. PICK x : these = {x}
      BY <2>2, <2>3, FS_Singleton
    <2>5. Judged(day) = Verdict(period[code][x])
      <3>1. {period[code][d] : d \in these} = {period[code][x]}
        BY <2>4
      <3>2. (CHOOSE r \in {period[code][x]} : TRUE) = period[code][x]
        OBVIOUS
      <3> QED BY <1>5, <3>1, <3>2 DEF Judged, Verdict
    <2>6. Judged(day)' = Verdict(period'[code][x])
      <3>1. {period'[code][d] : d \in these} = {period'[code][x]}
        BY <2>4
      <3>2. (CHOOSE r \in {period'[code][x]} : TRUE) = period'[code][x]
        OBVIOUS
      <3>3. Covering("keyed", day)' = Covering("keyed", day) /\ Covering("base", day)' = Covering("base", day)
        BY DEF ParameterCode
      <3> DEFINE Picked == IF Covering("keyed", day) # {} THEN "keyed" ELSE "base"
                 Rows == {period[Picked][d] : d \in Covering(Picked, day)}
      <3>4. Picked' = code
        BY <3>3
      <3>5. Covering(Picked, day)' = these
        <4>1. CASE Covering("keyed", day) # {}
          BY <3>3, <4>1
        <4>2. CASE Covering("keyed", day) = {}
          BY <3>3, <4>2
        <4> QED BY <4>1, <4>2
      <3>6. Rows' = {period'[code][x]}
        <4> HIDE DEF these, code, Picked
        <4> QED BY <3>1, <3>4, <3>5
      <3>7. (CHOOSE r \in Rows' : TRUE) = period'[code][x]
        <4> HIDE DEF Rows, code
        <4> QED BY <3>2, <3>6, Zenon
      <3>8. /\ Covering(Picked, day)' # {}
            /\ ~(Cardinality(Covering(Picked, day)') > 1)
        <4> HIDE DEF these, Picked
        <4> QED BY <1>5, <3>5
      <3>9. Judged(day)' = (IF Covering(Picked, day)' = {} THEN [outcome |-> "no_determinable"]
                            ELSE IF Cardinality(Covering(Picked, day)') > 1 THEN [outcome |-> "error"]
                            ELSE Verdict(CHOOSE r \in Rows' : TRUE))
        BY Zenon DEF Judged, Verdict
      <3> HIDE DEF Rows, Picked, code, these
      <3> QED BY <3>7, <3>8, <3>9, Zenon
    <2>7. Verdict(period'[code][x]) = Verdict(period[code][x])
      BY <1>1, <2>4 DEF Verdict
    <2> QED BY <2>5, <2>6, <2>7
  <1> QED BY <1>3, <1>4, <1>5

\* The days before the period a call sets are covered as they were.
LEMMA EarlierCovered ==
  ASSUME ParameterInv, NEW day \in Dates, NEW from \in Dates, day < from,
         NEW code \in ParameterCode, NEW closes \in SUBSET Dates,
         period' \in [ParameterCode -> [Dates -> PeriodRow \cup {NoPeriod}]],
         \A c \in ParameterCode, d \in Dates : d # from \/ c # code =>
           period'[c][d] = IF c = code /\ d \in closes
                           THEN [period[c][d] EXCEPT !.to = from - 1] ELSE period[c][d],
         \A d \in closes : period[code][d] # NoPeriod /\ period[code][d].to = Forever
  PROVE  Judged(day)' = Judged(day)
  <1>1. ASSUME NEW c \in ParameterCode, NEW d \in Dates, d <= day
        PROVE  /\ period[c][d] # NoPeriod <=> period'[c][d] # NoPeriod
               /\ period[c][d] # NoPeriod =>
                    /\ day <= period'[c][d].to <=> day <= period[c][d].to
                    /\ period'[c][d].value = period[c][d].value
                    /\ period'[c][d].strict = period[c][d].strict
                    /\ period'[c][d].verified = period[c][d].verified
    <2>1. d # from
      BY <1>1, DaysAreNumbers
    <2>2. CASE c = code /\ d \in closes
      <3>1. period[c][d] \in PeriodRow /\ period[c][d].to = Forever
        BY <2>2 DEF ParameterInv
      <3>2. period'[c][d] = [period[c][d] EXCEPT !.to = from - 1]
        BY <2>1, <2>2
      <3>3. /\ period'[c][d].to = from - 1
            /\ period'[c][d].value = period[c][d].value
            /\ period'[c][d].strict = period[c][d].strict
            /\ period'[c][d].verified = period[c][d].verified
        BY <3>1, <3>2 DEF PeriodRow
      <3>4. day <= from - 1 /\ day <= Forever
        BY DaysAreNumbers
      <3>5. period'[c][d] # NoPeriod
        <4>1. from - 1 \in Dates
          BY <1>1, DaysAreNumbers DEF Dates
        <4>2. period'[c][d] \in PeriodRow
          BY <3>1, <3>2, <4>1 DEF PeriodRow
        <4> QED BY <4>2, PeriodTyped
      <3> QED BY <2>2, <3>1, <3>3, <3>4, <3>5
    <2>3. CASE ~(c = code /\ d \in closes)
      <3>1. period'[c][d] = period[c][d]
        BY <2>1, <2>3
      <3> QED BY <3>1
    <2> QED BY <2>2, <2>3
  <1>2. ASSUME NEW c \in ParameterCode
        PROVE  Covering(c, day)' = Covering(c, day)
    BY <1>1 DEF Covering, Periods, in_force_on
  <1>3. ASSUME NEW c \in ParameterCode, NEW d \in Covering(c, day)
        PROVE  /\ period'[c][d].value = period[c][d].value
               /\ period'[c][d].strict = period[c][d].strict
               /\ period'[c][d].verified = period[c][d].verified
    BY <1>1 DEF Covering, Periods, in_force_on
  <1> QED BY <1>2, <1>3, JudgedBySame

LEMMA CallKeepsPast ==
  ASSUME ParameterInv, ClosesOpen, NEW a \in Admins, SetCommit(a) \/ VerifyCommit(a)
  PROVE  \A day \in Dates : day < touched'[2] => Judged(day)' = Judged(day)
  <1> SUFFICES ASSUME NEW day \in Dates, day < touched'[2] PROVE Judged(day)' = Judged(day)
    OBVIOUS
  <1>1. day < admin[a].from
    BY DEF SetCommit, VerifyCommit, Committed
  <1>2. CASE SetCommit(a)
    <2>1. admin[a] \in SettingRow /\ admin[a] # NoAdmin /\ CallSound(admin[a])
      BY <1>2, SettingAt DEF ParameterInv
    <2>2. /\ admin[a].code \in ParameterCode /\ admin[a].from \in Dates
          /\ admin[a].closes \in SUBSET Dates /\ admin[a].act \in {"creado", "corregido"}
      BY <2>1 DEF SettingRow
    <2>3. \A d \in admin[a].closes :
            period[admin[a].code][d] # NoPeriod /\ period[admin[a].code][d].to = Forever
      BY <2>1, <2>2 DEF CallSound, ClosesOpen
    <2>4. PICK code, from, closes :
            code = admin[a].code /\ from = admin[a].from /\ closes = admin[a].closes
      OBVIOUS
    <2>5. \A c \in ParameterCode, d \in Dates : d # from \/ c # code =>
            period'[c][d] = IF c = code /\ d \in closes
                            THEN [period[c][d] EXCEPT !.to = from - 1] ELSE period[c][d]
      BY <1>2, <2>4, PeriodsSet
    <2>6. period' \in [ParameterCode -> [Dates -> PeriodRow \cup {NoPeriod}]]
      BY <1>2, PeriodsSet
    <2>7. /\ code \in ParameterCode /\ from \in Dates /\ closes \in SUBSET Dates /\ day < from
          /\ \A d \in closes : period[code][d] # NoPeriod /\ period[code][d].to = Forever
      BY <1>1, <2>2, <2>3, <2>4
    <2> QED BY <2>5, <2>6, <2>7, EarlierCovered, Zenon
  <1>3. CASE VerifyCommit(a)
    <2>1. admin[a].code \in ParameterCode /\ admin[a].from \in Dates
      BY <1>3, VerifyingAt DEF VerifyingRow
    <2>2. PICK code, from, closes :
            code = admin[a].code /\ from = admin[a].from /\ closes = {}
      OBVIOUS
    <2>3. closes \in SUBSET Dates
      BY <2>2
    <2>4. \A c \in ParameterCode, d \in Dates : d # from \/ c # code =>
            period'[c][d] = IF c = code /\ d \in closes
                            THEN [period[c][d] EXCEPT !.to = from - 1] ELSE period[c][d]
      BY <1>3, <2>2, PeriodVerified
    <2>5. period' \in [ParameterCode -> [Dates -> PeriodRow \cup {NoPeriod}]]
      BY <1>3, PeriodVerified
    <2>6. /\ code \in ParameterCode /\ from \in Dates /\ day < from
          /\ \A d \in closes : period[code][d] # NoPeriod /\ period[code][d].to = Forever
      BY <1>1, <2>1, <2>2
    <2> QED BY <2>3, <2>4, <2>5, <2>6, EarlierCovered, Zenon
  <1> QED BY <1>2, <1>3

\* RF-104: what a rule said of a day that is past is what it says of it now.
THEOREM PastAlwaysStands == OneAdmin /\ ParameterSpec => PastStands
  <1> SUFFICES ASSUME OneAdmin PROVE ParameterSpec => PastStands
    OBVIOUS
  <1>1. ParameterInit => ParameterInv /\ ClosesOpen
    BY DEF ParameterInit, ParameterInv, ClosesOpen
  <1>2. ParameterInv /\ ClosesOpen /\ [ParameterNext]_rvars =>
          /\ ParameterInv' /\ ClosesOpen'
          /\ [\A day \in Dates : calls' # calls /\ day < touched'[2] => Judged(day)' = Judged(day)]_rvars
    <2> SUFFICES ASSUME ParameterInv, ClosesOpen, [ParameterNext]_rvars
                 PROVE  /\ ParameterInv' /\ ClosesOpen'
                        /\ \A day \in Dates : calls' # calls /\ day < touched'[2] =>
                             Judged(day)' = Judged(day)
      OBVIOUS
    <2>1. CASE UNCHANGED rvars
      BY <2>1, ParameterStays
    <2>2. ASSUME NEW a \in Admins, SetBegin(a) \/ VerifyBegin(a) \/ AdminEnds(a)
          PROVE  ParameterInv' /\ ClosesOpen' /\ UNCHANGED calls
      BY <2>2, SetsBegin, VerifiesBegin, AdminsEnd
    <2>3. ASSUME NEW a \in Admins, SetCommit(a) \/ VerifyCommit(a)
          PROVE  ParameterInv' /\ ClosesOpen'
                 /\ \A day \in Dates : day < touched'[2] => Judged(day)' = Judged(day)
      <3>1. ParameterInv'
        BY <2>3, SetsCommit, VerifiesCommit
      <3>2. ClosesOpen'
        <4>1. \A b \in Admins : admin'[b] = NoAdmin
          BY <2>3 DEF SetCommit, VerifyCommit, Committed, OneAdmin, ParameterInv
        <4> QED BY <4>1 DEF ClosesOpen
      <3> QED BY <2>3, <3>1, <3>2, CallKeepsPast
    <2> QED BY <2>1, <2>2, <2>3 DEF ParameterNext
  <1> QED BY <1>1, <1>2, PTL DEF ParameterSpec, PastStands

-----------------------------------------------------------------------------
(****************************************************************************)
(* DISPATCH: what the board says of a phone                                 *)
(****************************************************************************)

JobRow ==
  [state: {"planned", "assigned", "in_execution", "closed_field"}, crew: Squads \cup {NoHolder},
   sub: Technicians \cup {NoHolder}, version: 1 .. MaxJobVersion]
TabletRow ==
  [status: {"unknown", "active", "blocked"}, sub: Technicians \cup {NoHolder},
   crew: Squads \cup {NoHolder}, synced: BOOLEAN, refused: 0 .. MaxRefused, wiped: BOOLEAN]

DispatchTyped ==
  /\ job \in [Jobs -> JobRow]
  /\ tablet \in [Tablets -> TabletRow]
  /\ handed \in [Tablets -> [Jobs -> 0 .. MaxJobVersion]]
  /\ copies \in [Tablets -> [Jobs -> 0 .. MaxJobVersion]]
  /\ news \in [Tablets -> SUBSET Jobs]
  /\ lost \in [Tablets -> SUBSET Jobs]
  /\ mishaps \in 0 .. MaxMishaps

\* A phone has no more than it was handed, and that nothing that is not yet; what it
\* was handed as it is now it has, or lost; what it has news of changed, or is lost.
PhoneSound(p) ==
  \A j \in Jobs :
    /\ copies[p][j] <= handed[p][j] /\ handed[p][j] <= job[j].version
    /\ handed[p][j] = job[j].version => j \in lost[p] \/ copies[p][j] = job[j].version
    /\ j \in news[p] => handed[p][j] < job[j].version \/ j \in lost[p]
    /\ handed[p][j] # 0 => Enrolled(p)

DispatchInv == DispatchTyped /\ \A p \in Tablets : PhoneSound(p)

-----------------------------------------------------------------------------
(* Orders change *)

LEMMA JobChangesKeeps ==
  ASSUME DispatchInv, NEW j \in Jobs, NEW row,
         row \in [state: {"planned", "assigned", "in_execution", "closed_field"},
                  crew: Squads \cup {NoHolder}, sub: Technicians \cup {NoHolder},
                  version: 1 .. MaxJobVersion],
         JobChanges(j, row)
  PROVE  DispatchInv'
  <1> DEFINE new == [row EXCEPT !.version = job[j].version + 1]
  <1>1. job[j].version \in 1 .. MaxJobVersion
    BY DEF DispatchInv, DispatchTyped, JobRow
  <1>2. job[j].version + 1 \in 1 .. MaxJobVersion
    BY <1>1, DispatchBounds DEF JobChanges
  <1>3. new \in JobRow /\ new.version = job[j].version + 1
    BY <1>2 DEF JobRow
  <1>4. /\ job' = [job EXCEPT ![j] = new]
        /\ news' = [p \in Tablets |-> news[p] \cup {j}]
        /\ UNCHANGED <<tablet, handed, copies, lost, mishaps>>
    BY DEF JobChanges
  <1> HIDE DEF new
  <1>5. DispatchTyped'
    BY <1>3, <1>4 DEF DispatchInv, DispatchTyped
  <1>6. \A k \in Jobs : job'[k].version = IF k = j THEN job[j].version + 1 ELSE job[k].version
    BY <1>3, <1>4 DEF DispatchInv, DispatchTyped
  <1>7. ASSUME NEW p \in Tablets
        PROVE  PhoneSound(p)'
    <2>1. PhoneSound(p)
      BY DEF DispatchInv
    <2>2. /\ handed'[p] = handed[p] /\ copies'[p] = copies[p] /\ lost'[p] = lost[p]
          /\ news'[p] = news[p] \cup {j} /\ tablet'[p] = tablet[p]
      BY <1>4
    <2>3. ASSUME NEW k \in Jobs
          PROVE  /\ copies'[p][k] <= handed'[p][k] /\ handed'[p][k] <= job'[k].version
                 /\ handed'[p][k] = job'[k].version =>
                      k \in lost'[p] \/ copies'[p][k] = job'[k].version
                 /\ k \in news'[p] => handed'[p][k] < job'[k].version \/ k \in lost'[p]
                 /\ handed'[p][k] # 0 => Enrolled(p)'
      <3>1. handed[p][k] \in Nat /\ job[k].version \in Nat
        BY DEF DispatchInv, DispatchTyped, JobRow
      <3>2. /\ copies[p][k] <= handed[p][k] /\ handed[p][k] <= job[k].version
            /\ handed[p][k] = job[k].version => k \in lost[p] \/ copies[p][k] = job[k].version
            /\ k \in news[p] => handed[p][k] < job[k].version \/ k \in lost[p]
            /\ handed[p][k] # 0 => Enrolled(p)
        BY <2>1 DEF PhoneSound
      <3>3. Enrolled(p)' <=> Enrolled(p)
        BY <2>2 DEF Enrolled
      <3> QED BY <1>6, <2>2, <3>1, <3>2, <3>3
    <2> QED BY <2>3 DEF PhoneSound
  <1> QED BY <1>5, <1>7 DEF DispatchInv

LEMMA OfficeMoves ==
  ASSUME DispatchInv, NEW j \in Jobs,
         \/ \E c \in Squads, t \in Technicians \cup {NoHolder} : AssignJob(j, c, t)
         \/ JobMoves(j)
  PROVE  DispatchInv'
  <1>1. job[j] \in JobRow
    BY DEF DispatchInv, DispatchTyped
  <1>2. ASSUME NEW c \in Squads, NEW t \in Technicians \cup {NoHolder}, AssignJob(j, c, t)
        PROVE  DispatchInv'
    <2> DEFINE row == [job[j] EXCEPT !.state = "assigned", !.crew = c, !.sub = t]
    <2>1. row \in JobRow
      BY <1>1 DEF JobRow
    <2>2. JobChanges(j, row)
      BY <1>2 DEF AssignJob
    <2> HIDE DEF row
    <2> QED BY <2>1, <2>2, JobChangesKeeps DEF JobRow
  <1>3. CASE JobMoves(j)
    <2>1. PICK s \in {"in_execution", "closed_field"} : JobChanges(j, [job[j] EXCEPT !.state = s])
      BY <1>3 DEF JobMoves
    <2> DEFINE row == [job[j] EXCEPT !.state = s]
    <2>2. row \in JobRow
      BY <1>1 DEF JobRow
    <2>3. JobChanges(j, row)
      BY <2>1
    <2> HIDE DEF row
    <2> QED BY <2>2, <2>3, JobChangesKeeps DEF JobRow
  <1> QED BY <1>2, <1>3

-----------------------------------------------------------------------------
(* One phone moves *)

\* What a step of one phone must do for the phones to stay sound.
LEMMA OnePhoneMoves ==
  ASSUME DispatchInv, DispatchTyped', NEW p \in Tablets, PhoneSound(p)',
         UNCHANGED job,
         \A q \in Tablets \ {p} :
           /\ tablet'[q] = tablet[q] /\ handed'[q] = handed[q] /\ copies'[q] = copies[q]
           /\ news'[q] = news[q] /\ lost'[q] = lost[q]
  PROVE  DispatchInv'
  <1>1. ASSUME NEW q \in Tablets \ {p}
        PROVE  PhoneSound(q)'
    <2>1. PhoneSound(q)
      BY DEF DispatchInv
    <2>2. /\ tablet'[q] = tablet[q] /\ handed'[q] = handed[q] /\ copies'[q] = copies[q]
          /\ news'[q] = news[q] /\ lost'[q] = lost[q] /\ job' = job
      OBVIOUS
    <2> QED BY <2>1, <2>2, Zenon DEF PhoneSound, Enrolled
  <1> QED BY <1>1 DEF DispatchInv

\* The row of a device changes, and what the phone carries does not.
LEMMA RowChanges ==
  ASSUME DispatchInv, NEW p \in Tablets, NEW row \in TabletRow,
         tablet' = [tablet EXCEPT ![p] = row],
         UNCHANGED <<job, handed, copies, news, lost>>, mishaps' \in 0 .. MaxMishaps,
         row.status # "unknown"
  PROVE  DispatchInv'
  <1>1. DispatchTyped'
    BY DEF DispatchInv, DispatchTyped
  <1>2. tablet'[p] = row /\ \A q \in Tablets \ {p} : tablet'[q] = tablet[q]
    BY DEF DispatchInv, DispatchTyped
  <1>3. PhoneSound(p)'
    <2>1. PhoneSound(p) /\ UNCHANGED <<job, handed, copies, news, lost>>
      BY DEF DispatchInv
    <2>2. Enrolled(p)'
      BY <1>2 DEF Enrolled
    <2> QED BY <2>1, <2>2 DEF PhoneSound
  <1> QED BY <1>1, <1>2, <1>3, OnePhoneMoves

LEMMA RowsChange ==
  ASSUME DispatchInv, NEW p \in Tablets,
         \/ \E t \in Technicians : enrol_device(p, t)
         \/ \E c \in Squads \cup {NoHolder} : set_device_crew(p, c)
         \/ block_device(p) \/ acknowledge_wipe(p)
         \/ \E yes \in BOOLEAN : PushOperation(p, yes)
  PROVE  DispatchInv'
  <1>1. /\ tablet[p] \in TabletRow /\ tablet \in [Tablets -> TabletRow]
        /\ mishaps \in 0 .. MaxMishaps
    BY DEF DispatchInv, DispatchTyped
  <1>2. ASSUME NEW t \in Technicians, enrol_device(p, t)
        PROVE  DispatchInv'
    <2> DEFINE status == IF Enrolled(p) THEN tablet[p].status ELSE "active"
               row == [tablet[p] EXCEPT !.sub = t, !.status = status]
    <2>1. status \in {"active", "blocked"}
      BY <1>1 DEF Enrolled, TabletRow
    <2>2. tablet' = [tablet EXCEPT ![p] = row]
      BY <1>1, <1>2 DEF enrol_device, TabletRow
    <2>3. UNCHANGED <<job, handed, copies, news, lost>> /\ mishaps' \in 0 .. MaxMishaps
      <3>1. mishaps < MaxMishaps /\ mishaps' = mishaps + 1
        BY <1>2 DEF enrol_device, Mishap
      <3>2. mishaps' \in 0 .. MaxMishaps
        BY <1>1, <3>1, DispatchBounds
      <3> QED BY <1>2, <3>2 DEF enrol_device
    <2> HIDE DEF status
    <2>4. row \in TabletRow /\ row.status = status
      BY <1>1, <2>1 DEF TabletRow
    <2> HIDE DEF row
    <2> QED BY <2>1, <2>2, <2>3, <2>4, RowChanges
  <1>3. ASSUME NEW c \in Squads \cup {NoHolder}, set_device_crew(p, c)
        PROVE  DispatchInv'
    <2> DEFINE row == [tablet[p] EXCEPT !.crew = c]
    <2>1. tablet' = [tablet EXCEPT ![p] = row] /\ tablet[p].status # "unknown"
      BY <1>3 DEF set_device_crew, Enrolled
    <2>2. UNCHANGED <<job, handed, copies, news, lost>> /\ mishaps' \in 0 .. MaxMishaps
      BY <1>1, <1>3, DispatchBounds DEF set_device_crew, Mishap
    <2>3. row \in TabletRow /\ row.status = tablet[p].status
      BY <1>1 DEF TabletRow
    <2> HIDE DEF row
    <2> QED BY <2>1, <2>2, <2>3, RowChanges
  <1>4. CASE block_device(p)
    <2> DEFINE row == [tablet[p] EXCEPT !.status = "blocked"]
    <2>1. tablet' = [tablet EXCEPT ![p] = row] /\ tablet[p].status = "active"
      BY <1>4 DEF block_device
    <2>2. UNCHANGED <<job, handed, copies, news, lost>> /\ mishaps' \in 0 .. MaxMishaps
      BY <1>1, <1>4 DEF block_device
    <2>3. row \in TabletRow /\ row.status = "blocked"
      BY <1>1 DEF TabletRow
    <2> HIDE DEF row
    <2> QED BY <2>1, <2>2, <2>3, RowChanges
  <1>5. ASSUME NEW yes \in BOOLEAN, PushOperation(p, yes)
        PROVE  DispatchInv'
    <2> DEFINE refused == IF yes THEN tablet[p].refused ELSE tablet[p].refused + 1
               row == [tablet[p] EXCEPT !.synced = TRUE, !.refused = refused]
    <2>1. tablet[p].status = "active"
      BY <1>5 DEF PushOperation, resolve_device
    <2>2. refused \in 0 .. MaxRefused
      <3>1. tablet[p].refused \in 0 .. MaxRefused
        BY <1>1 DEF TabletRow
      <3>2. CASE yes
        BY <3>1, <3>2
      <3>3. CASE ~yes
        BY <1>5, <3>1, <3>3, DispatchBounds DEF PushOperation
      <3> QED BY <3>2, <3>3
    <2>3. tablet' = [tablet EXCEPT ![p] = row]
      <3>1. CASE yes
        BY <1>1, <1>5, <3>1 DEF PushOperation, TabletRow
      <3>2. CASE ~yes
        BY <1>1, <1>5, <3>2 DEF PushOperation, TabletRow
      <3> QED BY <3>1, <3>2
    <2>4. UNCHANGED <<job, handed, copies, news, lost>> /\ mishaps' \in 0 .. MaxMishaps
      BY <1>1, <1>5 DEF PushOperation
    <2> HIDE DEF refused
    <2>5. row \in TabletRow /\ row.status = tablet[p].status
      BY <1>1, <2>2 DEF TabletRow
    <2> HIDE DEF row
    <2> QED BY <2>1, <2>3, <2>4, <2>5, RowChanges
  <1>6. CASE acknowledge_wipe(p)
    <2> DEFINE row == [tablet[p] EXCEPT !.wiped = TRUE]
    <2>1. tablet' = [tablet EXCEPT ![p] = row] /\ tablet[p].status # "unknown"
      BY <1>6 DEF acknowledge_wipe, Enrolled
    <2>2. UNCHANGED <<job, handed, copies, news, lost>> /\ mishaps' \in 0 .. MaxMishaps
      BY <1>1, <1>6 DEF acknowledge_wipe
    <2>3. row \in TabletRow /\ row.status = tablet[p].status
      BY <1>1 DEF TabletRow
    <2> HIDE DEF row
    <2> QED BY <2>1, <2>2, <2>3, RowChanges
  <1> QED BY <1>2, <1>3, <1>4, <1>5, <1>6

LEMMA PhoneReinstalls ==
  ASSUME DispatchInv, NEW p \in Tablets, Reinstall(p)
  PROVE  DispatchInv'
  <1> DEFINE none == [j \in Jobs |-> 0]
             had == {j \in Jobs : handed[p][j] # 0}
  <1>1. /\ copies' = [copies EXCEPT ![p] = none] /\ news' = [news EXCEPT ![p] = Jobs]
        /\ lost' = [lost EXCEPT ![p] = had] /\ UNCHANGED <<job, tablet, handed>>
    BY DEF Reinstall
  <1>2. none \in [Jobs -> 0 .. MaxJobVersion] /\ had \in SUBSET Jobs
    BY DispatchBounds
  <1>3. mishaps' \in 0 .. MaxMishaps
    BY DispatchBounds DEF Reinstall, Mishap, DispatchInv, DispatchTyped
  <1>4. DispatchTyped'
    <2> HIDE DEF none, had
    <2> QED BY <1>1, <1>2, <1>3 DEF DispatchInv, DispatchTyped
  <1>5. PhoneSound(p)'
    <2>1. PhoneSound(p) /\ UNCHANGED <<job, tablet, handed>>
      BY <1>1 DEF DispatchInv
    <2>2. copies'[p] = none /\ news'[p] = Jobs /\ lost'[p] = had
      BY <1>1 DEF DispatchInv, DispatchTyped
    <2>3. ASSUME NEW j \in Jobs
          PROVE  handed[p][j] \in Nat /\ job[j].version \in Nat \ {0} /\ none[j] = 0
      BY DEF DispatchInv, DispatchTyped, JobRow
    <2>4. \A j \in Jobs : j \in had <=> handed[p][j] # 0
      OBVIOUS
    <2>5. Enrolled(p)' <=> Enrolled(p)
      BY <2>1 DEF Enrolled
    <2> HIDE DEF none, had
    <2> QED BY <2>1, <2>2, <2>3, <2>4, <2>5 DEF PhoneSound
  <1>6. \A q \in Tablets \ {p} :
          copies'[q] = copies[q] /\ news'[q] = news[q] /\ lost'[q] = lost[q]
    BY <1>1 DEF DispatchInv, DispatchTyped
  <1> QED BY <1>1, <1>4, <1>5, <1>6, OnePhoneMoves

LEMMA PhoneWipes ==
  ASSUME DispatchInv, NEW p \in Tablets, ToldToWipe(p)
  PROVE  DispatchInv'
  <1> DEFINE none == [j \in Jobs |-> 0]
             had == {j \in Jobs : handed[p][j] # 0}
  <1>1. /\ copies' = [copies EXCEPT ![p] = none] /\ lost' = [lost EXCEPT ![p] = had]
        /\ UNCHANGED <<job, tablet, handed, news, mishaps>> /\ tablet[p].status = "blocked"
    BY DEF ToldToWipe
  <1>2. none \in [Jobs -> 0 .. MaxJobVersion] /\ had \in SUBSET Jobs
    BY DispatchBounds
  <1>3. DispatchTyped'
    <2> HIDE DEF none, had
    <2> QED BY <1>1, <1>2 DEF DispatchInv, DispatchTyped
  <1>4. PhoneSound(p)'
    <2>1. PhoneSound(p) /\ UNCHANGED <<job, tablet, handed, news>>
      BY <1>1 DEF DispatchInv
    <2>2. copies'[p] = none /\ lost'[p] = had
      BY <1>1 DEF DispatchInv, DispatchTyped
    <2>3. ASSUME NEW j \in Jobs
          PROVE  handed[p][j] \in Nat /\ job[j].version \in Nat \ {0} /\ none[j] = 0
      BY DEF DispatchInv, DispatchTyped, JobRow
    <2>4. \A j \in Jobs : j \in had <=> handed[p][j] # 0
      OBVIOUS
    <2>5. Enrolled(p)'
      BY <1>1 DEF Enrolled
    <2>6. \A j \in Jobs : handed[p][j] <= job[j].version
      BY <2>1 DEF PhoneSound
    <2> HIDE DEF none, had
    <2>7. ASSUME NEW j \in Jobs
          PROVE  /\ copies'[p][j] <= handed'[p][j] /\ handed'[p][j] <= job'[j].version
                 /\ handed'[p][j] = job'[j].version =>
                      j \in lost'[p] \/ copies'[p][j] = job'[j].version
                 /\ j \in news'[p] => handed'[p][j] < job'[j].version \/ j \in lost'[p]
                 /\ handed'[p][j] # 0 => Enrolled(p)'
      BY <2>1, <2>2, <2>3, <2>4, <2>5, <2>6
    <2> QED BY <2>7 DEF PhoneSound
  <1>5. \A q \in Tablets \ {p} :
          copies'[q] = copies[q] /\ lost'[q] = lost[q]
    BY <1>1 DEF DispatchInv, DispatchTyped
  <1> QED BY <1>1, <1>3, <1>4, <1>5, OnePhoneMoves

LEMMA PhonePulls ==
  ASSUME DispatchInv, NEW p \in Tablets, NEW arrives \in BOOLEAN, PullPage(p, arrives)
  PROVE  DispatchInv'
  <1> DEFINE page == pull_work_orders(p).orders
             withdrawn == pull_work_orders(p).withdrawn
             gave == [j \in Jobs |-> IF j \in page THEN job[j].version ELSE handed[p][j]]
             took == [j \in Jobs |-> IF j \in page THEN job[j].version
                                     ELSE IF j \in withdrawn THEN 0 ELSE copies[p][j]]
             holds == IF arrives THEN took ELSE copies[p]
             left == IF arrives THEN {} ELSE news[p]
             gone == IF arrives THEN lost[p] \ page ELSE lost[p] \cup page
  <1>1. page \subseteq news[p] /\ withdrawn \subseteq news[p] /\ news[p] \subseteq Jobs
    BY DEF pull_work_orders, DispatchInv, DispatchTyped
  <1>2. UNCHANGED <<job, tablet, mishaps>> /\ tablet[p].status = "active"
    BY DEF PullPage, resolve_device
  <1>3. handed' = [handed EXCEPT ![p] = gave]
    BY DEF PullPage, record_delivery
  <1>4. copies' = [copies EXCEPT ![p] = holds]
    <2>1. CASE arrives
      BY <2>1 DEF PullPage
    <2>2. CASE ~arrives
      BY <2>2 DEF PullPage, DispatchInv, DispatchTyped
    <2> QED BY <2>1, <2>2
  <1>5. lost' = [lost EXCEPT ![p] = gone]
    BY DEF PullPage
  <1>6. news' = [news EXCEPT ![p] = left]
    BY DEF PullPage, DispatchInv, DispatchTyped
  <1>7. ASSUME NEW j \in Jobs
        PROVE  /\ handed[p][j] \in 0 .. MaxJobVersion /\ copies[p][j] \in 0 .. MaxJobVersion
               /\ job[j].version \in 1 .. MaxJobVersion
    BY DEF DispatchInv, DispatchTyped, JobRow
  <1> HIDE DEF page, withdrawn
  <1>8. /\ gave \in [Jobs -> 0 .. MaxJobVersion] /\ took \in [Jobs -> 0 .. MaxJobVersion]
        /\ left \in SUBSET Jobs /\ gone \in SUBSET Jobs
    BY <1>1, <1>7, DispatchBounds DEF DispatchInv, DispatchTyped
  <1>9. holds \in [Jobs -> 0 .. MaxJobVersion]
    <2> HIDE DEF took
    <2> QED BY <1>8 DEF DispatchInv, DispatchTyped
  <1>10. DispatchTyped'
    <2> HIDE DEF gave, holds, left, gone
    <2> QED BY <1>2, <1>3, <1>4, <1>5, <1>6, <1>8, <1>9 DEF DispatchInv, DispatchTyped
  <1>11. \A q \in Tablets :
           /\ handed'[q] = IF q = p THEN gave ELSE handed[q]
           /\ copies'[q] = IF q = p THEN holds ELSE copies[q]
           /\ lost'[q] = IF q = p THEN gone ELSE lost[q]
           /\ news'[q] = IF q = p THEN left ELSE news[q]
    <2> HIDE DEF gave, holds, left, gone
    <2> QED BY <1>3, <1>4, <1>5, <1>6 DEF DispatchInv, DispatchTyped
  <1>12. PhoneSound(p)'
    <2>1. PhoneSound(p)
      BY DEF DispatchInv
    <2>2. ASSUME NEW j \in Jobs
          PROVE  /\ holds[j] <= gave[j] /\ gave[j] <= job[j].version
                 /\ gave[j] = job[j].version => j \in gone \/ holds[j] = job[j].version
                 /\ j \in left => gave[j] < job[j].version \/ j \in gone
      <3>1. /\ copies[p][j] <= handed[p][j] /\ handed[p][j] <= job[j].version
            /\ handed[p][j] = job[j].version => j \in lost[p] \/ copies[p][j] = job[j].version
            /\ j \in news[p] => handed[p][j] < job[j].version \/ j \in lost[p]
        BY <2>1 DEF PhoneSound
      <3>2. CASE arrives
        <4>1. holds = took /\ left = {} /\ gone = lost[p] \ page
          BY <3>2
        <4> HIDE DEF holds, left, gone
        <4> QED BY <1>1, <1>7, <3>1, <4>1
      <3>3. CASE ~arrives
        <4>1. holds = copies[p] /\ left = news[p] /\ gone = lost[p] \cup page
          BY <3>3
        <4> HIDE DEF holds, left, gone
        <4> QED BY <1>1, <1>7, <3>1, <4>1
      <3> QED BY <3>2, <3>3
    <2>3. Enrolled(p)'
      BY <1>2 DEF Enrolled
    <2> HIDE DEF gave, holds, left, gone
    <2> QED BY <1>2, <1>11, <2>2, <2>3 DEF PhoneSound
  <1> HIDE DEF gave, holds, left, gone
  <1> QED BY <1>2, <1>10, <1>11, <1>12, OnePhoneMoves

\* A phone has no more of an order than it was handed, and was handed no more than there is.
THEOREM DispatchAlways == DispatchSpec => []DispatchInv
  <1>1. DispatchInit => DispatchInv
    <2> SUFFICES ASSUME DispatchInit PROVE DispatchInv
      OBVIOUS
    <2>1. DispatchTyped
      BY DispatchBounds DEF DispatchInit, DispatchTyped, JobRow, TabletRow
    <2>2. \A p \in Tablets : PhoneSound(p)
      BY DEF DispatchInit, PhoneSound
    <2> QED BY <2>1, <2>2 DEF DispatchInv
  <1>2. DispatchInv /\ [DispatchNext]_dsvars => DispatchInv'
    <2> SUFFICES ASSUME DispatchInv, [DispatchNext]_dsvars PROVE DispatchInv'
      OBVIOUS
    <2>1. CASE UNCHANGED dsvars
      <3>1. UNCHANGED <<job, tablet, handed, copies, news, lost, mishaps>>
        BY <2>1 DEF dsvars
      <3>2. \A p \in Tablets : PhoneSound(p)'
        <4> SUFFICES ASSUME NEW p \in Tablets PROVE PhoneSound(p)'
          OBVIOUS
        <4>1. PhoneSound(p)
          BY DEF DispatchInv
        <4> QED BY <3>1, <4>1, Zenon DEF PhoneSound, Enrolled
      <3> QED BY <3>1, <3>2 DEF DispatchInv, DispatchTyped
    <2> QED BY <2>1, OfficeMoves, RowsChange, PhoneReinstalls, PhoneWipes, PhonePulls DEF DispatchNext
  <1> QED BY <1>1, <1>2, PTL DEF DispatchSpec

-----------------------------------------------------------------------------
(* What the dispatcher is told *)

LEMMA HighestHanded ==
  ASSUME DispatchInv, NEW j \in Jobs
  PROVE  /\ \E p \in Tablets : _deliveries_by_order(j) = handed[p][j]
         /\ \A p \in Tablets : handed[p][j] <= _deliveries_by_order(j)
  <1> DEFINE versions == {handed[p][j] : p \in Tablets}
  <1>1. versions \in SUBSET Nat /\ versions # {} /\ \A n \in versions : n <= MaxJobVersion
    BY TabletsThere DEF DispatchInv, DispatchTyped
  <1>2. \E n \in versions : \A m \in versions : n >= m
    <2>1. PICK n \in versions : \A m \in versions : m <= n
      <3> HIDE DEF versions
      <3> QED BY <1>1, DispatchBounds, Greatest
    <2> HIDE DEF versions
    <2> QED BY <1>1, <2>1
  <1>3. Max(versions) \in versions /\ \A m \in versions : Max(versions) >= m
    <2> HIDE DEF versions
    <2> QED BY <1>2 DEF Max
  <1>4. \A m \in versions : m <= Max(versions)
    <2> HIDE DEF versions
    <2> QED BY <1>1, <1>3
  <1> QED BY <1>3, <1>4 DEF _deliveries_by_order

LEMMA RowIsTrue ==
  ASSUME DispatchInv, NEW c \in Squads
  PROVE  /\ \A j \in dispatch_board(c).undelivered, p \in Tablets : copies[p][j] = 0
         /\ \A j \in dispatch_board(c).stale_on_device, p \in Tablets : copies[p][j] < job[j].version
         /\ \A j \in dispatch_board(c).delivered \ dispatch_board(c).stale_on_device :
              \E p \in dispatch_board(c).devices :
                handed[p][j] = job[j].version /\ (j \in lost[p] \/ copies[p][j] = job[j].version)
         /\ \A j \in dispatch_board(c).assigned, p \in Tablets :
              copies[p][j] # 0 => p \in dispatch_board(c).devices
  <1>1. Sent(c) \subseteq Jobs
    BY DEF Sent
  <1>2. ASSUME NEW j \in Jobs, NEW p \in Tablets
        PROVE  /\ handed[p][j] \in Nat /\ copies[p][j] \in Nat /\ job[j].version \in Nat
               /\ _deliveries_by_order(j) \in Nat
               /\ copies[p][j] <= handed[p][j] /\ handed[p][j] <= job[j].version
               /\ handed[p][j] <= _deliveries_by_order(j)
               /\ handed[p][j] = job[j].version => j \in lost[p] \/ copies[p][j] = job[j].version
               /\ handed[p][j] # 0 => Enrolled(p)
    <2>1. /\ \A q \in Tablets : handed[q][j] \in Nat
          /\ copies[p][j] \in Nat /\ job[j].version \in Nat
      BY DEF DispatchInv, DispatchTyped, JobRow
    <2> QED BY <2>1, HighestHanded DEF DispatchInv, PhoneSound
  <1>3. /\ dispatch_board(c).assigned = Sent(c)
        /\ dispatch_board(c).delivered = {j \in Sent(c) : _deliveries_by_order(j) # 0}
        /\ dispatch_board(c).undelivered =
             Sent(c) \ {j \in Sent(c) : _deliveries_by_order(j) # 0}
        /\ dispatch_board(c).stale_on_device =
             {j \in {k \in Sent(c) : _deliveries_by_order(k) # 0} :
                _deliveries_by_order(j) < job[j].version}
        /\ dispatch_board(c).devices = _attach_devices(c)
    BY DEF dispatch_board
  <1>4. ASSUME NEW j \in Sent(c), NEW p \in Tablets, handed[p][j] # 0
        PROVE  p \in _attach_devices(c)
    BY <1>1, <1>2, <1>4 DEF _attach_devices
  <1>5. ASSUME NEW j \in Sent(c), _deliveries_by_order(j) = 0, NEW p \in Tablets
        PROVE  copies[p][j] = 0
    BY <1>1, <1>2, <1>5
  <1>6. ASSUME NEW j \in Sent(c), _deliveries_by_order(j) < job[j].version, NEW p \in Tablets
        PROVE  copies[p][j] < job[j].version
    BY <1>1, <1>2, <1>6
  <1>7. ASSUME NEW j \in Sent(c), _deliveries_by_order(j) # 0, ~(_deliveries_by_order(j) < job[j].version)
        PROVE  \E p \in _attach_devices(c) :
                 handed[p][j] = job[j].version /\ (j \in lost[p] \/ copies[p][j] = job[j].version)
    <2>1. PICK p \in Tablets : _deliveries_by_order(j) = handed[p][j]
      BY <1>1, HighestHanded
    <2>2. handed[p][j] = job[j].version /\ handed[p][j] # 0
      BY <1>1, <1>2, <1>7, <2>1
    <2> QED BY <1>1, <1>2, <1>4, <2>2
  <1>8. ASSUME NEW j \in Sent(c), NEW p \in Tablets, copies[p][j] # 0
        PROVE  p \in _attach_devices(c)
    BY <1>1, <1>2, <1>4, <1>8
  <1> QED BY <1>3, <1>5, <1>6, <1>7, <1>8

LEMMA LeaverIsReady ==
  ASSUME DispatchInv, NEW p \in Tablets, blockers(p) = {}, NEW j \in Jobs,
         job[j].state \in SYNCABLE_STATES
  PROVE  \/ j \in lost[p] /\ copies[p][j] < job[j].version
         \/ copies[p][j] = (IF j \in _held_orders(p) THEN job[j].version ELSE 0)
  <1>1. device_readiness(p).stale_orders = {}
    <2>1. "stale" \notin blockers(p)
      OBVIOUS
    <2> QED BY <2>1 DEF blockers
  <1>2. /\ handed[p][j] \in Nat /\ copies[p][j] \in Nat /\ job[j].version \in Nat
        /\ copies[p][j] <= handed[p][j] /\ handed[p][j] <= job[j].version
        /\ handed[p][j] = job[j].version => j \in lost[p] \/ copies[p][j] = job[j].version
    BY DEF DispatchInv, DispatchTyped, JobRow, PhoneSound
  <1>3. CASE j \in _held_orders(p)
    <2>1. ~(handed[p][j] < job[j].version)
      BY <1>1, <1>3 DEF device_readiness
    <2> QED BY <1>2, <1>3, <2>1
  <1>4. CASE j \notin _held_orders(p)
    BY <1>2, <1>4 DEF _held_orders
  <1> QED BY <1>3, <1>4

\* What the dispatcher's board says is so of the phones, whatever is lost or refused:
\* what counts as undelivered no phone has, what counts as stale none has as it is, and
\* a phone without blockers has its open orders as they are but for what it lost.
THEOREM BoardIsAlwaysTrue == DispatchSpec => []BoardIsTrue
  <1>1. DispatchInv => BoardIsTrue
    <2> SUFFICES ASSUME DispatchInv PROVE BoardIsTrue
      OBVIOUS
    <2>1. \A p \in Tablets : blockers(p) = {} =>
            \A j \in Jobs : job[j].state \in SYNCABLE_STATES =>
              \/ j \in lost[p] /\ copies[p][j] < job[j].version
              \/ copies[p][j] = (IF j \in _held_orders(p) THEN job[j].version ELSE 0)
      BY LeaverIsReady
    <2> QED BY <2>1, RowIsTrue, Zenon DEF BoardIsTrue
  <1> QED BY <1>1, DispatchAlways, PTL

-----------------------------------------------------------------------------
(****************************************************************************)
(* THE CALENDAR: every period has its month                                 *)
(****************************************************************************)

\* Days of a year.
DaysIn(year) == IF Leap(year) THEN 366 ELSE 365

\* Days before a year.
Past(past) == past * 365 + past \div 4 - past \div 100 + past \div 400

\* A leap year is a day longer, by the centuries too.
LEMMA YearByYear ==
  ASSUME NEW year \in Nat \ {0}
  PROVE  Past(year) \in Int /\ Past(year - 1) \in Int /\ Past(year) = Past(year - 1) + DaysIn(year)
  <1>1. /\ year \div 4 = (year - 1) \div 4 + (IF year % 4 = 0 THEN 1 ELSE 0)
        /\ year \div 100 = (year - 1) \div 100 + (IF year % 100 = 0 THEN 1 ELSE 0)
        /\ year \div 400 = (year - 1) \div 400 + (IF year % 400 = 0 THEN 1 ELSE 0)
    OBVIOUS
  <1>2. (year % 100 = 0 => year % 4 = 0) /\ (year % 400 = 0 => year % 100 = 0)
    OBVIOUS
  <1> QED BY <1>1, <1>2 DEF Past, DaysIn, Leap

\* December starts after 334 days.
LEMMA MonthsAddUp ==
  ASSUME NEW month \in 1 .. 12
  PROVE  DaysBefore(month) \in 0 .. 334
  <1>1. month \in {1, 2, 3, 4, 5, 6, 7, 8, 9, 10, 11, 12}
    OBVIOUS
  <1> QED BY <1>1 DEF DaysBefore

\* A day of a later year is later.
LEMMA LaterYear ==
  ASSUME NEW anchor \in Date, NEW year \in Nat, NEW d \in Days(year),
         year = anchor.year + 1 \/ year = anchor.year + 2
  PROVE  Ordinal(d) >= Ordinal(anchor)
  <1> DEFINE a == anchor.year
  <1>1. /\ a \in Nat \ {0} /\ anchor.month \in 1 .. 12 /\ anchor.day \in 1 .. 31
        /\ d.year = year /\ d.month \in 1 .. 12 /\ d.day \in 1 .. 28
    BY DEF Date, Days, MAX_DAY_OF_MONTH
  <1>2. /\ Past(a - 1) \in Int /\ Past(a) \in Int /\ Past(a + 1) \in Int
        /\ Past(a) = Past(a - 1) + DaysIn(a) /\ Past(a + 1) = Past(a) + DaysIn(a + 1)
    <2>1. a + 1 \in Nat \ {0} /\ a + 1 - 1 = a
      BY <1>1
    <2> QED BY <1>1, <2>1, YearByYear
  <1>3. year - 1 = a \/ year - 1 = a + 1
    BY <1>1
  <1> DEFINE leapt == IF d.month > 2 /\ Leap(d.year) THEN 1 ELSE 0
             lept == IF anchor.month > 2 /\ Leap(anchor.year) THEN 1 ELSE 0
             before == DaysBefore(d.month)
             bef == DaysBefore(anchor.month)
             on == Ordinal(d)
             from == Ordinal(anchor)
             p == Past(year - 1)
             q == Past(a - 1)
             length == DaysIn(a)
  <1>4. on = p + before + leapt + d.day /\ from = q + bef + lept + anchor.day
    BY <1>1 DEF Ordinal, Past
  <1>5. before \in 0 .. 334 /\ bef \in 0 .. 334
    BY <1>1, MonthsAddUp
  <1>6. leapt \in {0, 1} /\ lept \in {0, 1} /\ 365 + lept <= length /\ length \in Int
    BY DEF DaysIn
  <1>7. p \in Int /\ q \in Int /\ p >= q + length
    BY <1>2, <1>3 DEF DaysIn
  <1> HIDE DEF leapt, lept, before, bef, p, q, length
  <1>8. on \in Int /\ on > p
    BY <1>1, <1>4, <1>5, <1>6, <1>7
  <1>9. from \in Int /\ from <= q + length
    BY <1>1, <1>4, <1>5, <1>6, <1>7
  <1> QED BY <1>6, <1>7, <1>8, <1>9

\* Every period has one month the plan fires in.
LEMMA OneMonth ==
  ASSUME NEW c \in Cadence \ {"dias"}, NEW start \in 1 .. 12
  PROVE  LET months == MONTHS[c]
             fires(m) == (m - start_month(months, m, start)) % months = 0
             portion(m) == (m - 1) \div months
         IN /\ \A m \in 1 .. 12 : \E k \in 1 .. 12 : fires(k) /\ portion(k) = portion(m)
            /\ \A k, m \in 1 .. 12 : fires(k) /\ fires(m) /\ portion(k) = portion(m) => k = m
  <1> DEFINE months == MONTHS[c]
             first == ((start - 1) % months) + 1
  <1>1. months \in {1, 3, 6, 12}
    BY DEF MONTHS, Cadence
  <1>2. ASSUME NEW m \in 1 .. 12
        PROVE  \E k \in 1 .. 12 : (k - first) % months = 0 /\ (k - 1) \div months = (m - 1) \div months
    <2> DEFINE k == ((m - 1) \div months) * months + first
    <2>1. k \in 1 .. 12 /\ (k - first) % months = 0 /\ (k - 1) \div months = (m - 1) \div months
      <3> HIDE DEF months
      <3>1. CASE months = 1
        BY <3>1
      <3>2. CASE months = 3
        BY <3>2
      <3>3. CASE months = 6
        BY <3>3
      <3>4. CASE months = 12
        BY <3>4
      <3> QED BY <1>1, <3>1, <3>2, <3>3, <3>4
    <2> QED BY <2>1
  <1>3. ASSUME NEW k \in 1 .. 12, NEW m \in 1 .. 12, (k - first) % months = 0, (m - first) % months = 0,
               (k - 1) \div months = (m - 1) \div months
        PROVE  k = m
    <2> HIDE DEF months
    <2>1. CASE months = 1
      BY <1>3, <2>1
    <2>2. CASE months = 3
      BY <1>3, <2>2
    <2>3. CASE months = 6
      BY <1>3, <2>3
    <2>4. CASE months = 12
      BY <1>3, <2>4
    <2> QED BY <1>1, <2>1, <2>2, <2>3, <2>4
  <1> HIDE DEF months
  <1> QED BY <1>2, <1>3 DEF start_month, months

\* What a calendar plan does in its second year.
LEMMA FiresOnce ==
  ASSUME NEW rule \in Rule, rule.cadence # "dias", NEW anchor \in Date
  PROVE  FiresOncePerPeriod(rule, anchor)
  <1> DEFINE c == rule.cadence
             months == MONTHS[c]
             start == anchor.month
             fires(m) == (m - start_month(months, m, start)) % months = 0
             portion(m) == (m - 1) \div months
             year == anchor.year + 1
             due == DueDays(rule, year, anchor)
             label(d) == period_of(rule, d, anchor)
  <1>1. /\ c \in Cadence \ {"dias"} /\ start \in 1 .. 12 /\ rule.day_of_month \in 1 .. 28
        /\ year \in Nat /\ year + 1 \in Nat /\ year + 1 = anchor.year + 2
    BY DEF Rule, Date, MAX_DAY_OF_MONTH
  <1>2. /\ \A m \in 1 .. 12 : \E k \in 1 .. 12 : fires(k) /\ portion(k) = portion(m)
        /\ \A k, m \in 1 .. 12 : fires(k) /\ fires(m) /\ portion(k) = portion(m) => k = m
    BY <1>1, OneMonth
  <1>3. months \in {1, 3, 6, 12} /\ \A m \in 1 .. 12 : portion(m) \in Int
    BY <1>1 DEF MONTHS, Cadence
  <1>4. \A d : label(d) = <<c, d.year, portion(d.month) + 1>>
    BY DEF period_of
  <1>5. \A d \in Days(year) : d \in due <=> fires(d.month) /\ d.day >= rule.day_of_month
    BY <1>1, LaterYear DEF DueDays, is_due
  <1>6. \A y \in Nat : \A d \in Days(y) : d.year = y /\ d.month \in 1 .. 12
    BY DEF Days
  <1>7. due \subseteq Days(year) /\ DueDays(rule, year + 1, anchor) \subseteq Days(year + 1)
    BY DEF DueDays
  <1> HIDE DEF c, months, start, fires, portion, year, due, label
  <1>8. ASSUME NEW d \in Days(year) PROVE \E e \in due : label(e) = label(d)
    <2>1. d.year = year /\ d.month \in 1 .. 12
      BY <1>1, <1>6
    <2>2. PICK k \in 1 .. 12 : fires(k) /\ portion(k) = portion(d.month)
      BY <1>2, <2>1
    <2> DEFINE e == [year |-> year, month |-> k, day |-> rule.day_of_month]
    <2>3. e \in Days(year) /\ e.year = year /\ e.month = k /\ e.day >= rule.day_of_month
      BY <1>1 DEF Days, MAX_DAY_OF_MONTH
    <2> HIDE DEF e
    <2>4. e \in due
      BY <1>5, <2>2, <2>3
    <2>5. label(e) = label(d)
      BY <1>4, <2>1, <2>2, <2>3
    <2> QED BY <2>4, <2>5
  <1>9. {label(d) : d \in due} = {label(d) : d \in Days(year)}
    BY <1>7, <1>8
  <1>10. \A d, e \in due : label(d) = label(e) => d.month = e.month
    <2> SUFFICES ASSUME NEW d \in due, NEW e \in due, label(d) = label(e)
                 PROVE  d.month = e.month
      OBVIOUS
    <2>1. d.month \in 1 .. 12 /\ e.month \in 1 .. 12 /\ fires(d.month) /\ fires(e.month)
      BY <1>1, <1>5, <1>6, <1>7
    <2>2. portion(d.month) + 1 = portion(e.month) + 1
      BY <1>4
    <2>3. portion(d.month) = portion(e.month)
      BY <1>3, <2>1, <2>2
    <2> QED BY <1>2, <2>1, <2>3
  <1>11. {label(d) : d \in due} \cap {label(d) : d \in DueDays(rule, year + 1, anchor)} = {}
    <2> SUFFICES ASSUME NEW d \in due, NEW e \in DueDays(rule, year + 1, anchor), label(d) = label(e)
                 PROVE  FALSE
      OBVIOUS
    <2>1. d.year = year /\ e.year = year + 1
      BY <1>1, <1>6, <1>7
    <2>2. d.year = e.year
      BY <1>4
    <2> QED BY <1>1, <2>1, <2>2
  <1> QED BY <1>9, <1>10, <1>11 DEF FiresOncePerPeriod, due, year, label

\* What is looked at is a plan.
LEMMA AskedIsAPlan == CalendarSpec => [](asked \in CalendarPlans \cup {NoPlan})
  <1> DEFINE Inv == asked \in CalendarPlans \cup {NoPlan}
  <1>1. CalendarInit => Inv
    BY DEF CalendarInit
  <1>2. Inv /\ [CalendarNext]_asked => Inv'
    BY DEF CalendarNext
  <1> QED BY <1>1, <1>2, PTL DEF CalendarSpec

\* A calendar plan, of any cadence, day and start, has in the year after its start one
\* month to fire in for each period, under a label that does not come back (start_month,
\* is_due and period_of of plans/periods.py).
THEOREM CalendarAlwaysFires == CalendarSpec => []CalendarFires
  <1>1. asked \in CalendarPlans \cup {NoPlan} => CalendarFires
    BY CalendarPlansGiven, FiresOnce DEF CalendarFires
  <1> QED BY <1>1, AskedIsAPlan, PTL

-----------------------------------------------------------------------------
(****************************************************************************)
(* ZONES: an import accounts for its file                                   *)
(****************************************************************************)

\* What holds of zero, and of a number whenever of the one before, holds up to any bound.
LEMMA UpTo ==
  ASSUME NEW n \in Nat, NEW S, 0 \in S, \A k \in 0 .. n - 1 : k \in S => k + 1 \in S
  PROVE  \A k \in 0 .. n : k \in S
  <1> SUFFICES ASSUME NEW b \in 0 .. n, b \notin S PROVE FALSE
    OBVIOUS
  <1> DEFINE T == {k \in 0 .. n : k \notin S}
             Less == OpToRel(<, Nat)
  <1>1. T \subseteq Nat /\ T # {}
    OBVIOUS
  <1>2. IsWellFoundedOn(Less, Nat)
    BY NatLessThanWellFounded
  <1>3. \A a, c \in Nat : a < c => <<a, c>> \in Less
    BY DEF OpToRel
  <1> HIDE DEF Less, T
  <1>4. PICK x \in T : \A y \in T : ~(<<y, x>> \in Less)
    BY <1>1, <1>2, WFMin
  <1>5. x \in 0 .. n /\ x \notin S /\ x # 0
    BY <1>4 DEF T
  <1>6. x - 1 \in 0 .. n - 1 /\ x - 1 \in Nat /\ x \in Nat /\ x - 1 < x /\ x - 1 + 1 = x
    BY <1>5
  <1>7. x - 1 \notin T
    BY <1>3, <1>4, <1>6
  <1> QED BY <1>5, <1>6, <1>7 DEF T

-----------------------------------------------------------------------------
(* A file *)

\* What an import keeps while it goes through a file.
Progress(document) ==
  [file: {document}, seen: SUBSET (ZoneCodes \cup {Nowhere}), met: SUBSET (ZoneCodes \cup {Nowhere}),
   created: SUBSET Nat, updated: SUBSET Nat, rejected: SUBSET Nat]

\* Before the first feature.
NothingFed(document) ==
  [file |-> document, seen |-> {}, met |-> {}, created |-> {}, updated |-> {}, rejected |-> {}]

\* The features that came in.
Taken(done) == done.created \cup done.updated

\* The codes of the zones there are.
ZonesThere == {c \in ZoneCodes : zones[c] # NoZone}

\* Why the feature at a place of a file was refused.
Cause(document, replace_existing, accepted, i) ==
  \/ document[i].code = Nowhere \/ document[i].polygon = {}
  \/ \E j \in accepted : j < i /\ document[j].code = document[i].code
  \/ document[i].code \in ZonesThere /\ ~replace_existing

\* What an import has made of the first features of a file.
Accounts(document, replace_existing, done, k) ==
  /\ done \in Progress(document)
  /\ Taken(done) \cup done.rejected = 1 .. k
  /\ Taken(done) \cap done.rejected = {}
  /\ \A i, j \in Taken(done) : document[i].code = document[j].code => i = j
  /\ done.seen = {document[i].code : i \in Taken(done)}
  /\ \A i \in Taken(done) : document[i].code \in ZoneCodes /\ document[i].polygon # {}
  /\ \A i \in done.created : document[i].code \notin ZonesThere
  /\ \A i \in done.updated : document[i].code \in ZonesThere /\ replace_existing
  /\ \A i \in done.rejected : Cause(document, replace_existing, Taken(done), i)

\* A file has features.
LEMMA FeaturesThere ==
  ASSUME NEW document \in Files
  PROVE  /\ Len(document) \in Nat \ {0} /\ DOMAIN document = 1 .. Len(document)
         /\ \A i \in 1 .. Len(document) : document[i] \in Feature
  <1>1. document \in Seq(Feature) /\ document # <<>>
    BY FilesAreFeatures
  <1> QED BY <1>1, LenProperties, EmptySeq

\* One feature more, taken or refused.
LEMMA OneMore ==
  ASSUME NEW document \in Files, NEW replace_existing, NEW k \in 0 .. Len(document) - 1,
         NEW done, Accounts(document, replace_existing, done, k)
  PROVE  Accounts(document, replace_existing, Feed(replace_existing, done, k + 1), k + 1)
  <1> DEFINE i == k + 1
             feature == document[i]
             new == Feed(replace_existing, done, i)
             refused == \/ feature.code = Nowhere
                        \/ feature.code \in done.seen
                        \/ feature.polygon = {}
                        \/ zones[feature.code] # NoZone /\ ~replace_existing
  <1>1. /\ k \in Nat /\ i \in Nat /\ i \in 1 .. Len(document) /\ i \notin 1 .. k
        /\ (1 .. k) \cup {i} = 1 .. i /\ \A j \in 1 .. k : j < i
    BY FeaturesThere
  <1>2. feature \in Feature /\ feature.code \in ZoneCodes \cup {Nowhere}
    BY <1>1, FeaturesThere DEF Feature
  <1>3. done \in Progress(document) /\ done.file = document
    BY DEF Accounts, Progress
  <1> HIDE DEF i
  <1>4. ASSUME refused PROVE Accounts(document, replace_existing, new, i)
    <2>1. new = [done EXCEPT !.met = @ \cup {feature.code}, !.rejected = @ \cup {i}]
      BY <1>3, <1>4 DEF Feed, Repeated, Progress
    <2> HIDE DEF new
    <2>2. /\ new \in Progress(document) /\ new.rejected = done.rejected \cup {i}
          /\ Taken(new) = Taken(done) /\ new.seen = done.seen
          /\ new.created = done.created /\ new.updated = done.updated
      BY <1>1, <1>2, <1>3, <2>1 DEF Progress, Taken
    <2>3. Cause(document, replace_existing, Taken(done), i)
      <3>1. CASE feature.code \in done.seen
        <4>1. PICK j \in Taken(done) : feature.code = document[j].code
          BY <3>1 DEF Accounts
        <4>2. j < i
          BY <1>1, <4>1 DEF Accounts
        <4> QED BY <4>1, <4>2 DEF Cause
      <3>2. CASE feature.code \notin done.seen
        BY <1>2, <1>4, <3>2 DEF Cause, ZonesThere
      <3> QED BY <3>1, <3>2
    <2>4. Taken(new) \cup new.rejected = 1 .. i /\ Taken(new) \cap new.rejected = {}
      BY <1>1, <2>2 DEF Accounts
    <2>5. \A j \in new.rejected : Cause(document, replace_existing, Taken(new), j)
      BY <2>2, <2>3 DEF Accounts
    <2> HIDE DEF feature
    <2>6. /\ \A j, h \in Taken(new) : document[j].code = document[h].code => j = h
          /\ new.seen = {document[j].code : j \in Taken(new)}
          /\ \A j \in Taken(new) : document[j].code \in ZoneCodes /\ document[j].polygon # {}
          /\ \A j \in new.created : document[j].code \notin ZonesThere
          /\ \A j \in new.updated : document[j].code \in ZonesThere /\ replace_existing
      BY <2>2 DEF Accounts
    <2> QED BY <2>2, <2>4, <2>5, <2>6 DEF Accounts
  <1>5. ASSUME ~refused PROVE Accounts(document, replace_existing, new, i)
    <2>1. new = [done EXCEPT !.met = @ \cup {feature.code}, !.seen = @ \cup {feature.code},
                             !.created = IF zones[feature.code] = NoZone THEN @ \cup {i} ELSE @,
                             !.updated = IF zones[feature.code] # NoZone THEN @ \cup {i} ELSE @]
      BY <1>3, <1>5 DEF Feed, Repeated, Progress
    <2>2. /\ new \in Progress(document) /\ new.rejected = done.rejected
          /\ Taken(new) = Taken(done) \cup {i} /\ new.seen = done.seen \cup {feature.code}
          /\ new.created = IF zones[feature.code] = NoZone THEN done.created \cup {i}
                           ELSE done.created
          /\ new.updated = IF zones[feature.code] # NoZone THEN done.updated \cup {i}
                           ELSE done.updated
      <3> HIDE DEF new
      <3>1. CASE zones[feature.code] = NoZone
        BY <1>1, <1>2, <1>3, <2>1, <3>1 DEF Progress, Taken
      <3>2. CASE zones[feature.code] # NoZone
        BY <1>1, <1>2, <1>3, <2>1, <3>2 DEF Progress, Taken
      <3> QED BY <3>1, <3>2
    <2> HIDE DEF new
    <2>3. Taken(new) \cup new.rejected = 1 .. i /\ Taken(new) \cap new.rejected = {}
      BY <1>1, <2>2 DEF Accounts
    <2>4. \A j \in Taken(done) : document[j].code # feature.code
      BY <1>5 DEF Accounts
    <2>5. \A j, h \in Taken(new) : document[j].code = document[h].code => j = h
      BY <2>2, <2>4 DEF Accounts
    <2>6. new.seen = {document[j].code : j \in Taken(new)}
      BY <2>2 DEF Accounts
    <2>7. \A j \in Taken(new) : document[j].code \in ZoneCodes /\ document[j].polygon # {}
      BY <1>2, <1>5, <2>2 DEF Accounts
    <2>8. \A j \in new.rejected : Cause(document, replace_existing, Taken(new), j)
      BY <2>2 DEF Accounts, Cause
    <2>9. \A j \in new.created : document[j].code \notin ZonesThere
      BY <2>2 DEF Accounts, ZonesThere
    <2>10. \A j \in new.updated : document[j].code \in ZonesThere /\ replace_existing
      BY <1>2, <1>5, <2>2 DEF Accounts, ZonesThere
    <2> HIDE DEF feature
    <2> QED BY <2>2, <2>3, <2>5, <2>6, <2>7, <2>8, <2>9, <2>10 DEF Accounts
  <1>6. Accounts(document, replace_existing, new, i)
    BY <1>4, <1>5
  <1> HIDE DEF new
  <1> QED BY <1>6 DEF new, i

\* An import of any file accounts for the whole of it.
LEMMA WholeFile ==
  ASSUME NEW document \in Files, NEW replace_existing
  PROVE  Accounts(document, replace_existing, Import(document, replace_existing), Len(document))
  <1> DEFINE n == Len(document)
             Then(g, i) == IF i = 0 THEN NothingFed(document) ELSE Feed(replace_existing, g[i - 1], i)
             S == {k \in 0 .. n : \E g : g = [i \in 0 .. k |-> Then(g, i)]}
  <1>1. n \in Nat \ {0}
    BY FeaturesThere
  <1> HIDE DEF n
  <1>2. 0 \in S
    <2> DEFINE g == [i \in 0 .. 0 |-> NothingFed(document)]
    <2>1. g = [i \in 0 .. 0 |-> Then(g, i)]
      <3>1. \A i \in 0 .. 0 : i = 0 /\ Then(g, i) = NothingFed(document)
        OBVIOUS
      <3> HIDE DEF Then
      <3> QED BY <3>1
    <2> HIDE DEF g, Then
    <2> QED BY <1>1, <2>1
  <1>3. ASSUME NEW k \in 0 .. n - 1, k \in S PROVE k + 1 \in S
    <2>1. PICK g : g = [i \in 0 .. k |-> Then(g, i)]
      BY <1>3
    <2> DEFINE next == Feed(replace_existing, g[k], k + 1)
               h == [i \in 0 .. k + 1 |-> IF i = k + 1 THEN next ELSE g[i]]
    <2>2. k \in Nat /\ k + 1 # 0 /\ k + 1 \in 0 .. n
      BY <1>1
    <2>3. ASSUME NEW i \in 0 .. k + 1 PROVE h[i] = Then(h, i)
      <3>1. CASE i = k + 1
        <4>1. i # 0 /\ i - 1 = k /\ k \in 0 .. k + 1 /\ k # k + 1
          BY <2>2, <3>1
        <4>2. h[i] = next /\ h[i - 1] = g[k]
          BY <3>1, <4>1
        <4> HIDE DEF h
        <4> QED BY <3>1, <4>1, <4>2
      <3>2. CASE i = 0
        <4>1. 0 \in 0 .. k /\ 0 \in 0 .. k + 1 /\ 0 # k + 1
          BY <2>2
        <4>2. h[0] = g[0] /\ g[0] = NothingFed(document)
          BY <2>1, <4>1
        <4> HIDE DEF h
        <4> QED BY <3>2, <4>2
      <3>3. CASE i # 0 /\ i # k + 1
        <4>1. /\ i \in 0 .. k /\ i - 1 \in 0 .. k /\ i - 1 \in 0 .. k + 1 /\ i - 1 # k + 1
          BY <2>2, <3>3
        <4>2. h[i] = g[i] /\ h[i - 1] = g[i - 1]
          BY <3>3, <4>1
        <4>3. g[i] = Feed(replace_existing, g[i - 1], i)
          BY <2>1, <3>3, <4>1
        <4> HIDE DEF h
        <4> QED BY <3>3, <4>2, <4>3
      <3> QED BY <3>1, <3>2, <3>3
    <2>4. h = [i \in 0 .. k + 1 |-> h[i]]
      OBVIOUS
    <2> HIDE DEF h, Then
    <2>5. h = [i \in 0 .. k + 1 |-> Then(h, i)]
      BY <2>3, <2>4
    <2> QED BY <2>2, <2>5
  <1> HIDE DEF S
  <1>4. n \in S
    <2>1. \A k \in 0 .. n : k \in S
      BY <1>1, <1>2, <1>3, UpTo
    <2> QED BY <1>1, <2>1
  <1>5. \E g : g = [i \in 0 .. n |-> Then(g, i)]
    BY <1>4 DEF S
  <1> DEFINE done == CHOOSE g : g = [i \in 0 .. n |-> Then(g, i)]
  <1>6. Import(document, replace_existing) = done[n]
    BY DEF Import, NothingFed, n
  <1>7. done = [i \in 0 .. n |-> Then(done, i)]
    <2> HIDE DEF Then
    <2> QED BY <1>5
  <1> HIDE DEF done
  <1> DEFINE R == {k \in 0 .. n : Accounts(document, replace_existing, done[k], k)}
  <1>8. 0 \in R
    <2>1. Accounts(document, replace_existing, NothingFed(document), 0)
      BY DEF Accounts, NothingFed, Taken, Progress
    <2>2. 0 \in 0 .. n
      BY <1>1
    <2> QED BY <1>7, <2>1, <2>2
  <1>9. ASSUME NEW k \in 0 .. n - 1, k \in R PROVE k + 1 \in R
    <2> DEFINE i == k + 1
    <2>1. i \in 0 .. n /\ i # 0 /\ i - 1 = k
      BY <1>1
    <2> HIDE DEF i
    <2>2. done[i] = Feed(replace_existing, done[k], i)
      BY <1>7, <2>1
    <2>3. Accounts(document, replace_existing, Feed(replace_existing, done[k], k + 1), k + 1)
      BY <1>9, OneMore DEF n
    <2> QED BY <2>1, <2>2, <2>3 DEF i
  <1> HIDE DEF R
  <1>10. n \in R
    <2>1. \A k \in 0 .. n : k \in R
      BY <1>1, <1>8, <1>9, UpTo
    <2> QED BY <1>1, <2>1
  <1> QED BY <1>6, <1>10 DEF R, n

-----------------------------------------------------------------------------
(* The invariant *)

\* A row of a zone, or none.
ZonesTyped == zones \in [ZoneCodes -> Zone \cup {NoZone}]

\* The report is of a file, and what it took has codes of zones.
ReportTyped ==
  \/ imported = NoReport
  \/ /\ imported.file \in Files
     /\ \A i \in imported.created \cup imported.updated : imported.file[i].code \in ZoneCodes

\* The report accounts for its file, and goes on to: no zone is ever deleted, and an
\* imported polygon stands until a drawing or another import.
ZonesInv == ZonesTyped /\ ReportTyped /\ ImportAccounts

\* A zone is imported or drawn.
LEMMA AZoneIsThere == \A z \in Zone : z # NoZone
  BY DEF Zone, NoZone, ZoneOrigin

\* Zones come and change; none goes.
LEMMA ReportStands ==
  ASSUME ZonesInv, imported' = imported, ZonesTyped',
         \A c \in ZoneCodes : zones[c] # NoZone =>
           /\ zones'[c] # NoZone
           /\ zones'[c].origin = "importada" =>
                zones[c].origin = "importada" /\ zones'[c].polygon = zones[c].polygon
  PROVE  ZonesInv'
  <1>1. ReportTyped'
    BY DEF ZonesInv, ReportTyped
  <1>2. ImportAccounts'
    <2>1. CASE imported = NoReport
      BY <2>1 DEF NoReport, ImportAccounts
    <2>2. CASE imported # NoReport
      BY <2>2 DEF ZonesInv, ReportTyped, ImportAccounts
    <2> QED BY <2>1, <2>2
  <1> QED BY <1>1, <1>2 DEF ZonesInv

\* A file brings its zones in, and those it names stay.
LEMMA FileComesIn ==
  ASSUME ZonesInv, NEW document \in Files, NEW replace_existing \in BOOLEAN,
         import_geojson(document, replace_existing)
  PROVE  ZonesInv'
  <1> DEFINE report == Import(document, replace_existing)
             accepted == Taken(report)
             TakenOf(c) == {i \in accepted : document[i].code = c}
             Comes(c) == IF TakenOf(c) = {} THEN zones[c]
                       ELSE [polygon |-> document[CHOOSE i \in TakenOf(c) : TRUE].polygon,
                             origin |-> "importada",
                             active |-> IF zones[c] = NoZone THEN TRUE ELSE zones[c].active]
  <1>1. Accounts(document, replace_existing, report, Len(document))
    BY WholeFile
  <1>2. /\ zones' = [c \in ZoneCodes |-> Comes(c)]
        /\ imported' = [file |-> document, created |-> report.created, updated |-> report.updated,
                        rejected |-> report.rejected, replace |-> replace_existing,
                        before |-> ZonesThere]
    BY DEF import_geojson, Taken, ZonesThere
  <1> HIDE DEF report
  <1>3. /\ accepted \cup report.rejected = 1 .. Len(document) /\ accepted \cap report.rejected = {}
        /\ \A i, j \in accepted : document[i].code = document[j].code => i = j
        /\ \A i \in accepted : document[i].code \in ZoneCodes /\ document[i].polygon # {}
        /\ \A i \in report.created : document[i].code \notin ZonesThere
        /\ \A i \in report.updated : document[i].code \in ZonesThere /\ replace_existing
        /\ \A i \in report.rejected : Cause(document, replace_existing, accepted, i)
    BY <1>1 DEF Accounts
  <1>4. DOMAIN document = 1 .. Len(document) /\ \A i \in 1 .. Len(document) : document[i] \in Feature
    BY FeaturesThere
  <1>5. ASSUME NEW c \in ZoneCodes
        PROVE  /\ Comes(c) \in Zone \cup {NoZone}
               /\ \A j \in accepted : document[j].code = c =>
                    Comes(c) # NoZone /\ Comes(c).polygon = document[j].polygon
    <2>1. CASE TakenOf(c) = {}
      BY <2>1 DEF ZonesInv, ZonesTyped
    <2>2. CASE TakenOf(c) # {}
      <3> DEFINE i == CHOOSE i \in TakenOf(c) : TRUE
                 active == IF zones[c] = NoZone THEN TRUE ELSE zones[c].active
      <3>1. i \in accepted /\ document[i].code = c
        BY <2>2
      <3>2. document[i].polygon \in SUBSET Places
        BY <1>3, <1>4, <3>1 DEF Feature
      <3>3. active \in BOOLEAN
        BY DEF ZonesInv, ZonesTyped, Zone
      <3>4. Comes(c) = [polygon |-> document[i].polygon, origin |-> "importada", active |-> active]
        BY <2>2
      <3> HIDE DEF i, active, Comes
      <3>5. Comes(c) \in Zone
        BY <3>2, <3>3, <3>4 DEF Zone, ZoneOrigin
      <3>6. \A j \in accepted : document[j].code = c => j = i
        BY <1>3, <3>1
      <3> QED BY <3>4, <3>5, <3>6, AZoneIsThere
    <2> QED BY <2>1, <2>2
  <1> HIDE DEF Comes, accepted
  <1>6. ZonesTyped'
    BY <1>2, <1>5 DEF ZonesTyped
  <1>7. /\ imported'.file = document /\ imported'.rejected = report.rejected
        /\ imported'.created = report.created /\ imported'.updated = report.updated
        /\ imported'.created \cup imported'.updated = accepted
        /\ imported'.before = ZonesThere /\ imported'.replace = replace_existing
    BY <1>2 DEF accepted, Taken
  <1>8. ReportTyped'
    BY <1>3, <1>7 DEF ReportTyped
  <1>9. \A i \in report.rejected :
          \/ document[i].code = Nowhere \/ document[i].polygon = {}
          \/ \E j \in accepted : j < i /\ document[j].code = document[i].code
          \/ document[i].code \in ZonesThere /\ ~replace_existing
    BY <1>3 DEF Cause
  <1>10. \A i \in accepted :
           /\ document[i].polygon # {} /\ zones'[document[i].code] # NoZone
           /\ zones'[document[i].code].polygon = document[i].polygon
    BY <1>2, <1>3, <1>5
  <1>11. ImportAccounts'
    BY <1>3, <1>4, <1>7, <1>9, <1>10 DEF ImportAccounts
  <1> QED BY <1>6, <1>8, <1>11 DEF ZonesInv

\* A zone is drawn, or taken out of use and back.
LEMMA ZoneEdited ==
  ASSUME ZonesInv, NEW c \in ZoneCodes, save_drawn(c) \/ set_active(c)
  PROVE  ZonesInv'
  <1>1. imported' = imported
    BY DEF save_drawn, set_active
  <1>2. zones \in [ZoneCodes -> Zone \cup {NoZone}]
    BY DEF ZonesInv, ZonesTyped
  <1>3. PICK zone \in Zone :
          /\ zones' = [zones EXCEPT ![c] = zone]
          /\ zone.origin = "importada" =>
               zones[c].origin = "importada" /\ zone.polygon = zones[c].polygon
    <2>1. CASE save_drawn(c)
      <3> DEFINE active == IF zones[c] = NoZone THEN TRUE ELSE zones[c].active
      <3>1. PICK polygon \in SUBSET Places :
              zones' = [zones EXCEPT ![c] =
                [polygon |-> polygon, origin |-> "dibujada", active |-> active]]
        BY <1>2, <2>1 DEF save_drawn
      <3>2. active \in BOOLEAN
        BY <1>2 DEF Zone
      <3> HIDE DEF active
      <3>3. [polygon |-> polygon, origin |-> "dibujada", active |-> active] \in Zone
        BY <3>2 DEF Zone, ZoneOrigin
      <3> QED BY <3>1, <3>3
    <2>2. CASE set_active(c)
      <3> DEFINE zone == [zones[c] EXCEPT !.active = ~zones[c].active]
      <3>1. zones' = [zones EXCEPT ![c] = zone] /\ zones[c] \in Zone
        BY <1>2, <2>2 DEF set_active
      <3>2. zone \in Zone /\ zone.origin = zones[c].origin /\ zone.polygon = zones[c].polygon
        BY <3>1 DEF Zone
      <3> HIDE DEF zone
      <3> QED BY <3>1, <3>2
    <2> QED BY <2>1, <2>2
  <1>4. ZonesTyped'
    BY <1>2, <1>3 DEF ZonesTyped
  <1>5. \A d \in ZoneCodes : zones'[d] = IF d = c THEN zone ELSE zones[d]
    BY <1>2, <1>3
  <1>6. \A d \in ZoneCodes : zones[d] # NoZone =>
          /\ zones'[d] # NoZone
          /\ zones'[d].origin = "importada" =>
               zones[d].origin = "importada" /\ zones'[d].polygon = zones[d].polygon
    BY <1>3, <1>5, AZoneIsThere
  <1> QED BY <1>1, <1>4, <1>6, ReportStands

(* The theorems *)

\* Before the first import.
LEMMA ZonesStart == ZonesInit => ZonesInv
  BY DEF ZonesInit, ZonesInv, ZonesTyped, ReportTyped, ImportAccounts, NoReport

\* One step of ZonesNext, an action at a time.
LEMMA ZonesStep == ZonesInv /\ [ZonesNext]_zvars => ZonesInv'
  <1> SUFFICES ASSUME ZonesInv, [ZonesNext]_zvars PROVE ZonesInv'
    OBVIOUS
  <1>1. ASSUME zones' = zones, imported' = imported PROVE ZonesInv'
    BY <1>1, ReportStands DEF ZonesInv, ZonesTyped
  <1>2. CASE \/ \E b \in Fillers : BackfillBegin(b) \/ BackfillCommit(b) \/ BackfillFails(b)
             \/ \E o \in Parcels : ParcelMoves(o)
    BY <1>1, <1>2 DEF BackfillBegin, BackfillCommit, BackfillFails, ParcelMoves
  <1>3. CASE UNCHANGED zvars
    BY <1>1, <1>3 DEF zvars
  <1> QED BY <1>2, <1>3, FileComesIn, ZoneEdited DEF ZonesNext

\* In every state the last report accounts for its file, although zones are drawn and
\* taken out of use after it (import_geojson, save_drawn and set_active of
\* zones/service.py).
THEOREM ZonesAlways == ZonesSpec => []ZonesInv
  <1> QED BY ZonesStart, ZonesStep, PTL DEF ZonesSpec

\* An import accounts for every feature once, takes the first of each code that can be
\* read and leaves the zone its polygon, and refuses for cause alone, for any file
\* (import_geojson of zones/service.py).
THEOREM ImportsAlwaysAccount == ZonesSpec => []ImportAccounts
  <1>1. ZonesInv => ImportAccounts
    BY DEF ZonesInv
  <1> QED BY <1>1, ZonesAlways, PTL

-----------------------------------------------------------------------------
(****************************************************************************)
(* NUMBERS IN WORDS: what is said is what is read                           *)
(****************************************************************************)

\* The word of a rank is what the sum has of it.
LEMMA WorthIs ==
  ASSUME NEW ts, NEW rank, NEW i \in Words(ts), RankOf(ts, i) = rank,
         \A j \in Words(ts) : RankOf(ts, j) = rank => j = i
  PROVE  Worth(ts, rank) = ts[i][2]
  <1> DEFINE w == CHOOSE j \in Words(ts) : RankOf(ts, j) = rank
  <1>1. w \in Words(ts) /\ RankOf(ts, w) = rank
    OBVIOUS
  <1>2. w = i
    BY <1>1
  <1> QED BY <1>2 DEF Worth

LEMMA WorthNothing ==
  ASSUME NEW ts, NEW rank, \A j \in Words(ts) : RankOf(ts, j) # rank
  PROVE  Worth(ts, rank) = 0
  BY DEF Worth

\* The words of a quantity under a thousand, in the orders they come in.
Small == {"units", "teens", "tens", "hundreds"}
Token == (Small \X Nat) \cup {Y, MIL, MILLON}

LEMMA RankIs ==
  /\ DOMAIN Rank = Small
  /\ Rank["units"] = 1 /\ Rank["teens"] = 2 /\ Rank["tens"] = 2 /\ Rank["hundreds"] = 3
  BY DEF Rank, Small

\* One word, two or three of falling rank, an "y" before the last or not.
LEMMA ReadOne ==
  ASSUME NEW a \in Small \X Nat
  PROVE  _parse_under_thousand(<<a>>) = a[2] /\ Words(<<a>>) # {}
  <1> DEFINE ts == <<a>>
  <1>1. a[1] \in Small /\ a[2] \in Nat /\ a # Y
    BY DEF Small, Y
  <1>2. DOMAIN ts = {1} /\ ts[1] = a
    OBVIOUS
  <1> HIDE DEF ts
  <1>3. Words(ts) = {1} /\ Words(ts) # {}
    BY <1>1, <1>2 DEF Words
  <1>4. RankOf(ts, 1) = Rank[a[1]] /\ Rank[a[1]] \in 1 .. 3
    BY <1>1, <1>2, RankIs DEF RankOf, Small
  <1>5. \A r \in 1 .. 3 : Worth(ts, r) = IF r = Rank[a[1]] THEN a[2] ELSE 0
    BY <1>2, <1>3, <1>4, WorthIs, WorthNothing
  <1>6. \A i \in Words(ts) : Of(ts[i], DOMAIN Rank)
    BY <1>1, <1>2, <1>3, RankIs DEF Of
  <1>7. \A i, j \in Words(ts) : i < j => RankOf(ts, j) < RankOf(ts, i)
    BY <1>3
  <1>8. Worth(ts, 3) + Worth(ts, 2) + Worth(ts, 1) = a[2]
    BY <1>1, <1>4, <1>5
  <1>9. _parse_under_thousand(ts) = a[2]
    BY <1>3, <1>6, <1>7, <1>8 DEF _parse_under_thousand
  <1> QED BY <1>3, <1>9 DEF ts

\* Two words and what stands between them.
LEMMA ReadTwo ==
  ASSUME NEW a \in Small \X Nat, NEW b \in Small \X Nat, Rank[b[1]] < Rank[a[1]],
         NEW ts, NEW last \in Nat, last > 1, DOMAIN ts = 1 .. last,
         ts[1] = a, ts[last] = b, \A i \in 2 .. last - 1 : ts[i] = Y
  PROVE  _parse_under_thousand(ts) = a[2] + b[2] /\ Words(ts) # {}
  <1>1. /\ a[1] \in Small /\ a[2] \in Nat /\ a # Y
        /\ b[1] \in Small /\ b[2] \in Nat /\ b # Y
    BY DEF Small, Y
  <1>3. Words(ts) = {1, last} /\ Words(ts) # {}
    BY <1>1 DEF Words
  <1>4. /\ RankOf(ts, 1) = Rank[a[1]] /\ Rank[a[1]] \in 1 .. 3
        /\ RankOf(ts, last) = Rank[b[1]] /\ Rank[b[1]] \in 1 .. 3
    BY <1>1, RankIs DEF RankOf, Small
  <1>5. \A r \in 1 .. 3 : Worth(ts, r) = IF r = Rank[a[1]] THEN a[2]
                                         ELSE IF r = Rank[b[1]] THEN b[2] ELSE 0
    <2> SUFFICES ASSUME NEW r \in 1 .. 3
                 PROVE  Worth(ts, r) = IF r = Rank[a[1]] THEN a[2]
                                       ELSE IF r = Rank[b[1]] THEN b[2] ELSE 0
      OBVIOUS
    <2>1. CASE r = Rank[a[1]]
      BY <2>1, <1>3, <1>4, WorthIs
    <2>2. CASE r = Rank[b[1]]
      BY <2>2, <1>3, <1>4, WorthIs
    <2>3. CASE r # Rank[a[1]] /\ r # Rank[b[1]]
      BY <2>3, <1>3, <1>4, WorthNothing
    <2> QED BY <2>1, <2>2, <2>3
  <1>6. \A i \in Words(ts) : Of(ts[i], DOMAIN Rank)
    BY <1>1, <1>3, RankIs DEF Of
  <1>7. \A i, j \in Words(ts) : i < j => RankOf(ts, j) < RankOf(ts, i)
    BY <1>3, <1>4
  <1>8. Worth(ts, 3) + Worth(ts, 2) + Worth(ts, 1) = a[2] + b[2]
    BY <1>1, <1>4, <1>5
  <1> QED BY <1>3, <1>6, <1>7, <1>8 DEF _parse_under_thousand

\* Hundreds, tens and units.
LEMMA ReadThree ==
  ASSUME NEW h \in Nat, NEW t \in Nat, NEW u \in Nat
  PROVE  /\ _parse_under_thousand(<<_HUNDREDS(h), _TENS(t), Y, _UNITS(u)>>) = h + t + u
         /\ Words(<<_HUNDREDS(h), _TENS(t), Y, _UNITS(u)>>) # {}
  <1> DEFINE ts == <<_HUNDREDS(h), _TENS(t), Y, _UNITS(u)>>
  <1>1. /\ DOMAIN ts = 1 .. 4
        /\ ts[1] = _HUNDREDS(h) /\ ts[2] = _TENS(t) /\ ts[3] = Y /\ ts[4] = _UNITS(u)
    OBVIOUS
  <1>2. /\ ts[1][1] = "hundreds" /\ ts[1][2] = h
        /\ ts[2][1] = "tens" /\ ts[2][2] = t
        /\ ts[4][1] = "units" /\ ts[4][2] = u
        /\ Y[1] = "y"
    BY <1>1 DEF _HUNDREDS, _TENS, _UNITS, Y
  <1> HIDE DEF ts
  <1>3. Words(ts) = {1, 2, 4} /\ Words(ts) # {}
    BY <1>1, <1>2 DEF Words
  <1>4. RankOf(ts, 1) = 3 /\ RankOf(ts, 2) = 2 /\ RankOf(ts, 4) = 1
    BY <1>2, RankIs DEF RankOf
  <1>5. Worth(ts, 3) = h /\ Worth(ts, 2) = t /\ Worth(ts, 1) = u
    BY <1>2, <1>3, <1>4, WorthIs
  <1>6. \A i \in Words(ts) : Of(ts[i], DOMAIN Rank)
    BY <1>2, <1>3, RankIs DEF Of, Small
  <1>7. \A i, j \in Words(ts) : i < j => RankOf(ts, j) < RankOf(ts, i)
    BY <1>3, <1>4
  <1>8. _parse_under_thousand(ts) = h + t + u
    BY <1>3, <1>5, <1>6, <1>7 DEF _parse_under_thousand
  <1> QED BY <1>3, <1>8 DEF ts

\* Short sentences put together.
LEMMA PutTogether ==
  ASSUME NEW a, NEW b, NEW c, NEW d
  PROVE  /\ <<>> \o <<a>> = <<a>>
         /\ <<a>> \o <<>> = <<a>>
         /\ <<a>> \o <<b>> = <<a, b>>
         /\ <<a>> \o <<b, c>> = <<a, b, c>>
         /\ <<>> \o <<a, b, c>> = <<a, b, c>>
         /\ <<a>> \o <<b, c, d>> = <<a, b, c, d>>
  <1> DEFINE S == {a, b, c, d}
  <1>1. <<>> \in Seq(S) /\ <<a>> \in Seq(S) /\ <<b>> \in Seq(S) /\ <<b, c>> \in Seq(S) /\ <<a, b>> \in Seq(S)
        /\ <<a, b, c>> \in Seq(S) /\ <<b, c, d>> \in Seq(S)
        /\ <<a, b, c, d>> \in Seq(S)
    OBVIOUS
  <1>2. <<>> \o <<a>> = <<a>> /\ <<a>> \o <<>> = <<a>> /\ <<>> \o <<a, b, c>> = <<a, b, c>>
    BY <1>1, ConcatEmptySeq
  <1> HIDE DEF S
  <1>3. <<a>> \o <<b>> = <<a, b>>
    <2> DEFINE s == <<a>> \o <<b>>
    <2> DEFINE t == <<a, b>>
    <2>1. s \in Seq(S) /\ Len(s) = 2 /\ s[1] = a /\ s[2] = b
      BY <1>1
    <2>2. t \in Seq(S) /\ Len(t) = 2 /\ t[1] = a /\ t[2] = b
      BY <1>1
    <2> HIDE DEF s, t
    <2>3. \A i \in 1 .. Len(s) : s[i] = t[i]
      BY <2>1, <2>2
    <2>4. s = t
      BY <2>1, <2>2, <2>3, SeqEqual
    <2> QED BY <2>4 DEF s, t
  <1>4. <<a>> \o <<b, c>> = <<a, b, c>>
    <2> DEFINE s == <<a>> \o <<b, c>>
    <2> DEFINE t == <<a, b, c>>
    <2>1. s \in Seq(S) /\ Len(s) = 3 /\ s[1] = a /\ s[2] = b /\ s[3] = c
      BY <1>1
    <2>2. t \in Seq(S) /\ Len(t) = 3 /\ t[1] = a /\ t[2] = b /\ t[3] = c
      BY <1>1
    <2> HIDE DEF s, t
    <2>3. \A i \in 1 .. Len(s) : s[i] = t[i]
      BY <2>1, <2>2
    <2>4. s = t
      BY <2>1, <2>2, <2>3, SeqEqual
    <2> QED BY <2>4 DEF s, t
  <1>5. <<a>> \o <<b, c, d>> = <<a, b, c, d>>
    <2> DEFINE s == <<a>> \o <<b, c, d>>
    <2> DEFINE t == <<a, b, c, d>>
    <2>1. s \in Seq(S) /\ Len(s) = 4 /\ s[1] = a /\ s[2] = b /\ s[3] = c /\ s[4] = d
      BY <1>1
    <2>2. t \in Seq(S) /\ Len(t) = 4 /\ t[1] = a /\ t[2] = b /\ t[3] = c /\ t[4] = d
      BY <1>1
    <2> HIDE DEF s, t
    <2>3. \A i \in 1 .. Len(s) : s[i] = t[i]
      BY <2>1, <2>2
    <2>4. s = t
      BY <2>1, <2>2, <2>3, SeqEqual
    <2> QED BY <2>4 DEF s, t
  <1> QED BY <1>2, <1>3, <1>4, <1>5

\* What a number under a thousand is said with, and that it is read as itself.
LEMMA SmallReadBack ==
  ASSUME NEW n \in Nat, n < 1000
  PROVE  /\ SayUnderThousand(n) \in Seq(Small \X Nat \cup {Y})
         /\ Words(SayUnderThousand(n)) # {}
         /\ _parse_under_thousand(SayUnderThousand(n)) = n
  <1> DEFINE ts == SayUnderThousand(n)
             tens == n % 100
             unit == n % 10
             h == _HUNDREDS(n - tens)
             SmallSeq == Seq(Small \X Nat \cup {Y})
  <1> DEFINE front == IF n >= 100 THEN <<_HUNDREDS(n - tens)>> ELSE <<>>
             back == IF n = 0 THEN <<_UNITS(0)>> ELSE IF tens = 0 THEN <<>>
                     ELSE IF tens < 10 THEN <<_UNITS(tens)>> ELSE IF tens < 30 THEN <<_TEENS(tens)>>
                     ELSE <<_TENS(tens - unit)>> \o (IF unit = 0 THEN <<>> ELSE <<Y, _UNITS(unit)>>)
  <1> SUFFICES ts \in SmallSeq /\ Words(ts) # {} /\ _parse_under_thousand(ts) = n
    OBVIOUS
  <1>0. ts = front \o back
    BY DEF SayUnderThousand
  <1>1. tens \in 0 .. 99 /\ unit \in 0 .. 9 /\ tens <= n
    OBVIOUS
  <1>2. n < 100 => n = tens
    OBVIOUS
  <1>3. tens >= 10 => unit <= tens
    BY <1>1
  <1>4. \A k \in Nat : /\ _UNITS(k) \in Small \X Nat /\ _TEENS(k) \in Small \X Nat
                       /\ _TENS(k) \in Small \X Nat /\ _HUNDREDS(k) \in Small \X Nat
    BY DEF _UNITS, _TEENS, _TENS, _HUNDREDS, Small
  <1>5. \A k \in Nat : _UNITS(k)[2] = k /\ _TEENS(k)[2] = k /\ _TENS(k)[2] = k /\ _HUNDREDS(k)[2] = k
    BY DEF _UNITS, _TEENS, _TENS, _HUNDREDS
  <1>6. \A j, k \in Nat : /\ Rank[_UNITS(k)[1]] < Rank[_HUNDREDS(j)[1]]
                          /\ Rank[_TEENS(k)[1]] < Rank[_HUNDREDS(j)[1]]
                          /\ Rank[_TENS(k)[1]] < Rank[_HUNDREDS(j)[1]]
                          /\ Rank[_UNITS(k)[1]] < Rank[_TENS(j)[1]]
    BY RankIs DEF _UNITS, _TEENS, _TENS, _HUNDREDS
  <1>7. n - tens \in Nat /\ (tens >= 10 => tens - unit \in Nat)
    BY <1>1, <1>3
  \* A sentence of one word, of two, of two with an "y", of all.
  <1>8. ASSUME NEW a \in Small \X Nat, ts = <<a>>, a[2] = n
        PROVE  ts \in SmallSeq /\ Words(ts) # {} /\ _parse_under_thousand(ts) = n
    <2> HIDE DEF ts
    <2> QED BY <1>8, ReadOne
  <1>9. ASSUME NEW a \in Small \X Nat, NEW b \in Small \X Nat, Rank[b[1]] < Rank[a[1]],
               ts = <<a, b>> \/ ts = <<a, Y, b>>, a[2] + b[2] = n
        PROVE  ts \in SmallSeq /\ Words(ts) # {} /\ _parse_under_thousand(ts) = n
    <2>1. CASE ts = <<a, b>>
      <3>1. DOMAIN ts = 1 .. 2 /\ ts[1] = a /\ ts[2] = b /\ ts \in SmallSeq
        <4> HIDE DEF ts
        <4> QED BY <2>1
      <3> DEFINE last == 2
      <3>2. /\ last \in Nat /\ last > 1 /\ DOMAIN ts = 1 .. last
            /\ ts[1] = a /\ ts[last] = b /\ \A i \in 2 .. last - 1 : ts[i] = Y
        BY <3>1
      <3> HIDE DEF ts, SmallSeq, last
      <3>3. _parse_under_thousand(ts) = a[2] + b[2] /\ Words(ts) # {}
        BY <3>2, <1>9, ReadTwo
      <3> QED BY <3>1, <3>3, <1>9
    <2>2. CASE ts = <<a, Y, b>>
      <3>1. DOMAIN ts = 1 .. 3 /\ ts[1] = a /\ ts[2] = Y /\ ts[3] = b /\ ts \in SmallSeq
        <4> HIDE DEF ts
        <4> QED BY <2>2
      <3> DEFINE last == 3
      <3>3. /\ last \in Nat /\ last > 1 /\ DOMAIN ts = 1 .. last
            /\ ts[1] = a /\ ts[last] = b /\ \A i \in 2 .. last - 1 : ts[i] = Y
        BY <3>1
      <3> HIDE DEF ts, SmallSeq, last
      <3>4. _parse_under_thousand(ts) = a[2] + b[2] /\ Words(ts) # {}
        BY <3>3, <1>9, ReadTwo
      <3> QED BY <3>1, <3>4, <1>9
    <2> QED BY <1>9, <2>1, <2>2
  <1>10. CASE n < 100 /\ (n = 0 \/ tens \in 1 .. 9)
    <2>1. ts = <<_UNITS(n)>>
      <3>1. front = <<>>
        BY <1>1, <1>10
      <3>2. back = <<_UNITS(n)>>
        BY <1>1, <1>2, <1>10
      <3> HIDE DEF ts, front, back, h, tens, unit
      <3> QED BY <1>0, <3>1, <3>2, PutTogether
    <2> HIDE DEF ts
    <2> QED BY <2>1, <1>4, <1>5, <1>8
  <1>11. CASE n < 100 /\ tens \in 10 .. 29
    <2>1. ts = <<_TEENS(n)>>
      <3>1. front = <<>>
        BY <1>1, <1>11
      <3>2. back = <<_TEENS(n)>>
        BY <1>1, <1>2, <1>11
      <3> HIDE DEF ts, front, back, h, tens, unit
      <3> QED BY <1>0, <3>1, <3>2, PutTogether
    <2> HIDE DEF ts
    <2> QED BY <2>1, <1>4, <1>5, <1>8
  <1>12. CASE n < 100 /\ tens >= 30 /\ unit = 0
    <2>1. ts = <<_TENS(n)>>
      <3>1. front = <<>>
        BY <1>1, <1>12
      <3>2. back = <<_TENS(n)>>
        <4>1. back = <<_TENS(tens)>> \o <<>>
          BY <1>1, <1>2, <1>12
        <4> QED BY <4>1, <1>2, <1>12
      <3> HIDE DEF ts, front, back, h, tens, unit
      <3> QED BY <1>0, <3>1, <3>2, PutTogether
    <2> HIDE DEF ts
    <2> QED BY <2>1, <1>4, <1>5, <1>8
  <1>13. CASE n < 100 /\ tens >= 30 /\ unit # 0
    <2>1. ts = <<_TENS(tens - unit), Y, _UNITS(unit)>>
      <3>1. front = <<>>
        BY <1>1, <1>13
      <3>2. back = <<_TENS(tens - unit), Y, _UNITS(unit)>>
        <4>1. <<_TENS(tens - unit)>> \o <<Y, _UNITS(unit)>> = <<_TENS(tens - unit), Y, _UNITS(unit)>>
          <5> HIDE DEF ts, front, back, tens, unit, h
          <5> QED BY PutTogether
        <4> QED BY <4>1, <1>1, <1>2, <1>13
      <3> HIDE DEF ts, front, back, h, tens, unit
      <3> QED BY <1>0, <3>1, <3>2, PutTogether
    <2>2. tens - unit \in Nat /\ unit \in Nat
      BY <1>1, <1>7, <1>13
    <2>3. _TENS(tens - unit)[2] + _UNITS(unit)[2] = n
      BY <2>2, <1>5, <1>2, <1>13
    <2> HIDE DEF ts, tens, unit, SmallSeq
    <2> QED BY <2>1, <2>2, <2>3, <1>4, <1>6, <1>9
  <1>14. CASE n >= 100 /\ tens = 0
    <2>1. ts = <<_HUNDREDS(n)>>
      <3>1. front = <<h>>
        BY <1>1, <1>14
      <3>2. back = <<>>
        BY <1>1, <1>2, <1>14
      <3> HIDE DEF ts, front, back, h, tens, unit
      <3>3. h = _HUNDREDS(n)
        BY <1>14 DEF h
      <3>4. ts = <<h>>
        BY <1>0, <3>1, <3>2, PutTogether
      <3> QED BY <3>3, <3>4
    <2> HIDE DEF ts
    <2> QED BY <2>1, <1>4, <1>5, <1>8
  <1>15. CASE n >= 100 /\ tens \in 1 .. 9
    <2>1. ts = <<h, _UNITS(tens)>>
      <3>1. front = <<h>>
        BY <1>1, <1>15
      <3>2. back = <<_UNITS(tens)>>
        BY <1>1, <1>2, <1>15
      <3> HIDE DEF ts, front, back, h, tens, unit
      <3> QED BY <1>0, <3>1, <3>2, PutTogether
    <2>2. h[2] + _UNITS(tens)[2] = n
      BY <1>1, <1>5, <1>7
    <2>3. tens \in Nat /\ n - tens \in Nat
      BY <1>1, <1>7
    <2> HIDE DEF ts, tens, SmallSeq
    <2>4. h \in Small \X Nat
      BY <2>3, <1>4 DEF h
    <2> QED BY <2>1, <2>2, <2>3, <2>4, <1>4, <1>6, <1>9 DEF h
  <1>16. CASE n >= 100 /\ tens \in 10 .. 29
    <2>1. ts = <<h, _TEENS(tens)>>
      <3>1. front = <<h>>
        BY <1>1, <1>16
      <3>2. back = <<_TEENS(tens)>>
        BY <1>1, <1>2, <1>16
      <3> HIDE DEF ts, front, back, h, tens, unit
      <3> QED BY <1>0, <3>1, <3>2, PutTogether
    <2>2. h[2] + _TEENS(tens)[2] = n
      BY <1>1, <1>5, <1>7
    <2>3. tens \in Nat /\ n - tens \in Nat
      BY <1>1, <1>7
    <2> HIDE DEF ts, tens, SmallSeq
    <2>4. h \in Small \X Nat
      BY <2>3, <1>4 DEF h
    <2> QED BY <2>1, <2>2, <2>3, <2>4, <1>4, <1>6, <1>9 DEF h
  <1>17. CASE n >= 100 /\ tens >= 30 /\ unit = 0
    <2>1. ts = <<h, _TENS(tens)>>
      <3>1. front = <<h>>
        BY <1>1, <1>17
      <3>2. back = <<_TENS(tens)>>
        <4>1. back = <<_TENS(tens)>> \o <<>>
          BY <1>1, <1>2, <1>17
        <4> QED BY <4>1, <1>2, <1>17
      <3> HIDE DEF ts, front, back, h, tens, unit
      <3> QED BY <1>0, <3>1, <3>2, PutTogether
    <2>2. h[2] + _TENS(tens)[2] = n
      BY <1>1, <1>5, <1>7
    <2>3. tens \in Nat /\ n - tens \in Nat
      BY <1>1, <1>7
    <2> HIDE DEF ts, tens, SmallSeq
    <2>4. h \in Small \X Nat
      BY <2>3, <1>4 DEF h
    <2> QED BY <2>1, <2>2, <2>3, <2>4, <1>4, <1>6, <1>9 DEF h
  <1>18. CASE n >= 100 /\ tens >= 30 /\ unit # 0
    <2>1. ts = <<h, _TENS(tens - unit), Y, _UNITS(unit)>>
      <3>1. front = <<h>>
        BY <1>1, <1>18
      <3>2. back = <<_TENS(tens - unit), Y, _UNITS(unit)>>
        <4>1. <<_TENS(tens - unit)>> \o <<Y, _UNITS(unit)>> = <<_TENS(tens - unit), Y, _UNITS(unit)>>
          <5> HIDE DEF ts, front, back, tens, unit, h
          <5> QED BY PutTogether
        <4> QED BY <4>1, <1>1, <1>2, <1>18
      <3> HIDE DEF ts, front, back, h, tens, unit
      <3> QED BY <1>0, <3>1, <3>2, PutTogether
    <2>2. /\ n - tens \in Nat /\ tens - unit \in Nat /\ unit \in Nat
          /\ (n - tens) + (tens - unit) + unit = n
      BY <1>1, <1>7, <1>18
    <2>3. _parse_under_thousand(ts) = n /\ Words(ts) # {}
      <3> HIDE DEF ts, tens, unit
      <3> QED BY <2>1, <2>2, ReadThree DEF h
    <2>4. ts \in SmallSeq
      <3> HIDE DEF ts, tens, unit
      <3> QED BY <2>1, <2>2, <1>4 DEF h
    <2> QED BY <2>3, <2>4
  <1> HIDE DEF ts, tens, unit, h, SmallSeq
  <1> QED BY <1>1, <1>2, <1>10, <1>11, <1>12, <1>13, <1>14, <1>15, <1>16, <1>17, <1>18

\* A scale splits what is said at the first place it stands.
Splits(ts, before, scale, after) ==
  /\ scale \in Token /\ before \in Seq(Token) /\ after \in Seq(Token)
  /\ \A i \in DOMAIN before : before[i] # scale
  /\ ts = (before \o <<scale>>) \o after

LEMMA ScaleSplits ==
  ASSUME NEW ts, NEW before, NEW scale, NEW after, Splits(ts, before, scale, after)
  PROVE  /\ ts \in Seq(Token) /\ Contains(ts, scale)
         /\ SubSeq(ts, 1, FirstOf(ts, scale) - 1) = before
         /\ SubSeq(ts, FirstOf(ts, scale) + 1, Len(ts)) = after
  <1> USE DEF Splits
  <1> DEFINE n == Len(before)
             first == FirstOf(ts, scale)
             left == SubSeq(ts, 1, n)
             m == n + 2
             last == Len(ts)
             right == SubSeq(ts, m, last)
  <1>1. /\ ts \in Seq(Token) /\ n \in Nat /\ Len(after) \in Nat /\ Len(ts) = n + 1 + Len(after)
        /\ DOMAIN before = 1 .. n /\ DOMAIN ts = 1 .. Len(ts)
        /\ \A i \in 1 .. n : ts[i] = before[i]
        /\ ts[n + 1] = scale
        /\ \A i \in 1 .. Len(after) : ts[n + 1 + i] = after[i]
    <2> DEFINE b == before \o <<scale>>
    <2>1. <<scale>> \in Seq(Token) /\ Len(<<scale>>) = 1 /\ <<scale>>[1] = scale
      OBVIOUS
    <2>2. /\ b \in Seq(Token) /\ Len(b) = n + 1 /\ n \in Nat
          /\ \A i \in 1 .. n : b[i] = before[i]
          /\ b[n + 1] = scale
      BY <2>1, ConcatProperties
    <2> HIDE DEF b
    <2>3. ts = b \o after
      BY DEF b
    <2> QED BY <2>2, <2>3, ConcatProperties
  <1> HIDE DEF n
  <1>2. \A i \in 1 .. n : ts[i] # scale
    BY <1>1
  <1>3. n + 1 \in DOMAIN ts /\ ts[n + 1] = scale /\ \A j \in 1 .. n : ts[j] # scale
    BY <1>1, <1>2
  <1>4. first = n + 1
    <2>1. first \in DOMAIN ts /\ ts[first] = scale /\ \A j \in 1 .. first - 1 : ts[j] # scale
      <3> DEFINE place == n + 1
      <3>1. place \in DOMAIN ts /\ ts[place] = scale /\ \A j \in 1 .. place - 1 : ts[j] # scale
        <4>1. place - 1 = n
          BY <1>1
        <4> QED BY <4>1, <1>3
      <3> HIDE DEF place
      <3>2. \E i \in DOMAIN ts : ts[i] = scale /\ \A j \in 1 .. i - 1 : ts[j] # scale
        BY <3>1
      <3> QED BY <3>2 DEF FirstOf
    <2> HIDE DEF first
    <2>2. first \in Nat /\ ~(first <= n)
      BY <2>1, <1>1, <1>2
    <2>3. ~(first > n + 1)
      <3> SUFFICES ASSUME first > n + 1 PROVE FALSE
        OBVIOUS
      <3>1. n + 1 \in 1 .. first - 1
        BY <2>2, <1>1
      <3> QED BY <3>1, <2>1, <1>1
    <2> QED BY <2>2, <2>3, <1>1
  <1>5. left = before
    <2>1. left \in Seq(Token) /\ Len(left) = n /\ \A i \in 1 .. n : left[i] = before[i]
      <3>1. \A i \in 1 .. n : ts[i] \in Token
        BY <1>1
      <3>2. /\ left \in Seq(Token) /\ Len(left) = IF 1 <= n THEN n - 1 + 1 ELSE 0
            /\ \A i \in 1 .. n - 1 + 1 : left[i] = ts[1 + i - 1]
        BY <1>1, <3>1, SubSeqProperties
      <3> HIDE DEF left
      <3> QED BY <1>1, <3>2
    <2> HIDE DEF left
    <2> QED BY <1>1, <2>1, SeqEqual DEF n
  <1>6. right = after
    <2>1. right \in Seq(Token) /\ Len(right) = Len(after) /\ \A i \in 1 .. Len(after) : right[i] = after[i]
      <3>1. m \in 1 .. Len(ts) + 1 /\ last = Len(ts) /\ ts \in Seq(Token)
        BY <1>1
      <3>2. /\ right \in Seq(Token) /\ Len(right) = last - m + 1
            /\ \A i \in 1 .. last - m + 1 : right[i] = ts[m + i - 1]
        <4> HIDE DEF m, last, Splits
        <4>1. right \in Seq(Token)
          BY <3>1
        <4>2. Len(right) = last - m + 1
          BY <3>1
        <4>3. \A i \in 1 .. last - m + 1 : right[i] = ts[m + i - 1]
          BY <3>1
        <4> QED BY <4>1, <4>2, <4>3
      <3>3. last - m + 1 = Len(after)
        BY <1>1
      <3>4. \A i \in 1 .. Len(after) : m + i - 1 = n + 1 + i
        BY <1>1
      <3> HIDE DEF right
      <3>5. Len(right) = Len(after)
        BY <1>1, <3>2, <3>3
      <3> QED BY <1>1, <3>2, <3>3, <3>4, <3>5
    <2> HIDE DEF right
    <2> QED BY <1>1, <2>1, SeqEqual
  <1>7. Contains(ts, scale)
    BY <1>1, <1>3 DEF Contains
  <1> HIDE DEF first, left, right
  <1>8. first - 1 = n /\ first + 1 = n + 2
    BY <1>1, <1>4
  <1> QED BY <1>1, <1>5, <1>6, <1>7, <1>8 DEF first, left, right

\* Thousands, and what is left of them.
LEMMA ThousandsRead ==
  ASSUME NEW ts, NEW before, NEW after, Splits(ts, before, MIL, after),
         NEW many \in Nat, NEW rest \in Nat,
         IF Words(before) = {} THEN many = 1 ELSE _parse_under_thousand(before) = many,
         IF Words(after) = {} THEN rest = 0 ELSE _parse_under_thousand(after) = rest
  PROVE  _parse_under_million(ts) = many * MIL[2] + rest
  <1>1. /\ Contains(ts, MIL)
        /\ SubSeq(ts, 1, FirstOf(ts, MIL) - 1) = before
        /\ SubSeq(ts, FirstOf(ts, MIL) + 1, Len(ts)) = after
    BY ScaleSplits
  <1>2. many # NoNumber /\ rest # NoNumber
    BY DEF NoNumber
  <1> QED BY <1>1, <1>2 DEF _parse_under_million, Scaled

LEMMA MillionsRead ==
  ASSUME NEW ts, NEW before, NEW after, Splits(ts, before, MILLON, after),
         NEW many \in Nat, NEW rest \in Nat,
         IF Words(before) = {} THEN many = 1 ELSE _parse_under_million(before) = many,
         IF Words(after) = {} THEN rest = 0 ELSE _parse_under_million(after) = rest
  PROVE  parse_number_words(ts) = many * MILLON[2] + rest
  <1>1. /\ Contains(ts, MILLON)
        /\ SubSeq(ts, 1, FirstOf(ts, MILLON) - 1) = before
        /\ SubSeq(ts, FirstOf(ts, MILLON) + 1, Len(ts)) = after
    BY ScaleSplits
  <1>2. many # NoNumber /\ rest # NoNumber
    BY DEF NoNumber
  <1> QED BY <1>1, <1>2 DEF parse_number_words, Scaled

LEMMA ScalesAre ==
  /\ MIL[2] = 1000 /\ MILLON[2] = 1000 * 1000 /\ MIL # MILLON /\ Words(<<>>) = {}
  /\ MIL \in Token /\ MILLON \in Token /\ MILLON # Y /\ MIL # Y
  /\ MIL \notin Small \X Nat /\ MILLON \notin Small \X Nat
  <1>1. MIL[1] = "mil" /\ MILLON[1] = "millon" /\ Y[1] = "y"
    BY SMT DEF MIL, MILLON, Y
  <1>2. MIL[2] = 1000 /\ MILLON[2] = 1000 * 1000
    BY SMT DEF MIL, MILLON
  <1>3. Words(<<>>) = {}
    BY DEF Words
  <1> QED BY <1>1, <1>2, <1>3 DEF Token, Small

\* What is under a million is read as itself, and nobody says "millon" in it.
LEMMA ThousandsReadBack ==
  ASSUME NEW n \in Nat, n < 1000 * 1000
  PROVE  /\ SayUnderMillion(n) \in Seq(Token \ {MILLON})
         /\ Words(SayUnderMillion(n)) # {}
         /\ _parse_under_million(SayUnderMillion(n)) = n
  <1> DEFINE ts == SayUnderMillion(n)
             many == n \div 1000
             left == n % 1000
             front == IF many = 1 THEN <<>> ELSE SayUnderThousand(many)
             back == IF many > 0 /\ left = 0 THEN <<>> ELSE SayUnderThousand(left)
             head == IF many = 0 THEN <<>> ELSE front \o <<MIL>>
             Small0 == Small \X Nat \cup {Y}
             Below == Token \ {MILLON}
  <1> SUFFICES ts \in Seq(Below) /\ Words(ts) # {} /\ _parse_under_million(ts) = n
    OBVIOUS
  <1>1. many \in Nat /\ many < 1000 /\ left \in Nat /\ left < 1000 /\ n = many * 1000 + left
    OBVIOUS
  <1>2. ts = head \o back
    BY ScalesAre DEF SayUnderMillion, SayScale
  <1>3. \A k \in Nat : k < 1000 =>
          /\ SayUnderThousand(k) \in Seq(Small0) /\ Words(SayUnderThousand(k)) # {}
          /\ _parse_under_thousand(SayUnderThousand(k)) = k
    BY SmallReadBack
  <1>4. /\ \A s \in Seq(Small0) : s \in Seq(Below)
        /\ \A s \in Seq(Small0) : \A i \in DOMAIN s : s[i] # MIL
        /\ <<>> \in Seq(Small0) /\ MIL \in Below
    <2>1. Small0 \subseteq Below /\ MIL \notin Small0 /\ MIL \in Below
      BY ScalesAre DEF Token
    <2> HIDE DEF Small0, Below
    <2> QED BY <2>1
  <1> HIDE DEF ts, many, left, front, back, head, Small0
  <1>5. CASE many = 0
    <2>1. back = SayUnderThousand(n) /\ left = n
      BY <1>1, <1>5 DEF back
    <2>2. back \in Seq(Small0) /\ Words(back) # {} /\ _parse_under_thousand(back) = n
      BY <1>1, <1>3, <2>1
    <2>3. ts = back
      BY <1>2, <1>5, <2>2, ConcatEmptySeq DEF head
    <2>4. ~Contains(ts, MIL)
      BY <2>2, <2>3, <1>4 DEF Contains
    <2>5. _parse_under_million(ts) = _parse_under_thousand(ts)
      BY <2>4 DEF _parse_under_million, Scaled
    <2> QED BY <2>2, <2>3, <2>5, <1>4
  <1>6. CASE many > 0
    <2>1. front \in Seq(Small0) /\ IF Words(front) = {} THEN many = 1 ELSE _parse_under_thousand(front) = many
      BY <1>1, <1>3, <1>4, ScalesAre DEF front
    <2>2. back \in Seq(Small0) /\ IF Words(back) = {} THEN left = 0 ELSE _parse_under_thousand(back) = left
      BY <1>1, <1>3, <1>4, <1>6, ScalesAre DEF back
    <2>3. ts = (front \o <<MIL>>) \o back
      <3>1. head = front \o <<MIL>>
        BY <1>1, <1>6 DEF head
      <3> QED BY <3>1, <1>2
    <2>4. front \in Seq(Token) /\ back \in Seq(Token) /\ \A i \in DOMAIN front : front[i] # MIL
      <3>1. \A s \in Seq(Below) : s \in Seq(Token)
        OBVIOUS
      <3> QED BY <3>1, <2>1, <2>2, <1>4
    <2>5. Splits(ts, front, MIL, back)
      BY <2>3, <2>4, ScalesAre DEF Splits
    <2>6. _parse_under_million(ts) = n
      <3>1. many \in Nat /\ left \in Nat /\ many * MIL[2] + left = n
        BY <1>1, ScalesAre
      <3> QED BY <3>1, <2>1, <2>2, <2>5, ThousandsRead
    <2>7. ts \in Seq(Below) /\ Words(ts) # {}
      <3> HIDE DEF Below
      <3>1. front \in Seq(Below) /\ back \in Seq(Below) /\ <<MIL>> \in Seq(Below)
        BY <2>1, <2>2, <1>4
      <3>2. ts \in Seq(Below)
        BY <3>1, <2>3, ConcatProperties
      <3>3. Contains(ts, MIL)
        BY <2>5, ScaleSplits
      <3>4. Words(ts) # {}
        BY <3>2, <3>3, ScalesAre DEF Contains, Words
      <3> QED BY <3>2, <3>4
    <2> QED BY <2>6, <2>7
  <1> QED BY <1>1, <1>5, <1>6

\* Every number below a thousand million, said as Spanish says it, is read as
\* itself: scale within scale, tens joined to units by an "y", "mil" with nothing
\* before it (parse_number_words, "Supports 0 through 999999999").
THEOREM NumbersReadBack ==
  \A n \in Nat : n < 1000 * 1000 * 1000 => parse_number_words(SayNumber(n)) = n
  <1> SUFFICES ASSUME NEW n \in Nat, n < 1000 * 1000 * 1000
               PROVE  parse_number_words(SayNumber(n)) = n
    OBVIOUS
  <1> DEFINE ts == SayNumber(n)
             scale == MILLON[2]
             many == n \div scale
             left == n % scale
             front == SayUnderMillion(many)
             back == IF many > 0 /\ left = 0 THEN <<>> ELSE SayUnderMillion(left)
             head == IF many = 0 THEN <<>> ELSE front \o <<MILLON>>
             Below == Token \ {MILLON}
  <1> SUFFICES parse_number_words(ts) = n
    OBVIOUS
  <1>1. many \in Nat /\ many < 1000 /\ left \in Nat /\ left < 1000 * 1000 /\ n = many * MILLON[2] + left
    <2> HIDE DEF scale
    <2>1. scale = 1000 * 1000
      BY ScalesAre DEF scale
    <2>2. many \in Nat /\ many < 1000 /\ left \in Nat /\ left < 1000 * 1000 /\ n = many * (1000 * 1000) + left
      BY <2>1, SMT
    <2> QED BY <2>1, <2>2 DEF scale
  <1>2. ts = head \o back
    <2> DEFINE said_so == IF many = 1 /\ MILLON = MIL THEN <<>> ELSE SayUnderMillion(many)
    <2>1. ts = (IF many = 0 THEN <<>> ELSE said_so \o <<MILLON>>) \o back
      BY DEF SayNumber, SayScale
    <2>2. said_so = front
      BY ScalesAre
    <2> HIDE DEF ts, many, front, back, said_so
    <2> QED BY <2>1, <2>2 DEF head
  <1>3. \A k \in Nat : k < 1000 * 1000 =>
          /\ SayUnderMillion(k) \in Seq(Below) /\ Words(SayUnderMillion(k)) # {}
          /\ _parse_under_million(SayUnderMillion(k)) = k
    BY ThousandsReadBack
  <1>4. <<>> \in Seq(Below) /\ \A s \in Seq(Below) : s \in Seq(Token) /\ \A i \in DOMAIN s : s[i] # MILLON
    OBVIOUS
  <1> HIDE DEF ts, scale, many, left, front, back, head, Below
  <1>5. CASE many = 0
    <2>1. back = SayUnderMillion(left) /\ left = n
      BY <1>1, <1>5, ScalesAre DEF back
    <2>2. back \in Seq(Below) /\ _parse_under_million(back) = n
      BY <1>1, <1>3, <2>1
    <2>3. ts = back
      BY <1>2, <1>5, <2>2, ConcatEmptySeq DEF head
    <2>4. ~Contains(ts, MILLON)
      BY <2>2, <2>3, <1>4 DEF Contains
    <2>5. parse_number_words(ts) = _parse_under_million(ts)
      BY <2>4 DEF parse_number_words, Scaled
    <2> QED BY <2>2, <2>3, <2>5
  <1>6. CASE many > 0
    <2>1. front \in Seq(Below) /\ IF Words(front) = {} THEN many = 1 ELSE _parse_under_million(front) = many
      BY <1>1, <1>3 DEF front
    <2>2. back \in Seq(Below) /\ IF Words(back) = {} THEN left = 0 ELSE _parse_under_million(back) = left
      BY <1>1, <1>3, <1>4, <1>6, ScalesAre DEF back
    <2>3. ts = (front \o <<MILLON>>) \o back
      <3>1. head = front \o <<MILLON>>
        BY <1>1, <1>6 DEF head
      <3> QED BY <3>1, <1>2
    <2>4. Splits(ts, front, MILLON, back)
      BY <2>1, <2>2, <2>3, <1>4, ScalesAre DEF Splits
    <2>5. many * MILLON[2] + left = n
      BY <1>1
    <2> QED BY <1>1, <2>1, <2>2, <2>4, <2>5, MillionsRead
  <1> QED BY <1>1, <1>5, <1>6
=============================================================================
