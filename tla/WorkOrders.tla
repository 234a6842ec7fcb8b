----------------------------- MODULE WorkOrders -----------------------------
(***************************************************************************)
(* A work order from the planner's desk to the supervisor's signature, as  *)
(* the HTTP handlers of the backend move it.                               *)
(*                                                                         *)
(* Every handler runs in one database session: it reads rows, decides in   *)
(* Python and writes at its flush, under PostgreSQL's Read Committed and   *)
(* with no row locked and no version column checked by the ORM.  A handler *)
(* is therefore a read step, which copies rows into the session's txn      *)
(* record, and a commit step, which writes the columns it changed over     *)
(* whatever is stored by then.  Sessions is the set of sessions that may   *)
(* be open at once: with one the handlers run one after another.           *)
(*                                                                         *)
(* Handlers: assign (workorders/service.py), transfer_ownership, the       *)
(* phone's pull and push (sync/service.py, sync/operations.py), and the    *)
(* supervisor's decide (review/service.py).                                *)
(***************************************************************************)
EXTENDS Naturals, Sequences, OrderLifecycle

CONSTANTS
  Orders,      \* work orders of one business unit
  Devices,     \* enrolled phones of that unit
  Assignees,   \* the crews and technicians an order can be assigned to
  AnswersFor,  \* [Devices -> SUBSET Assignees]: a phone's own person and crew
  Targets,     \* what a planner may name: who does the work, on which phone
  Planners,    \* possible owners of an order
  Sessions,    \* database sessions that may be open at the same time
  None,
  MaxVersion,  \* bound: an order's version
  MaxCustody   \* bound: custody rows of an order

ASSUME DevicesAnswer == AnswersFor \in [Devices -> SUBSET Assignees]
ASSUME NoneIsNobody  == None \notin Devices \cup Assignees
ASSUME TargetsNamed  == Targets \subseteq Assignees \X (Devices \cup {None})

VARIABLES
  order,       \* work_order rows
  custody,     \* device_custody rows of each order, in the order they commit
  response,    \* form_response row of each order
  milestones,  \* work_order_milestone rows of each order
  handed,      \* phones each order was ever delivered to
  arrived,     \* phones whose sync ledger names each order
  txn          \* what each open session has read and not yet written

vars == <<order, custody, response, milestones, handed, arrived, txn>>

-----------------------------------------------------------------------------
(* Rows *)

OrderRow ==
  [state: WorkOrderState, version: Nat \ {0}, assignee: Assignees \cup {None},
   planner: Planners]

CustodyRow ==
  [device: Devices \cup {None}, assignee: Assignees, open: BOOLEAN,
   unsynced: BOOLEAN]

ResponseRow == [state: ResponseState, by: Devices \cup {None}]

NoResponse == [state |-> "none", by |-> None]

\* An open session, by the handler it runs.  `seen` rows are as read; `row`
\* and `draft` are the session's own copies, to be written at its commit.
AssignTxn ==
  [kind: {"assign"}, order: Orders, seen: OrderRow, to: Assignees,
   device: Devices \cup {None}, expected: Nat,
   holder: Nat, checked: BOOLEAN]
TransferTxn == [kind: {"transfer"}, order: Orders, seen: OrderRow, to: Planners]
PushTxn ==
  [kind: {"push"}, order: Orders, device: Devices, loaded: BOOLEAN,
   seen: OrderRow, row: OrderRow, marks: SUBSET Milestone,
   read: ResponseRow, draft: ResponseRow]
ReviewTxn ==
  [kind: {"review"}, order: Orders, seen: OrderRow, read: ResponseRow,
   decision: {"pending", "approved", "returned", "cancelled"}]
Idle == [kind |-> "idle"]

Txn == AssignTxn \cup TransferTxn \cup PushTxn \cup ReviewTxn \cup {Idle}

\* An UPDATE sets the columns the session changed and leaves the rest as stored.
Written(seen, row, stored) ==
  [column \in DOMAIN stored |->
     IF row[column] = seen[column] THEN stored[column] ELSE row[column]]

\* A row that another session changed and has not committed is locked: an
\* UPDATE of it waits until that session ends.  Only a push keeps rows so.
RowFree(s, o) ==
  \A r \in Sessions \ {s} :
    (txn[r].kind = "push" /\ txn[r].order = o) => txn[r].row = txn[r].seen
ResponseFree(s, o) ==
  \A r \in Sessions \ {s} :
    (txn[r].kind = "push" /\ txn[r].order = o) => txn[r].draft = txn[r].read

OpenRows(rows) == {i \in DOMAIN rows : rows[i].open}

\* Whether the order belongs on the phone right now (`_reaches`).
Reaches(d, o) ==
  /\ order[o].state \in SYNCABLE_STATES
  /\ \/ \E i \in OpenRows(custody[o]) : custody[o][i].device = d
     \/ order[o].assignee \in AnswersFor[d]

-----------------------------------------------------------------------------
\* Orders as creation leaves them: planned when a planner owns them, a draft
\* when they came from another system without one.
Init ==
  /\ order \in [Orders -> [state: {"draft", "planned"}, version: {1},
                           assignee: {None}, planner: Planners]]
  /\ custody = [o \in Orders |-> <<>>]
  /\ response = [o \in Orders |-> NoResponse]
  /\ milestones = [o \in Orders |-> {}]
  /\ handed = [o \in Orders |-> {}]
  /\ arrived = [o \in Orders |-> {}]
  /\ txn = [s \in Sessions |-> Idle]

-----------------------------------------------------------------------------
(* Assignment *)

\* Mutant: the version the request names is not compared.
AnyVersion(expected, row) == TRUE

\* `expected_version`: the version the planner was looking at, 0 when not given.
CurrentFor(expected, row) == expected # 0 => expected = row.version

\* The handler reads the order and refuses a stale version or a state that
\* cannot be assigned.  The lasso of the map (`assign_many`) names no version.
AssignBegin(s, o) ==
  /\ txn[s] = Idle
  /\ order[o].state \in Assignable
  /\ \E target \in Targets, expected \in 0 .. MaxVersion :
       /\ CurrentFor(expected, order[o])
       /\ txn' = [txn EXCEPT ![s] =
            [kind |-> "assign", order |-> o, seen |-> order[o],
             to |-> target[1], device |-> target[2], expected |-> expected,
             holder |-> 0, checked |-> FALSE]]
  /\ UNCHANGED <<order, custody, response, milestones, handed, arrived>>

\* `current_custody`: whichever open row the query returns, 0 when none.
AssignReadCustody(s) ==
  LET t == txn[s] IN
  /\ t.kind = "assign"
  /\ ~t.checked
  /\ \E i \in 0 .. Len(custody[t.order]) :
       /\ IF i = 0 THEN OpenRows(custody[t.order]) = {}
                   ELSE i \in OpenRows(custody[t.order])
       /\ txn' = [txn EXCEPT ![s] = [t EXCEPT !.holder = i, !.checked = TRUE]]
  /\ UNCHANGED <<order, custody, response, milestones, handed, arrived>>

\* The row read is closed, with the reason when one was given.
Closed(rows, i) == [rows EXCEPT ![i].open = FALSE]

\* `mark_pending_handover`: the phone's latest row is flagged.
Flagged(rows, d) ==
  LET mine == {j \in DOMAIN rows : rows[j].device = d} IN
  [j \in DOMAIN rows |->
     IF j \in mine /\ \A k \in mine : k <= j
       THEN [rows[j] EXCEPT !.unsynced = TRUE] ELSE rows[j]]

\* Mutant: nobody is ever found to owe anything.
NobodyOwes(d, o) == FALSE

\* `_owes_undelivered_data`: nothing from the phone ever reached the ledger.
Owes(d, o) == d \in Devices /\ d \notin arrived[o]

\* Mutant: the holder's row stays open.
NotHandedOver(o, i) == custody[o]

\* The custody chain once the holder that was read hands over.
HandedOver(o, i) ==
  IF i = 0 THEN custody[o]
  ELSE LET rows == Closed(custody[o], i)
           d    == custody[o][i].device
       IN  IF Owes(d, o) THEN Flagged(rows, d) ELSE rows

\* The chain with the new holder's row at its end.
Chain(o, t) ==
  Append(HandedOver(o, t.holder),
         [device |-> t.device, assignee |-> t.to, open |-> TRUE,
          unsynced |-> FALSE])

AssignCommit(s) ==
  LET t == txn[s]
      o == t.order
      row == [t.seen EXCEPT !.state = "assigned", !.assignee = t.to,
                            !.version = t.seen.version + 1]
  IN
  /\ t.kind = "assign"
  /\ t.checked
  /\ RowFree(s, o)
  /\ t.seen.version < MaxVersion
  /\ Len(custody[o]) < MaxCustody
  /\ order' = [order EXCEPT ![o] = Written(t.seen, row, @)]
  /\ custody' = [custody EXCEPT ![o] = Chain(o, t)]
  /\ txn' = [txn EXCEPT ![s] = Idle]
  /\ UNCHANGED <<response, milestones, handed, arrived>>

-----------------------------------------------------------------------------
(* Transfer of ownership between planners *)

TransferBegin(s, o) ==
  /\ txn[s] = Idle
  /\ \E to \in Planners \ {order[o].planner} :
       txn' = [txn EXCEPT ![s] =
         [kind |-> "transfer", order |-> o, seen |-> order[o], to |-> to]]
  /\ UNCHANGED <<order, custody, response, milestones, handed, arrived>>

TransferCommit(s) ==
  LET t == txn[s] IN
  /\ t.kind = "transfer"
  /\ RowFree(s, t.order)
  /\ t.seen.version < MaxVersion
  /\ order' = [order EXCEPT ![t.order] =
       Written(t.seen, [t.seen EXCEPT !.planner = t.to,
                                   !.version = t.seen.version + 1], @)]
  /\ txn' = [txn EXCEPT ![s] = Idle]
  /\ UNCHANGED <<custody, response, milestones, handed, arrived>>

-----------------------------------------------------------------------------
(* The phone *)

\* A pull hands the order over and records the delivery with it.
Pull(d, o) ==
  /\ Reaches(d, o)
  /\ handed' = [handed EXCEPT ![o] = @ \cup {d}]
  /\ UNCHANGED <<order, custody, response, milestones, arrived, txn>>

\* A phone pushes a batch about an order it was handed.  No handler asks
\* whether the phone still holds it.  The first operation reads its rows.
PushBegin(s, d, o) ==
  /\ txn[s] = Idle
  /\ d \in handed[o]
  /\ txn' = [txn EXCEPT ![s] =
       [kind |-> "push", order |-> o, device |-> d, loaded |-> TRUE,
        seen |-> order[o], row |-> order[o], marks |-> {},
        read |-> response[o], draft |-> response[o]]]
  /\ UNCHANGED <<order, custody, response, milestones, handed, arrived>>

\* The next operation of the batch reads again: a row this session already
\* changed is its own, any other is as stored now.
Reloaded(t) ==
  LET fresh == t.row = t.seen
      blank == t.draft = t.read
  IN [t EXCEPT !.loaded = TRUE,
               !.seen  = IF fresh THEN order[t.order] ELSE t.seen,
               !.row   = IF fresh THEN order[t.order] ELSE t.row,
               !.read  = IF blank THEN response[t.order] ELSE t.read,
               !.draft = IF blank THEN response[t.order] ELSE t.draft]

PushNext(s) ==
  /\ txn[s].kind = "push"
  /\ ~txn[s].loaded
  /\ txn' = [txn EXCEPT ![s] = Reloaded(txn[s])]
  /\ UNCHANGED <<order, custody, response, milestones, handed, arrived>>

\* Mutant: the state the order comes from is not looked at.
AnyDeviceTarget(state) == DEVICE_TRANSITIONS

\* Where a phone may take an order that is in this state.
DeviceTargets(state) == TRANSITIONS[state] \cap DEVICE_TRANSITIONS

\* `_apply_transition`: a state a phone may ask for, allowed from the row read.
PushTransition(s) ==
  LET t == txn[s] IN
  /\ t.kind = "push"
  /\ t.loaded
  /\ RowFree(s, t.order)
  /\ t.row.version < MaxVersion
  /\ \E target \in DeviceTargets(t.row.state) :
       txn' = [txn EXCEPT ![s] = [t EXCEPT
         !.loaded = FALSE,
         !.row = [t.row EXCEPT !.state = target, !.version = t.row.version + 1],
         !.marks = @ \cup MILESTONE_OF_STATE(target)]]
  /\ UNCHANGED <<order, custody, response, milestones, handed, arrived>>

AfterSave(state, submit) ==
  IF submit THEN "enviada" ELSE IF state = "none" THEN "borrador" ELSE state

\* `save_answers`: the draft is overwritten, and submitting closes it.
PushForm(s) ==
  LET t == txn[s] IN
  /\ t.kind = "push"
  /\ t.loaded
  /\ ResponseFree(s, t.order)
  /\ t.draft.state \in Editable
  /\ \E submit \in BOOLEAN :
       txn' = [txn EXCEPT ![s] = [t EXCEPT
         !.loaded = FALSE,
         !.draft = [state |-> AfterSave(t.draft.state, submit), by |-> t.device]]]
  /\ UNCHANGED <<order, custody, response, milestones, handed, arrived>>

\* A second first response for the order breaks uq_form_response_identity.
Collides(t) ==
  t.draft # t.read /\ t.read.state = "none" /\ response[t.order].state # "none"

\* The batch commits whole.  Whatever it applied or had rejected, the ledger
\* now holds an operation of this phone for the order.
PushCommit(s) ==
  LET t == txn[s]
      o == t.order
  IN
  /\ t.kind = "push"
  /\ ~Collides(t)
  /\ order' = IF t.row = t.seen THEN order
              ELSE [order EXCEPT ![o] =
                     [@ EXCEPT !.state = t.row.state, !.version = t.row.version]]
  /\ response' = [response EXCEPT ![o] = Written(t.read, t.draft, @)]
  /\ milestones' = [milestones EXCEPT ![o] = @ \cup t.marks]
  /\ arrived' = [arrived EXCEPT ![o] = @ \cup {t.device}]
  /\ txn' = [txn EXCEPT ![s] = Idle]
  /\ UNCHANGED <<custody, handed>>

-----------------------------------------------------------------------------
(* The supervisor *)

ReviewBegin(s, o) ==
  /\ txn[s] = Idle
  /\ order[o].state \in {"synced", "in_review"}
  /\ txn' = [txn EXCEPT ![s] =
       [kind |-> "review", order |-> o, seen |-> order[o],
        read |-> NoResponse, decision |-> "pending"]]
  /\ UNCHANGED <<order, custody, response, milestones, handed, arrived>>

\* `approval_blockers`, as far as it depends on the response row.  Photos,
\* unconfirmed AI values and norm breaches may stop any approval.
Approvable(row) == row.state \notin {"none", "borrador"}

ReviewRead(s) ==
  LET t == txn[s] IN
  /\ t.kind = "review"
  /\ t.decision = "pending"
  /\ \E decision \in {"approved", "returned", "cancelled"} :
       /\ decision = "approved" => Approvable(response[t.order])
       /\ txn' = [txn EXCEPT ![s] =
            [t EXCEPT !.read = response[t.order], !.decision = decision]]
  /\ UNCHANGED <<order, custody, response, milestones, handed, arrived>>

\* Mutant: approving leaves the response as submitted.
ResponseForgotten(row, decision) ==
  IF decision = "returned" /\ row.state # "none"
    THEN [row EXCEPT !.state = "devuelta"] ELSE row

\* Mutant: the decision is written where the response's state goes.
DecisionAsState(row, decision) ==
  IF row.state = "none" THEN row ELSE [row EXCEPT !.state = decision]

\* What a decision makes of the response.
Decided(row, decision) ==
  CASE row.state = "none"     -> row
    [] decision = "approved"  -> [row EXCEPT !.state = "aprobada"]
    [] decision = "returned"  -> [row EXCEPT !.state = "devuelta"]
    [] decision = "cancelled" -> row

\* A synced order passes through in_review on its way to the decision.
ReviewCommit(s) ==
  LET t == txn[s]
      o == t.order
      steps == IF t.seen.state = "synced" THEN 2 ELSE 1
  IN
  /\ t.kind = "review"
  /\ t.decision # "pending"
  /\ RowFree(s, o)
  /\ ResponseFree(s, o)
  /\ t.seen.version + steps <= MaxVersion
  /\ order' = [order EXCEPT ![o] =
       [@ EXCEPT !.state = t.decision, !.version = t.seen.version + steps]]
  /\ response' = [response EXCEPT ![o] =
       Written(t.read, Decided(t.read, t.decision), @)]
  /\ txn' = [txn EXCEPT ![s] = Idle]
  /\ UNCHANGED <<custody, milestones, handed, arrived>>

-----------------------------------------------------------------------------
\* An error, a lost connection or a killed process rolls the session back.
Rollback(s) ==
  /\ txn[s] # Idle
  /\ txn' = [txn EXCEPT ![s] = Idle]
  /\ UNCHANGED <<order, custody, response, milestones, handed, arrived>>

Next ==
  \/ \E s \in Sessions, o \in Orders :
       AssignBegin(s, o) \/ TransferBegin(s, o) \/ ReviewBegin(s, o)
  \/ \E s \in Sessions, d \in Devices, o \in Orders : PushBegin(s, d, o)
  \/ \E s \in Sessions :
       \/ AssignReadCustody(s) \/ AssignCommit(s)
       \/ TransferCommit(s)
       \/ PushNext(s) \/ PushTransition(s) \/ PushForm(s) \/ PushCommit(s)
       \/ ReviewRead(s) \/ ReviewCommit(s)
       \/ Rollback(s)
  \/ \E d \in Devices, o \in Orders : Pull(d, o)

Spec == Init /\ [][Next]_vars

-----------------------------------------------------------------------------
(* Properties *)

TypeOK ==
  /\ order \in [Orders -> OrderRow]
  /\ custody \in [Orders -> Seq(CustodyRow)]
  /\ response \in [Orders -> ResponseRow]
  /\ milestones \in [Orders -> SUBSET Milestone]
  /\ handed \in [Orders -> SUBSET Devices]
  /\ arrived \in [Orders -> SUBSET Devices]
  /\ txn \in [Sessions -> Txn]

(* What holds however the sessions interleave *)

\* An order that left the planner's desk always has somebody on record as
\* holding it: a reassignment that closes a row opens its own in the same
\* commit (`assign`), whatever another session did meanwhile.
HolderOnRecord ==
  \A o \in Orders :
    order[o].state \notin {"draft", "planned"} => OpenRows(custody[o]) # {}

\* RF-322: a phone that lost an order before anything of it reached the
\* server is flagged in the chain of custody, for a planner to see.
DebtShown ==
  \A o \in Orders : \A i \in DOMAIN custody[o] \ OpenRows(custody[o]) :
    custody[o][i].device \in Devices \ arrived[o] =>
      \E j \in DOMAIN custody[o] :
        custody[o][j].device = custody[o][i].device /\ custody[o][j].unsynced

\* The chain of custody accounts for every order, under any interleaving: who
\* holds it, and what a former holder may still owe.
CustodyAccounts == HolderOnRecord /\ DebtShown

\* RF-047: nothing reaches the office's side of the lifecycle without the
\* times at which its work started and finished.
WorkIsTimed ==
  \A o \in Orders :
    order[o].state \in {"closed_field", "synced", "in_review", "approved", "returned"}
      => {"inicio", "fin"} \subseteq milestones[o]

\* RF-324: the chain of custody only grows, a closed row stays closed, and a
\* row never changes who it names nor loses its warning.
CustodyAppendOnly ==
  [][\A o \in Orders : \A i \in DOMAIN custody[o] :
       LET was == custody[o][i]
           now == custody'[o][i]
       IN /\ i \in DOMAIN custody'[o]
          /\ now.device = was.device /\ now.assignee = was.assignee
          /\ now.open => was.open
          /\ was.unsynced => now.unsynced]_vars

-----------------------------------------------------------------------------
(* What the handlers keep when they run one after another *)

\* One holder at a time: reassignment closes the open row and opens a new one.
OneHolder ==
  \A o \in Orders : \A i, j \in OpenRows(custody[o]) : i = j

\* The order and its response are signed off together.
SettledTogether ==
  \A o \in Orders :
    order[o].state = "approved" <=> response[o].state = "aprobada"

\* Pairs of states joined by exactly n allowed transitions.
Path[n \in 0 .. MaxVersion] ==
  IF n = 0 THEN {<<a, a>> : a \in WorkOrderState}
  ELSE UNION {{p[1]} \X TRANSITIONS[p[2]] : p \in Path[n - 1]}

\* A state change follows the table, one version for every transition; a
\* change that keeps the state is an assignment or a transfer, one version.
StepsAllowed ==
  [][\A o \in Orders :
       LET n == order'[o].version - order[o].version IN
       order'[o] # order[o] =>
         /\ order'[o].version > order[o].version
         /\ \/ <<order[o].state, order'[o].state>> \in Path[n]
            \/ n = 1 /\ order'[o].state = order[o].state]_vars

\* RF-311: an assignment that names the version its planner saw is applied
\* to that version and to no later one.
OptimisticLock ==
  [][\A s \in Sessions :
       (txn[s].kind = "assign" /\ custody' # custody /\ txn'[s] = Idle)
         => (txn[s].expected # 0 =>
               txn[s].expected = order[txn[s].order].version)]_vars

\* A submitted response is no longer the device's to change: until the
\* supervisor returns it nobody rewrites it.
AnswersFrozen ==
  [][\A o \in Orders :
       response[o].state \in {"enviada", "aprobada"} =>
         /\ response'[o].by = response[o].by
         /\ response'[o].state \in {response[o].state, "aprobada", "devuelta"}]_vars

-----------------------------------------------------------------------------
(* What the repository's documents say and the code does not keep *)

\* Approval signs off a response its technician submitted, again after a return.
ReworkedBeforeApproval ==
  [][\A o \in Orders :
       response'[o].state = "aprobada" => response[o].state \in {"enviada", "aprobada"}]_vars
=============================================================================
