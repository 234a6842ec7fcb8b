-------------------------- MODULE WorkOrdersProofs --------------------------
(***************************************************************************)
(* What holds of WorkOrders for every set of orders, phones, planners and  *)
(* sessions, however the sessions interleave.                              *)
(***************************************************************************)
EXTENDS WorkOrders, SequenceTheorems, WellFoundedInduction, TLAPS

(* The commit of an UPDATE keeps the type of the row. *)
LEMMA WrittenOrder ==
  ASSUME NEW seen \in OrderRow, NEW row \in OrderRow, NEW stored \in OrderRow
  PROVE  /\ Written(seen, row, stored) \in OrderRow
         /\ Written(seen, row, stored).state \in {row.state, stored.state}
         /\ row.state = seen.state => Written(seen, row, stored).state = stored.state
  BY DEF Written, OrderRow

LEMMA WrittenResponse ==
  ASSUME NEW read \in ResponseRow, NEW draft \in ResponseRow, NEW stored \in ResponseRow
  PROVE  Written(read, draft, stored) \in ResponseRow
  BY DEF Written, ResponseRow

(* A session's record is of the kind its tag says. *)
LEMMA TxnKinds ==
  ASSUME NEW t \in Txn
  PROVE  /\ t.kind = "assign"   => t \in AssignTxn
         /\ t.kind = "transfer" => t \in TransferTxn
         /\ t.kind = "push"     => t \in PushTxn
         /\ t.kind = "review"   => t \in ReviewTxn
  BY DEF Txn, AssignTxn, TransferTxn, PushTxn, ReviewTxn, Idle

(* The table leads from states to states, and a phone's targets are among them. *)
LEMMA TargetsAreStates ==
  ASSUME NEW state \in WorkOrderState, NEW target \in DeviceTargets(state)
  PROVE  /\ target \in WorkOrderState
         /\ MILESTONE_OF_STATE(target) \subseteq Milestone
  BY DEF DeviceTargets, DEVICE_TRANSITIONS, WorkOrderState, MILESTONE_OF_STATE, Milestone

(* Closing or flagging a custody row leaves a custody row. *)
LEMMA RowsStayRows ==
  ASSUME NEW row \in CustodyRow
  PROVE  /\ [row EXCEPT !.open = FALSE] \in CustodyRow
         /\ [row EXCEPT !.unsynced = TRUE] \in CustodyRow
  BY Zenon DEF CustodyRow

LEMMA ClosedType ==
  ASSUME NEW rows \in Seq(CustodyRow), NEW i
  PROVE  Closed(rows, i) \in Seq(CustodyRow)
<1>1. CASE i \in 1 .. Len(rows)
  BY <1>1, RowsStayRows, ElementOfSeq, ExceptSeq DEF Closed
<1>2. CASE i \notin 1 .. Len(rows)
  BY <1>2, LenProperties DEF Closed
<1> QED BY <1>1, <1>2

LEMMA FlaggedType ==
  ASSUME NEW rows \in Seq(CustodyRow), NEW d
  PROVE  Flagged(rows, d) \in Seq(CustodyRow)
<1>1. \A j \in DOMAIN rows : Flagged(rows, d)[j] \in CustodyRow
  BY RowsStayRows, ElementOfSeq, LenProperties DEF Flagged
<1>2. Flagged(rows, d) \in [1 .. Len(rows) -> CustodyRow]
  BY <1>1, LenProperties DEF Flagged
<1> QED BY <1>2, LenProperties, SeqDef

(* The chain of custody stays a chain of rows when it is handed over. *)
LEMMA ChainType ==
  ASSUME TypeOK, NEW t \in AssignTxn
  PROVE  Chain(t.order, t) \in Seq(CustodyRow)
<1> DEFINE rows == custody[t.order]
           row == [device |-> t.device, assignee |-> t.to, open |-> TRUE,
                   unsynced |-> FALSE]
<1>1. rows \in Seq(CustodyRow)
  BY DEF TypeOK, AssignTxn
<1>2. HandedOver(t.order, t.holder) \in Seq(CustodyRow)
  BY <1>1, ClosedType, FlaggedType DEF HandedOver
<1>3. row \in CustodyRow
  BY DEF AssignTxn, CustodyRow
<1> QED BY <1>2, <1>3, AppendProperties DEF Chain

(* An operation that reads again keeps what its session changed. *)
LEMMA ReloadedFacts ==
  ASSUME TypeOK, NEW t \in PushTxn
  PROVE  LET x == Reloaded(t) IN
         /\ x \in PushTxn /\ x.order = t.order /\ x.marks = t.marks
         /\ \/ x.row = t.row /\ x.seen = t.seen
            \/ t.row = t.seen /\ x.row = order[t.order] /\ x.seen = order[t.order]
<1> DEFINE fresh == t.row = t.seen
           blank == t.draft = t.read
           seen == IF fresh THEN order[t.order] ELSE t.seen
           row == IF fresh THEN order[t.order] ELSE t.row
           read == IF blank THEN response[t.order] ELSE t.read
           draft == IF blank THEN response[t.order] ELSE t.draft
<1>1. /\ seen \in OrderRow /\ row \in OrderRow
      /\ read \in ResponseRow /\ draft \in ResponseRow
  BY DEF PushTxn, TypeOK
<1>2. Reloaded(t) = [t EXCEPT !.loaded = TRUE, !.seen = seen, !.row = row,
                              !.read = read, !.draft = draft]
  BY DEF Reloaded
<1>3. /\ \/ row = t.row /\ seen = t.seen
         \/ t.row = t.seen /\ row = order[t.order] /\ seen = order[t.order]
  OBVIOUS
<1> HIDE DEF seen, row, read, draft
<1> QED BY <1>1, <1>2, <1>3 DEF PushTxn

-----------------------------------------------------------------------------
(* Every variable keeps its type: no handler, run beside any others, writes *)
(* a row the schema of the tables would not hold.                           *)
THEOREM TypeCorrect == Spec => []TypeOK
<1>1. Init => TypeOK
  BY EmptySeq DEF Init, TypeOK, OrderRow, WorkOrderState, NoResponse, ResponseRow,
       ResponseState, Txn, Idle
<1>2. TypeOK /\ [Next]_vars => TypeOK'
  <2> SUFFICES ASSUME TypeOK, [Next]_vars PROVE TypeOK'
    OBVIOUS
  <2> USE DEF TypeOK
  <2>a. \A s \in Sessions : txn[s] \in Txn
    OBVIOUS
  <2>b. ASSUME NEW s \in Sessions, NEW t \in Txn, txn' = [txn EXCEPT ![s] = t]
        PROVE  txn' \in [Sessions -> Txn]
    BY <2>b
  <2>c. Idle \in Txn
    BY DEF Txn
  <2>1. ASSUME NEW s \in Sessions, NEW o \in Orders, AssignBegin(s, o) PROVE TypeOK'
    <3>1. PICK target \in Targets, expected \in 0 .. MaxVersion :
            txn' = [txn EXCEPT ![s] =
              [kind |-> "assign", order |-> o, seen |-> order[o],
               to |-> target[1], device |-> target[2], expected |-> expected,
               holder |-> 0, checked |-> FALSE]]
      BY <2>1 DEF AssignBegin
    <3>2. target[1] \in Assignees /\ target[2] \in Devices \cup {None}
      BY TargetsNamed
    <3>3. expected \in Nat
      OBVIOUS
    <3>4. txn'[s] \in AssignTxn
      BY <3>1, <3>2, <3>3 DEF AssignTxn
    <3> QED BY <2>1, <3>1, <3>4 DEF AssignBegin, Txn
  <2>2. ASSUME NEW s \in Sessions, NEW o \in Orders, TransferBegin(s, o) PROVE TypeOK'
    <3>1. PICK to \in Planners : txn' = [txn EXCEPT ![s] =
            [kind |-> "transfer", order |-> o, seen |-> order[o], to |-> to]]
      BY <2>2 DEF TransferBegin
    <3>2. txn'[s] \in TransferTxn
      BY <3>1 DEF TransferTxn
    <3> QED BY <2>2, <3>1, <3>2 DEF TransferBegin, Txn
  <2>3. ASSUME NEW s \in Sessions, NEW o \in Orders, ReviewBegin(s, o) PROVE TypeOK'
    <3>1. txn'[s] \in ReviewTxn
      BY <2>3 DEF ReviewBegin, ReviewTxn, NoResponse, ResponseRow, ResponseState
    <3> QED BY <2>3, <3>1 DEF ReviewBegin, Txn
  <2>4. ASSUME NEW s \in Sessions, NEW d \in Devices, NEW o \in Orders, PushBegin(s, d, o)
        PROVE  TypeOK'
    <3>1. txn'[s] \in PushTxn
      BY <2>4 DEF PushBegin, PushTxn
    <3> QED BY <2>4, <3>1 DEF PushBegin, Txn
  <2>5. ASSUME NEW s \in Sessions, AssignReadCustody(s) PROVE TypeOK'
    <3> DEFINE t == txn[s]
    <3>1. t \in AssignTxn
      BY <2>a, <2>5, TxnKinds DEF AssignReadCustody
    <3>2. custody[t.order] \in Seq(CustodyRow)
      BY <3>1 DEF AssignTxn
    <3>3. PICK i \in 0 .. Len(custody[t.order]) :
            txn' = [txn EXCEPT ![s] = [t EXCEPT !.holder = i, !.checked = TRUE]]
      BY <2>5 DEF AssignReadCustody
    <3>4. i \in Nat
      BY <3>2, <3>3, LenProperties
    <3>5. [t EXCEPT !.holder = i, !.checked = TRUE] \in AssignTxn
      BY <3>1, <3>4 DEF AssignTxn
    <3> QED BY <2>5, <3>3, <3>5 DEF AssignReadCustody, Txn
  <2>6. ASSUME NEW s \in Sessions, AssignCommit(s) PROVE TypeOK'
    <3> DEFINE t == txn[s]
               row == [t.seen EXCEPT !.state = "assigned", !.assignee = t.to,
                                     !.version = t.seen.version + 1]
    <3>1. t \in AssignTxn
      BY <2>a, <2>6, TxnKinds DEF AssignCommit
    <3>n. t.seen.version + 1 \in Nat \ {0}
      BY <3>1 DEF AssignTxn, TransferTxn, OrderRow
    <3>2. row \in OrderRow /\ t.seen \in OrderRow /\ t.order \in Orders
      BY <3>1, <3>n DEF AssignTxn, OrderRow, WorkOrderState
    <3>3. Written(t.seen, row, order[t.order]) \in OrderRow
      BY <3>2, WrittenOrder
    <3>4. Chain(t.order, t) \in Seq(CustodyRow)
      BY <3>1, ChainType
    <3>5. order' \in [Orders -> OrderRow] /\ custody' \in [Orders -> Seq(CustodyRow)]
      BY <2>6, <3>3, <3>4 DEF AssignCommit
    <3> QED BY <2>6, <2>c, <3>5 DEF AssignCommit
  <2>7. ASSUME NEW s \in Sessions, TransferCommit(s) PROVE TypeOK'
    <3> DEFINE t == txn[s]
               row == [t.seen EXCEPT !.planner = t.to, !.version = t.seen.version + 1]
    <3>1. t \in TransferTxn
      BY <2>a, <2>7, TxnKinds DEF TransferCommit
    <3>n. t.seen.version + 1 \in Nat \ {0}
      BY <3>1 DEF AssignTxn, TransferTxn, OrderRow
    <3>2. row \in OrderRow /\ t.seen \in OrderRow /\ t.order \in Orders
      BY <3>1, <3>n DEF TransferTxn, OrderRow
    <3>3. Written(t.seen, row, order[t.order]) \in OrderRow
      BY <3>2, WrittenOrder
    <3> QED BY <2>7, <2>c, <3>3 DEF TransferCommit
  <2>8. ASSUME NEW s \in Sessions, PushNext(s) PROVE TypeOK'
    <3> DEFINE t == txn[s]
    <3>1. t \in PushTxn
      BY <2>a, <2>8, TxnKinds DEF PushNext
    <3>2. Reloaded(t) \in PushTxn
      BY <3>1, ReloadedFacts
    <3> QED BY <2>8, <3>2 DEF PushNext, Txn
  <2>9. ASSUME NEW s \in Sessions, PushTransition(s) PROVE TypeOK'
    <3> DEFINE t == txn[s]
    <3>1. t \in PushTxn
      BY <2>a, <2>9, TxnKinds DEF PushTransition
    <3>2. PICK target \in DeviceTargets(t.row.state) :
            txn' = [txn EXCEPT ![s] = [t EXCEPT
              !.loaded = FALSE,
              !.row = [t.row EXCEPT !.state = target, !.version = t.row.version + 1],
              !.marks = @ \cup MILESTONE_OF_STATE(target)]]
      BY <2>9 DEF PushTransition
    <3>3. target \in WorkOrderState /\ MILESTONE_OF_STATE(target) \subseteq Milestone
      BY <3>1, <3>2, TargetsAreStates DEF PushTxn, OrderRow
    <3>n. t.row.version + 1 \in Nat \ {0}
      BY <3>1 DEF PushTxn, OrderRow
    <3>4. [t.row EXCEPT !.state = target, !.version = t.row.version + 1] \in OrderRow
      BY <3>1, <3>3, <3>n DEF PushTxn, OrderRow
    <3>5. [t EXCEPT !.loaded = FALSE,
             !.row = [t.row EXCEPT !.state = target, !.version = t.row.version + 1],
             !.marks = @ \cup MILESTONE_OF_STATE(target)] \in PushTxn
      BY <3>1, <3>3, <3>4 DEF PushTxn
    <3> QED BY <2>9, <3>2, <3>5 DEF PushTransition, Txn
  <2>10. ASSUME NEW s \in Sessions, PushForm(s) PROVE TypeOK'
    <3> DEFINE t == txn[s]
    <3>1. t \in PushTxn
      BY <2>a, <2>10, TxnKinds DEF PushForm
    <3>2. PICK submit \in BOOLEAN :
            txn' = [txn EXCEPT ![s] = [t EXCEPT
              !.loaded = FALSE,
              !.draft = [state |-> AfterSave(t.draft.state, submit), by |-> t.device]]]
      BY <2>10 DEF PushForm
    <3>3. [state |-> AfterSave(t.draft.state, submit), by |-> t.device] \in ResponseRow
      BY <3>1 DEF PushTxn, ResponseRow, AfterSave, ResponseState
    <3>4. txn'[s] \in PushTxn
      BY <3>1, <3>2, <3>3 DEF PushTxn
    <3> QED BY <2>10, <3>2, <3>4 DEF PushForm, Txn
  <2>11. ASSUME NEW s \in Sessions, PushCommit(s) PROVE TypeOK'
    <3> DEFINE t == txn[s]
    <3>1. t \in PushTxn
      BY <2>a, <2>11, TxnKinds DEF PushCommit
    <3>2. Written(t.read, t.draft, response[t.order]) \in ResponseRow
      BY <3>1, WrittenResponse DEF PushTxn
    <3>3. [order[t.order] EXCEPT !.state = t.row.state, !.version = t.row.version] \in OrderRow
      BY <3>1 DEF PushTxn, OrderRow
    <3>4. order' \in [Orders -> OrderRow]
      BY <2>11, <3>1, <3>3 DEF PushCommit, PushTxn
    <3>5. /\ milestones' \in [Orders -> SUBSET Milestone]
          /\ arrived' \in [Orders -> SUBSET Devices]
      BY <2>11, <3>1 DEF PushCommit, PushTxn
    <3> QED BY <2>11, <2>c, <3>2, <3>4, <3>5 DEF PushCommit
  <2>12. ASSUME NEW s \in Sessions, ReviewRead(s) PROVE TypeOK'
    <3> DEFINE t == txn[s]
    <3>1. t \in ReviewTxn
      BY <2>a, <2>12, TxnKinds DEF ReviewRead
    <3>2. PICK decision \in {"approved", "returned", "cancelled"} :
            txn' = [txn EXCEPT ![s] =
              [t EXCEPT !.read = response[t.order], !.decision = decision]]
      BY <2>12 DEF ReviewRead
    <3>3. txn'[s] \in ReviewTxn
      BY <3>1, <3>2 DEF ReviewTxn
    <3> QED BY <2>12, <3>2, <3>3 DEF ReviewRead, Txn
  <2>13. ASSUME NEW s \in Sessions, ReviewCommit(s) PROVE TypeOK'
    <3> DEFINE t == txn[s]
    <3>1. t \in ReviewTxn /\ t.decision \in {"approved", "returned", "cancelled"}
      BY <2>a, <2>13, TxnKinds DEF ReviewCommit, ReviewTxn
    <3>2. Decided(t.read, t.decision) \in ResponseRow
      BY <3>1 DEF Decided, ReviewTxn, ResponseRow, ResponseState
    <3>3. Written(t.read, Decided(t.read, t.decision), response[t.order]) \in ResponseRow
      BY <3>1, <3>2, WrittenResponse DEF ReviewTxn
    <3>n. \A n \in {1, 2} : t.seen.version + n \in Nat \ {0}
      BY <3>1 DEF ReviewTxn, OrderRow
    <3>4. \A n \in {1, 2} : [order[t.order] EXCEPT !.state = t.decision,
                              !.version = t.seen.version + n] \in OrderRow
      BY <3>1, <3>n DEF ReviewTxn, OrderRow, WorkOrderState
    <3>5. order' \in [Orders -> OrderRow]
      BY <2>13, <3>1, <3>4 DEF ReviewCommit, ReviewTxn
    <3> QED BY <2>13, <2>c, <3>3, <3>5 DEF ReviewCommit
  <2>14. ASSUME NEW s \in Sessions, Rollback(s) PROVE TypeOK'
    BY <2>14, <2>c DEF Rollback
  <2>15. ASSUME NEW d \in Devices, NEW o \in Orders, Pull(d, o) PROVE TypeOK'
    BY <2>15 DEF Pull
  <2>16. CASE UNCHANGED vars
    BY <2>16 DEF vars
  <2> QED BY <2>1, <2>2, <2>3, <2>4, <2>5, <2>6, <2>7, <2>8, <2>9, <2>10, <2>11, <2>12,
             <2>13, <2>14, <2>15, <2>16 DEF Next
<1> QED BY <1>1, <1>2, PTL DEF Spec

-----------------------------------------------------------------------------
(* Nobody's order.  A session may write a state it derived from a row that  *)
(* is no longer stored, so the invariant speaks of what sessions carry: a   *)
(* session about to move an order read it when somebody held it, and an     *)
(* order once held has an open row ever after.                              *)

Held(o) == OpenRows(custody[o]) # {}
AtDesk == {"draft", "planned"}

CarriesHeld(t) ==
  /\ t.kind = "review" => Held(t.order)
  /\ t.kind = "push" /\ t.seen.state \notin AtDesk => Held(t.order)
  /\ t.kind = "push" /\ t.row # t.seen => Held(t.order)

HeldInv == HolderOnRecord /\ \A s \in Sessions : CarriesHeld(txn[s])

(* The row an assignment appends is open, whatever became of the others. *)
LEMMA ChainOpen ==
  ASSUME TypeOK, NEW t \in AssignTxn
  PROVE  OpenRows(Chain(t.order, t)) # {}
<1> DEFINE before == HandedOver(t.order, t.holder)
           row == [device |-> t.device, assignee |-> t.to, open |-> TRUE,
                   unsynced |-> FALSE]
<1>1. custody[t.order] \in Seq(CustodyRow)
  BY DEF TypeOK, AssignTxn
<1>2. before \in Seq(CustodyRow)
  BY <1>1, ClosedType, FlaggedType DEF HandedOver
<1>3. row \in CustodyRow
  BY DEF AssignTxn, CustodyRow
<1> HIDE DEF before
<1>4. /\ Len(before) + 1 \in DOMAIN Append(before, row)
      /\ Append(before, row)[Len(before) + 1] = row
  BY <1>2, <1>3, AppendProperties, LenProperties
<1> QED BY <1>4 DEF Chain, OpenRows, before

(* No transition a phone may ask for starts on the planner's desk. *)
LEMMA NoTargetFromDesk ==
  ASSUME NEW state \in AtDesk PROVE DeviceTargets(state) = {}
  BY DEF AtDesk, DeviceTargets, TRANSITIONS, DEVICE_TRANSITIONS

(* An order away from the desk always has somebody on record holding it,    *)
(* although two sessions may each close the row and each open another.      *)
THEOREM AlwaysHeld == Spec => []HolderOnRecord
<1>1. Init => HeldInv
  BY DEF Init, HeldInv, HolderOnRecord, CarriesHeld, Idle
<1>2. TypeOK /\ HeldInv /\ [Next]_vars => HeldInv'
  <2> SUFFICES ASSUME TypeOK, HeldInv, [Next]_vars PROVE HeldInv'
    OBVIOUS
  <2> USE DEF HeldInv, HolderOnRecord, Held, AtDesk
  <2>a. \A s \in Sessions : txn[s] \in Txn
    BY DEF TypeOK
  <2>b. \A s \in Sessions : CarriesHeld(txn[s])
    OBVIOUS
  <2>c. ASSUME NEW s \in Sessions, NEW x, txn' = [txn EXCEPT ![s] = x],
               \A o \in Orders : Held(o) => Held(o)', CarriesHeld(x)'
        PROVE  \A r \in Sessions : CarriesHeld(txn[r])'
    <3> SUFFICES ASSUME NEW r \in Sessions PROVE CarriesHeld(txn[r])'
      OBVIOUS
    <3>1. CASE r = s
      BY <2>c, <3>1 DEF TypeOK
    <3>2. CASE r # s
      <4>1. txn'[r] = txn[r] /\ CarriesHeld(txn[r])
        BY <2>b, <2>c, <3>2 DEF TypeOK
      <4>2. txn[r].kind \in {"push", "review"} => txn[r].order \in Orders
        BY <2>a, TxnKinds DEF PushTxn, ReviewTxn
      <4> QED BY <2>c, <4>1, <4>2 DEF CarriesHeld
    <3> QED BY <3>1, <3>2
  <2>d. CarriesHeld(Idle)'
    BY DEF CarriesHeld, Idle
  <2>1. ASSUME NEW s \in Sessions, NEW o \in Orders,
               AssignBegin(s, o) \/ TransferBegin(s, o)
        PROVE  HeldInv'
    <3>0. PICK x : txn' = [txn EXCEPT ![s] = x] /\ x = txn'[s]
      BY <2>1 DEF AssignBegin, TransferBegin, TypeOK
    <3>1. x.kind \in {"assign", "transfer"}
      <4>1. CASE AssignBegin(s, o)
        <5>1. PICK target \in Targets, expected \in 0 .. MaxVersion :
                txn' = [txn EXCEPT ![s] =
                  [kind |-> "assign", order |-> o, seen |-> order[o],
                   to |-> target[1], device |-> target[2], expected |-> expected,
                   holder |-> 0, checked |-> FALSE]]
          BY <4>1 DEF AssignBegin
        <5> QED BY <3>0, <5>1 DEF TypeOK
      <4>2. CASE TransferBegin(s, o)
        <5>1. PICK to \in Planners : txn' = [txn EXCEPT ![s] =
                [kind |-> "transfer", order |-> o, seen |-> order[o], to |-> to]]
          BY <4>2 DEF TransferBegin
        <5> QED BY <3>0, <5>1 DEF TypeOK
      <4> QED BY <2>1, <4>1, <4>2
    <3>2. CarriesHeld(x)'
      BY <3>1 DEF CarriesHeld
    <3> QED BY <2>1, <2>c, <3>0, <3>2 DEF AssignBegin, TransferBegin
  <2>2. ASSUME NEW s \in Sessions, NEW o \in Orders, ReviewBegin(s, o) PROVE HeldInv'
    <3>0. PICK x : txn' = [txn EXCEPT ![s] = x] /\ x = txn'[s]
      BY <2>2 DEF ReviewBegin, TypeOK
    <3>1. x.kind = "review" /\ x.order = o
      BY <2>2, <3>0 DEF ReviewBegin, TypeOK
    <3>2. Held(o)'
      BY <2>2 DEF ReviewBegin
    <3>3. CarriesHeld(x)'
      BY <3>1, <3>2 DEF CarriesHeld
    <3> QED BY <2>2, <2>c, <3>0, <3>3 DEF ReviewBegin
  <2>3. ASSUME NEW s \in Sessions, NEW d \in Devices, NEW o \in Orders, PushBegin(s, d, o)
        PROVE  HeldInv'
    <3>0. PICK x : txn' = [txn EXCEPT ![s] = x] /\ x = txn'[s]
      BY <2>3 DEF PushBegin, TypeOK
    <3>1. x.kind = "push" /\ x.order = o /\ x.seen = order[o] /\ x.row = order[o]
      BY <2>3, <3>0 DEF PushBegin, TypeOK
    <3>2. CarriesHeld(x)
      BY <3>1 DEF CarriesHeld
    <3> QED BY <2>3, <2>c, <3>0, <3>2 DEF PushBegin, CarriesHeld
  <2>4. ASSUME NEW s \in Sessions, AssignReadCustody(s) PROVE HeldInv'
    <3>1. txn[s] \in AssignTxn
      BY <2>a, <2>4, TxnKinds DEF AssignReadCustody
    <3>2. PICK i : txn' = [txn EXCEPT ![s] = [txn[s] EXCEPT !.holder = i, !.checked = TRUE]]
      BY <2>4 DEF AssignReadCustody
    <3>3. CarriesHeld([txn[s] EXCEPT !.holder = i, !.checked = TRUE])
      BY <3>1 DEF CarriesHeld, AssignTxn
    <3> QED BY <2>4, <2>c, <3>2, <3>3 DEF AssignReadCustody, CarriesHeld
  <2>5. ASSUME NEW s \in Sessions, AssignCommit(s) PROVE HeldInv'
    <3>1. txn[s] \in AssignTxn
      BY <2>a, <2>5, TxnKinds DEF AssignCommit
    <3>2. PICK o \in Orders : o = txn[s].order
      BY <3>1 DEF AssignTxn
    <3>3. custody' = [custody EXCEPT ![o] = Chain(o, txn[s])]
      BY <2>5, <3>2 DEF AssignCommit
    <3>4. Held(o)'
      BY <3>1, <3>2, <3>3, ChainOpen DEF TypeOK
    <3>5. \A p \in Orders : Held(p) => Held(p)'
      BY <3>3, <3>4 DEF TypeOK
    <3>6. \A p \in Orders : p # o => order'[p] = order[p]
      BY <2>5, <3>2 DEF AssignCommit, TypeOK
    <3>7. HolderOnRecord'
      BY <3>4, <3>5, <3>6
    <3> QED BY <2>5, <2>c, <2>d, <3>5, <3>7 DEF AssignCommit
  <2>6. ASSUME NEW s \in Sessions, TransferCommit(s) PROVE HeldInv'
    <3> DEFINE t == txn[s]
               row == [t.seen EXCEPT !.planner = t.to, !.version = t.seen.version + 1]
    <3>1. t \in TransferTxn
      BY <2>a, <2>6, TxnKinds DEF TransferCommit
    <3>n. t.seen.version + 1 \in Nat \ {0}
      BY <3>1 DEF TransferTxn, OrderRow
    <3>2. /\ row \in OrderRow /\ t.seen \in OrderRow /\ t.order \in Orders
          /\ row.state = t.seen.state
      BY <3>1, <3>n DEF TransferTxn, OrderRow
    <3>3. order[t.order] \in OrderRow
      BY <3>2 DEF TypeOK
    <3>4. Written(t.seen, row, order[t.order]).state = order[t.order].state
      BY <3>2, <3>3, WrittenOrder
    <3>5. \A o \in Orders : order'[o].state = order[o].state
      BY <2>6, <3>2, <3>4 DEF TransferCommit, TypeOK
    <3> QED BY <2>6, <2>c, <2>d, <3>5 DEF TransferCommit
  <2>7. ASSUME NEW s \in Sessions, PushNext(s) PROVE HeldInv'
    <3>1. txn[s] \in PushTxn
      BY <2>a, <2>7, TxnKinds DEF PushNext
    <3>2. PICK x : x = Reloaded(txn[s])
      OBVIOUS
    <3>3. /\ x.order = txn[s].order
          /\ \/ x.row = txn[s].row /\ x.seen = txn[s].seen
             \/ x.row = order[x.order] /\ x.seen = order[x.order]
          /\ x \in PushTxn
      BY <3>1, <3>2, ReloadedFacts
    <3>4. CarriesHeld(x)
      BY <2>b, <3>1, <3>3 DEF CarriesHeld, PushTxn
    <3> QED BY <2>7, <2>c, <3>2, <3>4 DEF PushNext, CarriesHeld
  <2>8. ASSUME NEW s \in Sessions, PushTransition(s) PROVE HeldInv'
    <3>1. txn[s] \in PushTxn
      BY <2>a, <2>8, TxnKinds DEF PushTransition
    <3>2. txn[s].row.state \notin AtDesk
      BY <2>8, NoTargetFromDesk DEF PushTransition
    <3>3. Held(txn[s].order)
      BY <2>b, <3>1, <3>2 DEF CarriesHeld, PushTxn
    <3>4. PICK x : txn' = [txn EXCEPT ![s] = x] /\ x.kind = "push" /\ x.order = txn[s].order
      BY <2>8, <3>1 DEF PushTransition, PushTxn
    <3>5. CarriesHeld(x)
      BY <3>3, <3>4 DEF CarriesHeld
    <3> QED BY <2>8, <2>c, <3>4, <3>5 DEF PushTransition, CarriesHeld
  <2>9. ASSUME NEW s \in Sessions, PushForm(s) PROVE HeldInv'
    <3>1. txn[s] \in PushTxn
      BY <2>a, <2>9, TxnKinds DEF PushForm
    <3>2. PICK x : /\ txn' = [txn EXCEPT ![s] = x] /\ x.kind = "push"
                   /\ x.order = txn[s].order /\ x.row = txn[s].row /\ x.seen = txn[s].seen
      BY <2>9, <3>1 DEF PushForm, PushTxn
    <3>3. CarriesHeld(x)
      BY <2>b, <3>1, <3>2 DEF CarriesHeld, PushTxn
    <3> QED BY <2>9, <2>c, <3>2, <3>3 DEF PushForm, CarriesHeld
  <2>10. ASSUME NEW s \in Sessions, PushCommit(s) PROVE HeldInv'
    <3>1. txn[s] \in PushTxn
      BY <2>a, <2>10, TxnKinds DEF PushCommit
    <3>2. txn[s].row # txn[s].seen => Held(txn[s].order)
      BY <2>b, <3>1 DEF CarriesHeld, PushTxn
    <3>3. \A o \in Orders : order'[o] = order[o] \/ Held(o)
      BY <2>10, <3>2 DEF PushCommit, TypeOK
    <3> QED BY <2>10, <2>c, <2>d, <3>3 DEF PushCommit
  <2>11. ASSUME NEW s \in Sessions, ReviewRead(s) PROVE HeldInv'
    <3>1. txn[s] \in ReviewTxn
      BY <2>a, <2>11, TxnKinds DEF ReviewRead
    <3>2. PICK x : txn' = [txn EXCEPT ![s] = x] /\ x.kind = "review" /\ x.order = txn[s].order
      BY <2>11, <3>1 DEF ReviewRead, ReviewTxn
    <3>3. CarriesHeld(x)
      BY <2>b, <3>1, <3>2 DEF CarriesHeld, ReviewTxn
    <3> QED BY <2>11, <2>c, <3>2, <3>3 DEF ReviewRead, CarriesHeld
  <2>12. ASSUME NEW s \in Sessions, ReviewCommit(s) PROVE HeldInv'
    <3>1. Held(txn[s].order)
      BY <2>b, <2>12 DEF ReviewCommit, CarriesHeld
    <3>2. \A o \in Orders : order'[o] = order[o] \/ Held(o)
      BY <2>12, <3>1 DEF ReviewCommit, TypeOK
    <3> QED BY <2>12, <2>c, <2>d, <3>2 DEF ReviewCommit
  <2>13. ASSUME NEW s \in Sessions, Rollback(s) PROVE HeldInv'
    BY <2>13, <2>c, <2>d DEF Rollback
  <2>14. ASSUME NEW d \in Devices, NEW o \in Orders, Pull(d, o) PROVE HeldInv'
    BY <2>14 DEF Pull, CarriesHeld
  <2>15. CASE UNCHANGED vars
    BY <2>15 DEF vars, CarriesHeld
  <2> QED BY <2>1, <2>2, <2>3, <2>4, <2>5, <2>6, <2>7, <2>8, <2>9, <2>10, <2>11, <2>12,
             <2>13, <2>14, <2>15 DEF Next
<1> QED BY <1>1, <1>2, TypeCorrect, PTL DEF Spec, HeldInv
-----------------------------------------------------------------------------
(* The times of the work.  The milestones a state needs are on record with  *)
(* the stored order, and with whatever an open session is about to make of  *)
(* it: a session that writes a state it derived from an old row relies on   *)
(* milestones nobody ever deletes.                                          *)

Needed(state) ==
  CASE state \in {"closed_field", "synced", "in_review", "approved", "returned"}
         -> {"inicio", "fin"}
    [] state = "in_execution" -> {"inicio"}
    [] OTHER -> {}

CarriesTimed(t) ==
  /\ t.kind = "push" => Needed(t.row.state) \subseteq milestones[t.order] \cup t.marks
  /\ t.kind = "review" => {"inicio", "fin"} \subseteq milestones[t.order]

TimedInv ==
  /\ \A o \in Orders : Needed(order[o].state) \subseteq milestones[o]
  /\ \A s \in Sessions : CarriesTimed(txn[s])

(* What a transition needs is what the state before it needed, and what it  *)
(* marks itself.                                                            *)
LEMMA TargetMarks ==
  ASSUME NEW state \in WorkOrderState, NEW target \in DeviceTargets(state)
  PROVE  Needed(target) \subseteq Needed(state) \cup MILESTONE_OF_STATE(target)
<1>1. target \in TRANSITIONS[state] /\ target \in DEVICE_TRANSITIONS
  BY DEF DeviceTargets
<1>2. CASE target = "closed_field"
  <2>1. state = "in_execution"
    BY <1>1, <1>2 DEF TRANSITIONS, WorkOrderState
  <2> QED BY <1>2, <2>1 DEF Needed, MILESTONE_OF_STATE
<1>3. CASE target = "synced"
  <2>1. state = "closed_field"
    BY <1>1, <1>3 DEF TRANSITIONS, WorkOrderState
  <2> QED BY <1>3, <2>1 DEF Needed, MILESTONE_OF_STATE
<1>4. CASE target = "in_execution"
  BY <1>4 DEF Needed, MILESTONE_OF_STATE
<1>5. CASE target \in {"downloaded", "en_route", "on_site", "suspended"}
  BY <1>5 DEF Needed
<1> QED BY <1>1, <1>2, <1>3, <1>4, <1>5 DEF DEVICE_TRANSITIONS

(* However the sessions interleave, no order reaches the office without the *)
(* start and the end of its work on record (RF-047).                        *)
THEOREM AlwaysTimed == Spec => []WorkIsTimed
<1>1. Init => TimedInv
  BY DEF Init, TimedInv, CarriesTimed, Needed, Idle
<1>2. TypeOK /\ TimedInv /\ [Next]_vars => TimedInv'
  <2> SUFFICES ASSUME TypeOK, TimedInv, [Next]_vars PROVE TimedInv'
    OBVIOUS
  <2>a. \A s \in Sessions : txn[s] \in Txn /\ CarriesTimed(txn[s])
    BY DEF TypeOK, TimedInv
  <2>b. \A o \in Orders : Needed(order[o].state) \subseteq milestones[o]
    BY DEF TimedInv
  <2>c. ASSUME NEW s \in Sessions, NEW x, txn' = [txn EXCEPT ![s] = x],
               \A o \in Orders : milestones[o] \subseteq milestones'[o],
               CarriesTimed(x)'
        PROVE  \A r \in Sessions : CarriesTimed(txn[r])'
    <3> SUFFICES ASSUME NEW r \in Sessions PROVE CarriesTimed(txn[r])'
      OBVIOUS
    <3>1. CASE r = s
      BY <2>c, <3>1 DEF TypeOK
    <3>2. CASE r # s
      <4>1. txn'[r] = txn[r] /\ CarriesTimed(txn[r])
        BY <2>a, <2>c, <3>2 DEF TypeOK
      <4>2. txn[r].kind \in {"push", "review"} => txn[r].order \in Orders
        BY <2>a, TxnKinds DEF PushTxn, ReviewTxn
      <4>3. txn[r].kind \in {"push", "review"} =>
              milestones[txn[r].order] \subseteq milestones'[txn[r].order]
        BY <2>c, <4>2
      <4> QED BY <4>1, <4>3 DEF CarriesTimed
    <3> QED BY <3>1, <3>2
  <2>d. CarriesTimed(Idle)'
    BY DEF CarriesTimed, Idle
  <2>e. ASSUME NEW s \in Sessions, NEW x, txn' = [txn EXCEPT ![s] = x],
               UNCHANGED <<order, milestones>>, CarriesTimed(x)
        PROVE  TimedInv'
    <3>1. CarriesTimed(x)'
      BY <2>e DEF CarriesTimed
    <3>2. \A o \in Orders : milestones[o] \subseteq milestones'[o]
      BY <2>e
    <3>3. \A r \in Sessions : CarriesTimed(txn[r])'
      BY <2>c, <2>e, <3>1, <3>2
    <3> QED BY <2>b, <2>e, <3>3 DEF TimedInv
  <2>1. ASSUME NEW s \in Sessions, NEW o \in Orders,
               AssignBegin(s, o) \/ TransferBegin(s, o)
        PROVE  TimedInv'
    <3>0. PICK x : txn' = [txn EXCEPT ![s] = x] /\ x = txn'[s]
      BY <2>1 DEF AssignBegin, TransferBegin, TypeOK
    <3>1. x.kind \in {"assign", "transfer"}
      <4>1. CASE AssignBegin(s, o)
        <5>1. PICK target \in Targets, expected \in 0 .. MaxVersion :
                txn' = [txn EXCEPT ![s] =
                  [kind |-> "assign", order |-> o, seen |-> order[o],
                   to |-> target[1], device |-> target[2], expected |-> expected,
                   holder |-> 0, checked |-> FALSE]]
          BY <4>1 DEF AssignBegin
        <5> QED BY <3>0, <5>1 DEF TypeOK
      <4>2. CASE TransferBegin(s, o)
        <5>1. PICK to \in Planners : txn' = [txn EXCEPT ![s] =
                [kind |-> "transfer", order |-> o, seen |-> order[o], to |-> to]]
          BY <4>2 DEF TransferBegin
        <5> QED BY <3>0, <5>1 DEF TypeOK
      <4> QED BY <2>1, <4>1, <4>2
    <3>2. CarriesTimed(x)
      BY <3>1 DEF CarriesTimed
    <3> QED BY <2>1, <2>e, <3>0, <3>2 DEF AssignBegin, TransferBegin
  <2>2. ASSUME NEW s \in Sessions, NEW o \in Orders, ReviewBegin(s, o) PROVE TimedInv'
    <3>0. PICK x : txn' = [txn EXCEPT ![s] = x] /\ x = txn'[s]
      BY <2>2 DEF ReviewBegin, TypeOK
    <3>1. x.kind = "review" /\ x.order = o
      BY <2>2, <3>0 DEF ReviewBegin, TypeOK
    <3>2. {"inicio", "fin"} \subseteq milestones[o]
      BY <2>2, <2>b DEF ReviewBegin, Needed
    <3>3. CarriesTimed(x)
      BY <3>1, <3>2 DEF CarriesTimed
    <3> QED BY <2>2, <2>e, <3>0, <3>3 DEF ReviewBegin
  <2>3. ASSUME NEW s \in Sessions, NEW d \in Devices, NEW o \in Orders, PushBegin(s, d, o)
        PROVE  TimedInv'
    <3>0. PICK x : txn' = [txn EXCEPT ![s] = x] /\ x = txn'[s]
      BY <2>3 DEF PushBegin, TypeOK
    <3>1. x.kind = "push" /\ x.order = o /\ x.row = order[o]
      BY <2>3, <3>0 DEF PushBegin, TypeOK
    <3>2. CarriesTimed(x)
      BY <2>b, <3>1 DEF CarriesTimed
    <3> QED BY <2>3, <2>e, <3>0, <3>2 DEF PushBegin
  <2>4. ASSUME NEW s \in Sessions, AssignReadCustody(s) PROVE TimedInv'
    <3>1. txn[s] \in AssignTxn
      BY <2>a, <2>4, TxnKinds DEF AssignReadCustody
    <3>2. PICK i : txn' = [txn EXCEPT ![s] = [txn[s] EXCEPT !.holder = i, !.checked = TRUE]]
      BY <2>4 DEF AssignReadCustody
    <3>3. CarriesTimed([txn[s] EXCEPT !.holder = i, !.checked = TRUE])
      BY <3>1 DEF CarriesTimed, AssignTxn
    <3> QED BY <2>4, <2>e, <3>2, <3>3 DEF AssignReadCustody
  <2>5. ASSUME NEW s \in Sessions, AssignCommit(s) PROVE TimedInv'
    <3> DEFINE t == txn[s]
               row == [t.seen EXCEPT !.state = "assigned", !.assignee = t.to,
                                     !.version = t.seen.version + 1]
    <3>1. t \in AssignTxn
      BY <2>a, <2>5, TxnKinds DEF AssignCommit
    <3>n. t.seen.version + 1 \in Nat \ {0}
      BY <3>1 DEF AssignTxn, OrderRow
    <3>2. /\ row \in OrderRow /\ t.seen \in OrderRow /\ t.order \in Orders
          /\ row.state = "assigned"
      BY <3>1, <3>n DEF AssignTxn, OrderRow, WorkOrderState
    <3>3. order[t.order] \in OrderRow
      BY <3>2 DEF TypeOK
    <3>4. Written(t.seen, row, order[t.order]).state \in {"assigned", order[t.order].state}
      BY <3>2, <3>3, WrittenOrder
    <3>5. \A o \in Orders : order'[o].state \in {"assigned", order[o].state}
      BY <2>5, <3>2, <3>4 DEF AssignCommit, TypeOK
    <3>6. Needed("assigned") = {}
      BY DEF Needed
    <3>7. \A o \in Orders : Needed(order'[o].state) \subseteq milestones'[o]
      BY <2>5, <2>b, <3>5, <3>6 DEF AssignCommit
    <3> QED BY <2>5, <2>c, <2>d, <3>7 DEF AssignCommit, TimedInv
  <2>6. ASSUME NEW s \in Sessions, TransferCommit(s) PROVE TimedInv'
    <3> DEFINE t == txn[s]
               row == [t.seen EXCEPT !.planner = t.to, !.version = t.seen.version + 1]
    <3>1. t \in TransferTxn
      BY <2>a, <2>6, TxnKinds DEF TransferCommit
    <3>n. t.seen.version + 1 \in Nat \ {0}
      BY <3>1 DEF TransferTxn, OrderRow
    <3>2. /\ row \in OrderRow /\ t.seen \in OrderRow /\ t.order \in Orders
          /\ row.state = t.seen.state
      BY <3>1, <3>n DEF TransferTxn, OrderRow
    <3>3. order[t.order] \in OrderRow
      BY <3>2 DEF TypeOK
    <3>4. Written(t.seen, row, order[t.order]).state = order[t.order].state
      BY <3>2, <3>3, WrittenOrder
    <3>5. \A o \in Orders : order'[o].state = order[o].state
      BY <2>6, <3>2, <3>4 DEF TransferCommit, TypeOK
    <3> QED BY <2>6, <2>b, <2>c, <2>d, <3>5 DEF TransferCommit, TimedInv
  <2>7. ASSUME NEW s \in Sessions, PushNext(s) PROVE TimedInv'
    <3>1. txn[s] \in PushTxn
      BY <2>a, <2>7, TxnKinds DEF PushNext
    <3>2. PICK x : x = Reloaded(txn[s])
      OBVIOUS
    <3>3. /\ x.order = txn[s].order /\ x.marks = txn[s].marks
          /\ x.row = txn[s].row \/ x.row = order[x.order]
          /\ x \in PushTxn
      BY <3>1, <3>2, ReloadedFacts
    <3>4. CarriesTimed(x)
      BY <2>a, <2>b, <3>1, <3>3 DEF CarriesTimed, PushTxn
    <3> QED BY <2>7, <2>e, <3>2, <3>4 DEF PushNext
  <2>8. ASSUME NEW s \in Sessions, PushTransition(s) PROVE TimedInv'
    <3> DEFINE t == txn[s]
    <3>1. t \in PushTxn
      BY <2>a, <2>8, TxnKinds DEF PushTransition
    <3>2. PICK target \in DeviceTargets(t.row.state) :
            txn' = [txn EXCEPT ![s] = [t EXCEPT
              !.loaded = FALSE,
              !.row = [t.row EXCEPT !.state = target, !.version = t.row.version + 1],
              !.marks = t.marks \cup MILESTONE_OF_STATE(target)]]
      BY <2>8 DEF PushTransition
    <3> DEFINE row == [t.row EXCEPT !.state = target, !.version = t.row.version + 1]
               y == [t EXCEPT !.loaded = FALSE, !.row = row,
                              !.marks = t.marks \cup MILESTONE_OF_STATE(target)]
    <3>3. t.row \in OrderRow
      BY <3>1 DEF PushTxn
    <3>4. row.state = target
      BY <3>3 DEF OrderRow
    <3>5. PICK x : x = y
      OBVIOUS
    <3>6. /\ txn' = [txn EXCEPT ![s] = x]
          /\ x.kind = "push" /\ x.order = t.order /\ x.row.state = target
          /\ x.marks = t.marks \cup MILESTONE_OF_STATE(target)
      <4>1. txn' = [txn EXCEPT ![s] = x]
        BY <3>2, <3>5
      <4> HIDE DEF row
      <4>2. /\ x.kind = t.kind /\ x.order = t.order /\ x.row = row
            /\ x.marks = t.marks \cup MILESTONE_OF_STATE(target)
        BY <3>1, <3>5 DEF PushTxn
      <4> QED BY <2>8, <3>4, <4>1, <4>2 DEF PushTransition
    <3>7. Needed(target) \subseteq Needed(t.row.state) \cup MILESTONE_OF_STATE(target)
      BY <3>1, <3>2, TargetMarks DEF PushTxn, OrderRow
    <3>8. Needed(t.row.state) \subseteq milestones[t.order] \cup t.marks
      BY <2>a, <3>1 DEF CarriesTimed, PushTxn
    <3>9. CarriesTimed(x)
      BY <3>6, <3>7, <3>8 DEF CarriesTimed
    <3> QED BY <2>8, <2>e, <3>6, <3>9 DEF PushTransition
  <2>9. ASSUME NEW s \in Sessions, PushForm(s) PROVE TimedInv'
    <3>1. txn[s] \in PushTxn
      BY <2>a, <2>9, TxnKinds DEF PushForm
    <3>2. PICK x : /\ txn' = [txn EXCEPT ![s] = x] /\ x.kind = "push"
                   /\ x.order = txn[s].order /\ x.row = txn[s].row /\ x.marks = txn[s].marks
      BY <2>9, <3>1 DEF PushForm, PushTxn
    <3>3. CarriesTimed(x)
      BY <2>a, <3>1, <3>2 DEF CarriesTimed, PushTxn
    <3> QED BY <2>9, <2>e, <3>2, <3>3 DEF PushForm
  <2>10. ASSUME NEW s \in Sessions, PushCommit(s) PROVE TimedInv'
    <3> DEFINE t == txn[s]
    <3>1. t \in PushTxn /\ t.order \in Orders
      BY <2>a, <2>10, TxnKinds DEF PushCommit, PushTxn
    <3>2. milestones' = [milestones EXCEPT ![t.order] = milestones[t.order] \cup t.marks]
      BY <2>10 DEF PushCommit
    <3>3. \A o \in Orders : milestones[o] \subseteq milestones'[o]
      BY <3>2 DEF TypeOK
    <3>4. Needed(t.row.state) \subseteq milestones'[t.order]
      BY <2>a, <3>1, <3>2 DEF CarriesTimed, TypeOK, PushTxn
    <3>5. \A o \in Orders : \/ order'[o].state = order[o].state
                            \/ o = t.order /\ order'[o].state = t.row.state
      BY <2>10, <3>1 DEF PushCommit, TypeOK, OrderRow
    <3>6. \A o \in Orders : Needed(order'[o].state) \subseteq milestones'[o]
      BY <2>b, <3>3, <3>4, <3>5
    <3> QED BY <2>10, <2>c, <2>d, <3>3, <3>6 DEF PushCommit, TimedInv
  <2>11. ASSUME NEW s \in Sessions, ReviewRead(s) PROVE TimedInv'
    <3>1. txn[s] \in ReviewTxn
      BY <2>a, <2>11, TxnKinds DEF ReviewRead
    <3>2. PICK x : txn' = [txn EXCEPT ![s] = x] /\ x.kind = "review" /\ x.order = txn[s].order
      BY <2>11, <3>1 DEF ReviewRead, ReviewTxn
    <3>3. CarriesTimed(x)
      BY <2>a, <3>1, <3>2 DEF CarriesTimed, ReviewTxn
    <3> QED BY <2>11, <2>e, <3>2, <3>3 DEF ReviewRead
  <2>12. ASSUME NEW s \in Sessions, ReviewCommit(s) PROVE TimedInv'
    <3>1. {"inicio", "fin"} \subseteq milestones[txn[s].order]
      BY <2>a, <2>12 DEF ReviewCommit, CarriesTimed
    <3>2. \A o \in Orders : order'[o] = order[o] \/ o = txn[s].order
      BY <2>12 DEF ReviewCommit, TypeOK
    <3>3. \A state : Needed(state) \subseteq {"inicio", "fin"}
      BY DEF Needed
    <3>4. \A o \in Orders : Needed(order'[o].state) \subseteq milestones[o]
      BY <2>b, <3>1, <3>2, <3>3
    <3> QED BY <2>12, <2>c, <2>d, <3>4 DEF ReviewCommit, TimedInv
  <2>13. ASSUME NEW s \in Sessions, Rollback(s) PROVE TimedInv'
    <3>1. CarriesTimed(Idle)
      BY DEF CarriesTimed, Idle
    <3> QED BY <2>13, <2>e, <3>1 DEF Rollback
  <2>14. ASSUME NEW d \in Devices, NEW o \in Orders, Pull(d, o) PROVE TimedInv'
    BY <2>14 DEF Pull, TimedInv, CarriesTimed
  <2>15. CASE UNCHANGED vars
    BY <2>15 DEF vars, TimedInv, CarriesTimed
  <2> QED BY <2>1, <2>2, <2>3, <2>4, <2>5, <2>6, <2>7, <2>8, <2>9, <2>10, <2>11, <2>12,
             <2>13, <2>14, <2>15 DEF Next
<1>3. TimedInv => WorkIsTimed
  <2> SUFFICES ASSUME TimedInv, NEW o \in Orders,
                      order[o].state \in {"closed_field", "synced", "in_review", "approved", "returned"}
               PROVE  {"inicio", "fin"} \subseteq milestones[o]
    BY DEF WorkIsTimed
  <2>1. Needed(order[o].state) = {"inicio", "fin"}
    BY DEF Needed
  <2> QED BY <2>1 DEF TimedInv
<1> QED BY <1>1, <1>2, <1>3, TypeCorrect, PTL DEF Spec
-----------------------------------------------------------------------------
(* The chain of custody as a record nobody rewrites (RF-324).               *)

(* One row of the chain, before and after a step. *)
RowKept(was, now) ==
  /\ now.device = was.device /\ now.assignee = was.assignee
  /\ now.open => was.open
  /\ was.unsynced => now.unsynced

(* Closing a row and flagging one leave every row in its place. *)
LEMMA ClosedKeeps ==
  ASSUME NEW rows \in Seq(CustodyRow), NEW i, NEW j \in DOMAIN rows
  PROVE  /\ DOMAIN Closed(rows, i) = DOMAIN rows
         /\ RowKept(rows[j], Closed(rows, i)[j])
<1>1. rows[j] \in CustodyRow
  BY ElementOfSeq, LenProperties
<1>2. DOMAIN Closed(rows, i) = DOMAIN rows
  BY DEF Closed
<1>3. Closed(rows, i)[j] = rows[j] \/ Closed(rows, i)[j] = [rows[j] EXCEPT !.open = FALSE]
  BY DEF Closed
<1> QED BY <1>1, <1>2, <1>3 DEF RowKept, CustodyRow

LEMMA FlaggedKeeps ==
  ASSUME NEW rows \in Seq(CustodyRow), NEW d, NEW j \in DOMAIN rows
  PROVE  /\ DOMAIN Flagged(rows, d) = DOMAIN rows
         /\ RowKept(rows[j], Flagged(rows, d)[j])
<1>1. rows[j] \in CustodyRow
  BY ElementOfSeq, LenProperties
<1>2. DOMAIN Flagged(rows, d) = DOMAIN rows
  BY DEF Flagged
<1>3. Flagged(rows, d)[j] = rows[j] \/ Flagged(rows, d)[j] = [rows[j] EXCEPT !.unsynced = TRUE]
  BY DEF Flagged
<1> QED BY <1>1, <1>2, <1>3 DEF RowKept, CustodyRow

(* An assignment keeps every row there was, and adds its own at the end. *)
LEMMA ChainKeeps ==
  ASSUME TypeOK, NEW t \in AssignTxn, NEW j \in DOMAIN custody[t.order]
  PROVE  /\ j \in DOMAIN Chain(t.order, t)
         /\ RowKept(custody[t.order][j], Chain(t.order, t)[j])
<1> DEFINE o == t.order
           i == t.holder
           d == custody[o][i].device
           before == HandedOver(o, i)
           row == [device |-> t.device, assignee |-> t.to, open |-> TRUE,
                   unsynced |-> FALSE]
<1>1. custody[o] \in Seq(CustodyRow)
  BY DEF TypeOK, AssignTxn
<1>2. Closed(custody[o], i) \in Seq(CustodyRow)
  BY <1>1, ClosedType
<1>3. before \in Seq(CustodyRow)
  BY <1>1, <1>2, FlaggedType DEF HandedOver
<1>4. DOMAIN before = DOMAIN custody[o] /\ RowKept(custody[o][j], before[j])
  <2> DEFINE rows == Closed(custody[o], i)
  <2>1. DOMAIN rows = DOMAIN custody[o] /\ RowKept(custody[o][j], rows[j])
    BY <1>1, ClosedKeeps
  <2> HIDE DEF rows
  <2>2. /\ DOMAIN Flagged(rows, d) = DOMAIN custody[o]
        /\ RowKept(rows[j], Flagged(rows, d)[j])
    BY <1>2, <2>1, FlaggedKeeps DEF rows
  <2>3. RowKept(custody[o][j], Flagged(rows, d)[j])
    BY <2>1, <2>2 DEF RowKept
  <2>4. RowKept(custody[o][j], custody[o][j])
    BY DEF RowKept
  <2> QED BY <2>1, <2>2, <2>3, <2>4 DEF HandedOver, rows
<1>5. row \in CustodyRow
  BY DEF AssignTxn, CustodyRow
<1> HIDE DEF before, row
<1>6. j \in DOMAIN Append(before, row) /\ Append(before, row)[j] = before[j]
  BY <1>3, <1>4, <1>5, AppendProperties, LenProperties
<1> QED BY <1>4, <1>6 DEF Chain, before, row

(* However the sessions interleave, the chain only grows: a closed row stays *)
(* closed, and no row changes who it names or loses its warning.            *)
THEOREM ChainOnlyGrows == Spec => CustodyAppendOnly
<1> DEFINE Kept == \A o \in Orders : \A i \in DOMAIN custody[o] :
                     i \in DOMAIN custody'[o] /\ RowKept(custody[o][i], custody'[o][i])
<1>1. TypeOK /\ Next => Kept
  <2> SUFFICES ASSUME TypeOK, Next PROVE Kept
    OBVIOUS
  <2>1. CASE UNCHANGED custody
    BY <2>1 DEF RowKept
  <2>2. ASSUME NEW s \in Sessions, AssignCommit(s) PROVE Kept
    <3>1. txn[s] \in AssignTxn
      BY <2>2, TxnKinds DEF TypeOK, AssignCommit
    <3>2. custody' = [custody EXCEPT ![txn[s].order] = Chain(txn[s].order, txn[s])]
      BY <2>2 DEF AssignCommit
    <3> SUFFICES ASSUME NEW o \in Orders, NEW i \in DOMAIN custody[o]
                 PROVE  i \in DOMAIN custody'[o] /\ RowKept(custody[o][i], custody'[o][i])
      OBVIOUS
    <3>3. CASE o # txn[s].order
      BY <3>2, <3>3 DEF RowKept, TypeOK
    <3>4. CASE o = txn[s].order
      BY <3>1, <3>2, <3>4, ChainKeeps DEF TypeOK
    <3> QED BY <3>3, <3>4
  <2> QED
    BY <2>1, <2>2
    DEF Next, AssignBegin, TransferBegin, ReviewBegin, PushBegin, AssignReadCustody,
        TransferCommit, PushNext, PushTransition, PushForm, PushCommit, ReviewRead,
        ReviewCommit, Rollback, Pull
<1>2. TypeOK /\ [Next]_vars =>
        [\A o \in Orders : \A i \in DOMAIN custody[o] :
           LET was == custody[o][i]
               now == custody'[o][i]
           IN /\ i \in DOMAIN custody'[o]
              /\ now.device = was.device /\ now.assignee = was.assignee
              /\ now.open => was.open
              /\ was.unsynced => now.unsynced]_vars
  BY <1>1 DEF RowKept
<1> QED BY <1>2, TypeCorrect, PTL DEF Spec, CustodyAppendOnly

-----------------------------------------------------------------------------
(* The debt of a phone that lost an order *)

LEMMA Greatest ==
  ASSUME NEW n \in Nat, NEW S, S \subseteq 1 .. n, S # {}
  PROVE  \E j \in S : \A k \in S : k <= j
<1> DEFINE T == {n - j : j \in S}
           Less == OpToRel(<, Nat)
<1>1. T \subseteq Nat /\ T # {}
  <2>1. \A j \in S : n - j \in Nat
    OBVIOUS
  <2> QED BY <2>1
<1>2. IsWellFoundedOn(Less, Nat)
  BY NatLessThanWellFounded
<1>3. \A a, b \in Nat : a < b => <<a, b>> \in Less
  BY DEF OpToRel
<1> HIDE DEF Less
<1>4. PICK x \in T : \A y \in T : ~ (<<y, x>> \in Less)
  <2> HIDE DEF T
  <2> QED BY <1>1, <1>2, WFMin
<1>5. \A y \in T : x <= y
  <2> HIDE DEF T
  <2>1. \A y \in T : y \in Nat /\ x \in Nat /\ ~(y < x)
    BY <1>1, <1>3, <1>4
  <2> QED BY <2>1
<1>6. PICK j \in S : x = n - j
  OBVIOUS
<1>7. \A k \in S : n - j <= n - k
  BY <1>5, <1>6
<1> HIDE DEF T
<1>8. \A k \in S : k \in Int /\ j \in Int
  OBVIOUS
<1> QED BY <1>7, <1>8

(* The row that an assignment closes is that of the holder it read. *)
LEMMA OnlyHolderCloses ==
  ASSUME TypeOK, NEW t \in AssignTxn, NEW i \in DOMAIN custody[t.order],
         custody[t.order][i].open, ~HandedOver(t.order, t.holder)[i].open
  PROVE  t.holder # 0 /\ i = t.holder
<1> DEFINE rows == custody[t.order]
           closed == Closed(rows, t.holder)
<1>1. rows \in Seq(CustodyRow)
  BY DEF TypeOK, AssignTxn
<1>2. t.holder # 0
  BY DEF HandedOver
<1>3. closed \in Seq(CustodyRow) /\ DOMAIN closed = DOMAIN rows
  BY <1>1, ClosedType, ClosedKeeps
<1>4. \A d : Flagged(closed, d)[i].open = closed[i].open
  <2>1. closed[i] \in CustodyRow
    <3> HIDE DEF closed, rows
    <3>1. i \in DOMAIN closed
      BY <1>3 DEF rows
    <3> QED BY <1>3, <3>1, ElementOfSeq, LenProperties
  <2> HIDE DEF closed, rows
  <2>2. i \in DOMAIN closed
    BY <1>3 DEF rows
  <2>3. \A d : Flagged(closed, d)[i] \in {closed[i], [closed[i] EXCEPT !.unsynced = TRUE]}
    BY <2>2 DEF Flagged
  <2> QED BY <2>1, <2>3 DEF CustodyRow
<1>5. ~closed[i].open
  BY <1>2, <1>4 DEF HandedOver
<1>6. i # t.holder => closed[i] = rows[i]
  BY DEF Closed
<1> QED BY <1>2, <1>5, <1>6

(* A phone that owes is flagged on the last of its rows. *)
LEMMA FlaggedShows ==
  ASSUME NEW rows \in Seq(CustodyRow), NEW d, NEW i \in DOMAIN rows, rows[i].device = d
  PROVE  \E j \in DOMAIN rows :
           Flagged(rows, d)[j].device = d /\ Flagged(rows, d)[j].unsynced
<1> DEFINE mine == {j \in DOMAIN rows : rows[j].device = d}
<1>1. Len(rows) \in Nat /\ DOMAIN rows = 1 .. Len(rows)
  BY LenProperties
<1>2. mine \subseteq 1 .. Len(rows) /\ mine # {}
  BY <1>1
<1>3. PICK j \in mine : \A k \in mine : k <= j
  <2> HIDE DEF mine
  <2> QED BY <1>1, <1>2, Greatest
<1>4. Flagged(rows, d)[j] = [rows[j] EXCEPT !.unsynced = TRUE]
  BY <1>3 DEF Flagged
<1>5. rows[j] \in CustodyRow /\ rows[j].device = d /\ j \in DOMAIN rows
  BY <1>1, ElementOfSeq
<1> QED BY <1>4, <1>5 DEF CustodyRow

LEMMA ChainShowsDebt ==
  ASSUME TypeOK, DebtShown, NEW t \in AssignTxn,
         NEW i \in DOMAIN Chain(t.order, t), ~Chain(t.order, t)[i].open,
         Chain(t.order, t)[i].device \in Devices \ arrived[t.order]
  PROVE  \E j \in DOMAIN Chain(t.order, t) :
           /\ Chain(t.order, t)[j].device = Chain(t.order, t)[i].device
           /\ Chain(t.order, t)[j].unsynced
<1> DEFINE o == t.order
           rows == custody[o]
           before == HandedOver(o, t.holder)
           chain == Chain(o, t)
           row == [device |-> t.device, assignee |-> t.to, open |-> TRUE, unsynced |-> FALSE]
<1>1. o \in Orders /\ rows \in Seq(CustodyRow)
  BY DEF TypeOK, AssignTxn
<1>2. Closed(rows, t.holder) \in Seq(CustodyRow) /\ DOMAIN Closed(rows, t.holder) = DOMAIN rows
  BY <1>1, ClosedType DEF Closed
<1>3. before \in Seq(CustodyRow) /\ DOMAIN before = DOMAIN rows
  BY <1>1, <1>2, FlaggedType DEF HandedOver, Flagged
<1>4. row \in CustodyRow /\ row.open
  BY DEF AssignTxn, CustodyRow
<1>5. /\ DOMAIN chain = 1 .. (Len(before) + 1) /\ Len(before) \in Nat
      /\ chain[Len(before) + 1] = row
      /\ \A k \in DOMAIN rows : k \in DOMAIN chain /\ chain[k] = before[k]
      /\ DOMAIN rows = 1 .. Len(before)
  <2> HIDE DEF before, row, rows
  <2>1. chain = Append(before, row)
    BY DEF Chain, before, row
  <2> HIDE DEF chain
  <2> QED BY <1>3, <1>4, <2>1, AppendProperties, LenProperties
<1>6. i \in DOMAIN rows /\ chain[i] = before[i]
  BY <1>4, <1>5
<1>7. \A k \in DOMAIN rows : RowKept(rows[k], chain[k])
  BY ChainKeeps
<1>8. chain[i].device = rows[i].device
  BY <1>6, <1>7 DEF RowKept
<1>9. CASE ~rows[i].open
  <2>1. PICK j \in DOMAIN rows : rows[j].device = rows[i].device /\ rows[j].unsynced
    BY <1>1, <1>6, <1>8, <1>9 DEF DebtShown, OpenRows
  <2> QED BY <1>5, <1>7, <1>8, <2>1 DEF RowKept
<1>10. CASE rows[i].open
  <2>1. t.holder # 0 /\ i = t.holder
    BY <1>6, <1>10, OnlyHolderCloses
  <2> DEFINE d == rows[i].device
             closed == Closed(rows, t.holder)
  <2>2. before = Flagged(closed, d)
    BY <1>8, <2>1 DEF HandedOver, Owes
  <2>3. closed[i].device = d
    BY <1>1, <1>6, ClosedKeeps DEF RowKept
  <2>4. PICK j \in DOMAIN closed :
          Flagged(closed, d)[j].device = d /\ Flagged(closed, d)[j].unsynced
    <3>1. i \in DOMAIN closed /\ closed \in Seq(CustodyRow)
      BY <1>2, <1>6
    <3> HIDE DEF closed, d
    <3> QED BY <2>3, <3>1, FlaggedShows
  <2> QED BY <1>2, <1>5, <1>8, <2>2, <2>4
<1> QED BY <1>9, <1>10

(* RF-322: a phone that lost an order before anything of it reached the     *)
(* server is flagged in the chain of custody, however the sessions that     *)
(* reassign it and the pushes interleave.                                   *)
THEOREM DebtAlwaysShown == Spec => []DebtShown
<1>1. Init => DebtShown
  BY DEF Init, DebtShown, OpenRows
<1>2. TypeOK /\ DebtShown /\ [Next]_vars => DebtShown'
  <2> SUFFICES ASSUME TypeOK, DebtShown, [Next]_vars PROVE DebtShown'
    OBVIOUS
  <2>1. CASE custody' = custody /\ \A o \in Orders : arrived[o] \subseteq arrived'[o]
    BY <2>1 DEF DebtShown, OpenRows
  <2>2. ASSUME NEW s \in Sessions, AssignCommit(s) PROVE DebtShown'
    <3> DEFINE t == txn[s]
               o == t.order
    <3>1. t \in AssignTxn /\ o \in Orders
      BY <2>2, TxnKinds DEF TypeOK, AssignCommit, AssignTxn
    <3>2. /\ arrived' = arrived /\ custody'[o] = Chain(o, t)
          /\ \A p \in Orders \ {o} : custody'[p] = custody[p]
      BY <2>2, <3>1 DEF AssignCommit, TypeOK
    <3> SUFFICES ASSUME NEW p \in Orders, NEW i \in DOMAIN custody'[p], ~custody'[p][i].open,
                        custody'[p][i].device \in Devices \ arrived[p]
                 PROVE  \E j \in DOMAIN custody'[p] :
                          custody'[p][j].device = custody'[p][i].device /\ custody'[p][j].unsynced
      BY <3>2 DEF DebtShown, OpenRows
    <3>3. CASE p = o
      <4> HIDE DEF t
      <4> QED BY <3>1, <3>2, <3>3, ChainShowsDebt
    <3>4. CASE p # o
      BY <3>2, <3>4 DEF DebtShown, OpenRows
    <3> QED BY <3>3, <3>4
  <2>3. ASSUME NEW s \in Sessions, PushCommit(s) PROVE DebtShown'
    <3>1. custody' = custody /\ arrived' = [arrived EXCEPT ![txn[s].order] = @ \cup {txn[s].device}]
      BY <2>3 DEF PushCommit
    <3> QED BY <2>1, <3>1 DEF TypeOK
  <2>4. CASE UNCHANGED vars
    BY <2>1, <2>4 DEF vars
  <2> QED
    BY <2>1, <2>2, <2>3, <2>4
    DEF Next, AssignBegin, TransferBegin, ReviewBegin, PushBegin, AssignReadCustody,
        TransferCommit, PushNext, PushTransition, PushForm, ReviewRead,
        ReviewCommit, Rollback, Pull
<1> QED BY <1>1, <1>2, TypeCorrect, PTL DEF Spec

-----------------------------------------------------------------------------
(* Handlers that run one after another.  With one session nothing changes   *)
(* between what a handler reads and what it writes, and what it carries     *)
(* stands until it commits.                                                 *)

OneAtATime == \A r, s \in Sessions : r = s

StandsAssign(t) ==
  /\ t.seen = order[t.order] /\ t.seen.state \in Assignable
  /\ t.expected # 0 => t.expected = t.seen.version
  /\ t.checked => IF t.holder = 0 THEN OpenRows(custody[t.order]) = {}
                                  ELSE t.holder \in OpenRows(custody[t.order])
StandsPush(t) ==
  /\ t.seen = order[t.order] /\ t.read = response[t.order]
  /\ t.row.state = "approved" <=> t.seen.state = "approved"
  /\ t.draft # t.read => t.read.state \in Editable /\ t.draft.state # "aprobada"
StandsReview(t) ==
  /\ t.seen = order[t.order] /\ t.seen.state \in {"synced", "in_review"}
  /\ t.decision # "pending" =>
       /\ t.read = response[t.order]
       /\ t.decision = "approved" => Approvable(t.read)

Stands(t) ==
  /\ t.kind = "assign" => StandsAssign(t)
  /\ t.kind = "transfer" => t.seen = order[t.order]
  /\ t.kind = "push" => StandsPush(t)
  /\ t.kind = "review" => StandsReview(t)

SerialInv == OneHolder /\ SettledTogether /\ \A s \in Sessions : Stands(txn[s])

(* The row of the holder is closed and the new one is the only open row. *)
LEMMA ChainOneHolder ==
  ASSUME TypeOK, OneHolder, NEW t \in AssignTxn,
         IF t.holder = 0 THEN OpenRows(custody[t.order]) = {}
                         ELSE t.holder \in OpenRows(custody[t.order])
  PROVE  \A i, j \in OpenRows(Chain(t.order, t)) : i = j
<1> DEFINE o == t.order
           h == t.holder
           rows == custody[o]
           closed == Closed(rows, h)
           before == HandedOver(o, h)
           chain == Chain(o, t)
           row == [device |-> t.device, assignee |-> t.to, open |-> TRUE, unsynced |-> FALSE]
<1>1. o \in Orders /\ rows \in Seq(CustodyRow)
  BY DEF TypeOK, AssignTxn
<1>2. closed \in Seq(CustodyRow) /\ DOMAIN closed = DOMAIN rows
  BY <1>1, ClosedType DEF Closed
<1>3. before \in Seq(CustodyRow) /\ DOMAIN before = DOMAIN rows
  BY <1>1, <1>2, FlaggedType DEF HandedOver, Flagged
<1>4. row \in CustodyRow
  BY DEF AssignTxn, CustodyRow
<1>5. /\ DOMAIN chain = 1 .. (Len(before) + 1) /\ Len(before) \in Nat
      /\ \A k \in DOMAIN rows : chain[k] = before[k]
      /\ DOMAIN rows = 1 .. Len(before)
  <2> HIDE DEF before, row, rows
  <2>1. chain = Append(before, row)
    BY DEF Chain, before, row
  <2> HIDE DEF chain
  <2> QED BY <1>3, <1>4, <2>1, AppendProperties, LenProperties
<1>6. \A k \in DOMAIN rows : RowKept(rows[k], chain[k])
  BY ChainKeeps
<1>7. ASSUME NEW k \in DOMAIN rows, chain[k].open PROVE FALSE
  <2>1. rows[k].open
    BY <1>6, <1>7 DEF RowKept
  <2>2. h # 0 /\ k = h
    BY <1>1, <2>1 DEF OneHolder, OpenRows
  <2>3. ~closed[k].open
    <3>1. rows[k] \in CustodyRow
      BY <1>1, ElementOfSeq, LenProperties
    <3>2. closed[k] = [rows[k] EXCEPT !.open = FALSE]
      BY <2>2 DEF Closed
    <3> QED BY <3>1, <3>2 DEF CustodyRow
  <2>4. \A d : ~Flagged(closed, d)[k].open
    <3>1. k \in DOMAIN closed
      BY <1>2
    <3> HIDE DEF closed, rows
    <3> QED BY <1>2, <2>3, <3>1, FlaggedKeeps DEF RowKept
  <2>5. ~before[k].open
    BY <2>2, <2>3, <2>4 DEF HandedOver
  <2> QED BY <1>5, <1>7, <2>5
<1>8. \A i \in OpenRows(chain) : i = Len(before) + 1
  <2> HIDE DEF chain, before, rows
  <2> QED BY <1>5, <1>7 DEF OpenRows
<1> QED BY <1>8

(* No phone approves an order, nor moves an approved one. *)
LEMMA PhonesApproveNothing ==
  ASSUME NEW state \in WorkOrderState, NEW target \in DeviceTargets(state)
  PROVE  target # "approved" /\ state # "approved"
  BY DEF DeviceTargets, DEVICE_TRANSITIONS, TRANSITIONS

(* What a commit over the rows it read stores is what the session made of them. *)
LEMMA WrittenOverRead ==
  ASSUME NEW read \in ResponseRow, NEW draft \in ResponseRow
  PROVE  Written(read, draft, read) = draft
  BY DEF Written, ResponseRow

(* What a decision leaves of the response. *)
LEMMA DecidedFacts ==
  ASSUME NEW row \in ResponseRow, NEW decision \in {"approved", "returned", "cancelled"}
  PROVE  /\ Decided(row, decision) \in ResponseRow
         /\ Decided(row, decision).by = row.by
         /\ Decided(row, decision).state \in {row.state, "aprobada", "devuelta"}
         /\ decision = "approved" /\ Approvable(row) => Decided(row, decision).state = "aprobada"
         /\ decision # "approved" /\ row.state # "aprobada" => Decided(row, decision).state # "aprobada"
  BY DEF Decided, Approvable, ResponseRow, ResponseState

(* A commit of one handler, when no other is open. *)
LEMMA AssignSettles ==
  ASSUME OneAtATime, TypeOK, SerialInv, NEW s \in Sessions, AssignCommit(s)
  PROVE  OneHolder' /\ SettledTogether'
<1> DEFINE t == txn[s]
           row == [t.seen EXCEPT !.state = "assigned", !.assignee = t.to,
                                 !.version = t.seen.version + 1]
<1>1. t \in AssignTxn /\ t.order \in Orders /\ StandsAssign(t) /\ t.checked
  BY TxnKinds DEF TypeOK, AssignCommit, AssignTxn, SerialInv, Stands
<1>2. custody' = [custody EXCEPT ![t.order] = Chain(t.order, t)]
  BY DEF AssignCommit
<1>3. \A i, j \in OpenRows(Chain(t.order, t)) : i = j
  <2> HIDE DEF t
  <2> QED BY <1>1, ChainOneHolder DEF SerialInv, StandsAssign
<1>4. OneHolder'
  <2> SUFFICES ASSUME NEW o \in Orders PROVE \A i, j \in OpenRows(custody'[o]) : i = j
    BY DEF OneHolder
  <2>1. CASE o = t.order
    BY <1>1, <1>2, <1>3, <2>1 DEF TypeOK
  <2>2. CASE o # t.order
    BY <1>1, <1>2, <2>2 DEF TypeOK, SerialInv, OneHolder
  <2> QED BY <2>1, <2>2
<1>5. t.seen.version + 1 \in Nat \ {0}
  BY <1>1 DEF AssignTxn, OrderRow
<1>6. row \in OrderRow /\ t.seen \in OrderRow /\ row.state = "assigned"
  BY <1>1, <1>5 DEF AssignTxn, OrderRow, WorkOrderState
<1>7. order[t.order].state # "approved" /\ order[t.order] \in OrderRow
  BY <1>1 DEF StandsAssign, Assignable, TypeOK
<1>8. /\ order' = [order EXCEPT ![t.order] = Written(t.seen, row, order[t.order])]
      /\ response' = response
  BY DEF AssignCommit
<1>9. Written(t.seen, row, order[t.order]).state # "approved"
  <2> HIDE DEF row
  <2> QED BY <1>6, <1>7, WrittenOrder
<1>10. \A o \in Orders : (order'[o].state = "approved") <=> (order[o].state = "approved")
  BY <1>1, <1>7, <1>8, <1>9 DEF TypeOK
<1> QED BY <1>4, <1>8, <1>10 DEF SettledTogether, SerialInv

LEMMA TransferSettles ==
  ASSUME TypeOK, SerialInv, NEW s \in Sessions, TransferCommit(s)
  PROVE  OneHolder' /\ SettledTogether'
<1> DEFINE t == txn[s]
           row == [t.seen EXCEPT !.planner = t.to, !.version = t.seen.version + 1]
<1>1. t \in TransferTxn /\ t.order \in Orders
  BY TxnKinds DEF TypeOK, TransferCommit, TransferTxn
<1>2. t.seen.version + 1 \in Nat \ {0}
  BY <1>1 DEF TransferTxn, OrderRow
<1>3. row \in OrderRow /\ t.seen \in OrderRow /\ row.state = t.seen.state
  BY <1>1, <1>2 DEF TransferTxn, OrderRow
<1>4. Written(t.seen, row, order[t.order]).state = order[t.order].state
  <2> HIDE DEF row
  <2> QED BY <1>1, <1>3, WrittenOrder DEF TypeOK
<1>5. /\ order' = [order EXCEPT ![t.order] = Written(t.seen, row, order[t.order])]
      /\ response' = response /\ custody' = custody
  BY DEF TransferCommit
<1>6. \A o \in Orders : order'[o].state = order[o].state
  BY <1>1, <1>4, <1>5 DEF TypeOK
<1> QED BY <1>5, <1>6 DEF SerialInv, OneHolder, SettledTogether, OpenRows

LEMMA PushSettles ==
  ASSUME TypeOK, SerialInv, NEW s \in Sessions, PushCommit(s)
  PROVE  OneHolder' /\ SettledTogether'
<1> DEFINE t == txn[s]
           o == t.order
<1>1. t \in PushTxn /\ o \in Orders /\ StandsPush(t)
  BY TxnKinds DEF TypeOK, PushCommit, PushTxn, SerialInv, Stands
<1>2. custody' = custody
  BY DEF PushCommit
<1>3. response' = [response EXCEPT ![o] = t.draft]
  <2>1. response' = [response EXCEPT ![o] = Written(t.read, t.draft, response[o])]
    BY DEF PushCommit
  <2>2. t.read = response[o] /\ t.read \in ResponseRow /\ t.draft \in ResponseRow
    BY <1>1 DEF StandsPush, PushTxn
  <2> HIDE DEF t
  <2> QED BY <2>1, <2>2, WrittenOverRead
<1>4. order' = IF t.row = t.seen THEN order
               ELSE [order EXCEPT ![o] =
                      [order[o] EXCEPT !.state = t.row.state, !.version = t.row.version]]
  BY DEF PushCommit
<1>5. \A p \in Orders : (order'[p].state = "approved") <=> (order[p].state = "approved")
  BY <1>1, <1>4 DEF StandsPush, TypeOK, OrderRow
<1>6. \A p \in Orders : (response'[p].state = "aprobada") <=> (response[p].state = "aprobada")
  BY <1>1, <1>3 DEF StandsPush, TypeOK, Editable
<1> QED BY <1>2, <1>5, <1>6 DEF SerialInv, OneHolder, SettledTogether, OpenRows

LEMMA ReviewSettles ==
  ASSUME TypeOK, SerialInv, NEW s \in Sessions, ReviewCommit(s)
  PROVE  OneHolder' /\ SettledTogether'
<1> DEFINE t == txn[s]
           o == t.order
           after == Decided(t.read, t.decision)
<1>1. /\ t \in ReviewTxn /\ o \in Orders /\ StandsReview(t)
      /\ t.decision \in {"approved", "returned", "cancelled"}
  BY TxnKinds DEF TypeOK, ReviewCommit, ReviewTxn, SerialInv, Stands
<1>2. t.read = response[o] /\ t.read \in ResponseRow
  BY <1>1 DEF StandsReview, ReviewTxn
<1>3. /\ after \in ResponseRow
      /\ t.decision = "approved" /\ Approvable(t.read) => after.state = "aprobada"
      /\ t.decision # "approved" /\ t.read.state # "aprobada" => after.state # "aprobada"
  <2> HIDE DEF t
  <2> QED BY <1>1, <1>2, DecidedFacts DEF after
<1>4. response' = [response EXCEPT ![o] = after]
  <2>1. response' = [response EXCEPT ![o] = Written(t.read, after, response[o])]
    BY DEF ReviewCommit
  <2> HIDE DEF after, t
  <2> QED BY <1>2, <1>3, <2>1, WrittenOverRead
<1>5. order[o].state \in {"synced", "in_review"} /\ response[o].state # "aprobada"
  BY <1>1 DEF StandsReview, SerialInv, SettledTogether
<1>6. /\ \A p \in Orders \ {o} : order'[p] = order[p]
      /\ order'[o].state = t.decision /\ custody' = custody
  <2>1. PICK n : order' = [order EXCEPT ![o] =
                   [order[o] EXCEPT !.state = t.decision, !.version = n]]
    BY DEF ReviewCommit
  <2>2. custody' = custody
    BY DEF ReviewCommit
  <2> QED BY <1>1, <2>1, <2>2 DEF TypeOK, OrderRow
<1>7. (order'[o].state = "approved") <=> (response'[o].state = "aprobada")
  <2>1. response'[o].state = after.state
    BY <1>1, <1>4 DEF TypeOK
  <2>2. t.decision = "approved" => Approvable(t.read)
    BY <1>1 DEF StandsReview
  <2> HIDE DEF after, t
  <2> QED BY <1>1, <1>2, <1>3, <1>5, <1>6, <2>1, <2>2
<1>8. SettledTogether'
  <2> SUFFICES ASSUME NEW p \in Orders
               PROVE  (order'[p].state = "approved") <=> (response'[p].state = "aprobada")
    BY DEF SettledTogether
  <2>1. CASE p = o
    BY <1>7, <2>1
  <2>2. CASE p # o
    BY <1>4, <1>6, <2>2 DEF TypeOK, SerialInv, SettledTogether
  <2> QED BY <2>1, <2>2
<1> QED BY <1>6, <1>8 DEF SerialInv, OneHolder, OpenRows

(* No step disturbs it, when every handler ends before the next begins. *)
LEMMA SerialSteps ==
  ASSUME OneAtATime, TypeOK, SerialInv, [Next]_vars
  PROVE  SerialInv'
<1> DEFINE Still == UNCHANGED <<order, custody, response>>
<1>a. ASSUME NEW s \in Sessions, (Stands(txn[s]))' PROVE \A r \in Sessions : (Stands(txn[r]))'
  <2> SUFFICES ASSUME NEW r \in Sessions PROVE (Stands(txn[r]))'
    OBVIOUS
  <2>1. r = s
    BY DEF OneAtATime
  <2> QED BY <1>a, <2>1
<1>b. ASSUME Still PROVE OneHolder' /\ SettledTogether'
  BY <1>b DEF SerialInv, OneHolder, SettledTogether, OpenRows
<1>c. ASSUME NEW s \in Sessions, txn' = [txn EXCEPT ![s] = Idle] PROVE (Stands(txn[s]))'
  <2>1. txn'[s].kind = "idle"
    BY <1>c DEF TypeOK, Idle
  <2> QED BY <2>1 DEF Stands
<1>d. \A s \in Sessions : txn[s] \in Txn /\ Stands(txn[s])
  BY DEF TypeOK, SerialInv
<1>e. ASSUME NEW s \in Sessions, NEW x, txn' = [txn EXCEPT ![s] = x] PROVE txn'[s] = x
  BY <1>e DEF TypeOK
<1>1. ASSUME NEW s \in Sessions, NEW o \in Orders, AssignBegin(s, o) PROVE SerialInv'
  <2>1. PICK target \in Targets, expected \in 0 .. MaxVersion :
          /\ CurrentFor(expected, order[o])
          /\ txn' = [txn EXCEPT ![s] =
               [kind |-> "assign", order |-> o, seen |-> order[o],
                to |-> target[1], device |-> target[2], expected |-> expected,
                holder |-> 0, checked |-> FALSE]]
    BY <1>1 DEF AssignBegin
  <2>2. Still /\ order[o].state \in Assignable
    BY <1>1 DEF AssignBegin
  <2> DEFINE t == txn'[s]
  <2>3. /\ t.kind = "assign" /\ t.order = o /\ t.seen = order[o] /\ t.expected = expected
        /\ ~t.checked
    BY <2>1 DEF TypeOK
  <2> HIDE DEF t
  <2>4. (Stands(txn[s]))'
    BY <2>1, <2>2, <2>3 DEF t, Stands, StandsAssign, CurrentFor
  <2> QED BY <1>a, <1>b, <2>2, <2>4 DEF SerialInv
<1>2. ASSUME NEW s \in Sessions, NEW o \in Orders, TransferBegin(s, o) PROVE SerialInv'
  <2>1. PICK to \in Planners : txn' = [txn EXCEPT ![s] =
          [kind |-> "transfer", order |-> o, seen |-> order[o], to |-> to]]
    BY <1>2 DEF TransferBegin
  <2>2. Still
    BY <1>2 DEF TransferBegin
  <2>3. txn'[s].kind = "transfer" /\ txn'[s].order = o /\ txn'[s].seen = order[o]
    BY <2>1 DEF TypeOK
  <2>4. (Stands(txn[s]))'
    BY <2>2, <2>3 DEF Stands
  <2> QED BY <1>a, <1>b, <2>2, <2>4 DEF SerialInv
<1>3. ASSUME NEW s \in Sessions, NEW o \in Orders, ReviewBegin(s, o) PROVE SerialInv'
  <2>1. /\ txn' = [txn EXCEPT ![s] =
             [kind |-> "review", order |-> o, seen |-> order[o],
              read |-> NoResponse, decision |-> "pending"]]
        /\ Still /\ order[o].state \in {"synced", "in_review"}
    BY <1>3 DEF ReviewBegin
  <2>2. (Stands(txn[s]))'
    BY <1>e, <2>1 DEF Stands, StandsReview
  <2> QED BY <1>a, <1>b, <2>1, <2>2 DEF SerialInv
<1>4. ASSUME NEW s \in Sessions, NEW d \in Devices, NEW o \in Orders, PushBegin(s, d, o)
      PROVE  SerialInv'
  <2>1. /\ txn' = [txn EXCEPT ![s] =
             [kind |-> "push", order |-> o, device |-> d, loaded |-> TRUE,
              seen |-> order[o], row |-> order[o], marks |-> {},
              read |-> response[o], draft |-> response[o]]]
        /\ Still
    BY <1>4 DEF PushBegin
  <2> DEFINE t == txn'[s]
  <2>2. /\ t.kind = "push" /\ t.order = o /\ t.seen = order[o] /\ t.row = order[o]
        /\ t.read = response[o] /\ t.draft = response[o]
    BY <2>1 DEF TypeOK
  <2> HIDE DEF t
  <2>3. (Stands(txn[s]))'
    BY <2>1, <2>2 DEF t, Stands, StandsPush
  <2> QED BY <1>a, <1>b, <2>1, <2>3 DEF SerialInv
<1>5. ASSUME NEW s \in Sessions, AssignReadCustody(s) PROVE SerialInv'
  <2> DEFINE t == txn[s]
  <2>1. t \in AssignTxn /\ StandsAssign(t) /\ Still
    BY <1>5, <1>d, TxnKinds DEF AssignReadCustody, Stands
  <2>2. PICK i \in 0 .. Len(custody[t.order]) :
          /\ IF i = 0 THEN OpenRows(custody[t.order]) = {}
                      ELSE i \in OpenRows(custody[t.order])
          /\ txn' = [txn EXCEPT ![s] = [t EXCEPT !.holder = i, !.checked = TRUE]]
    BY <1>5 DEF AssignReadCustody
  <2> DEFINE x == [t EXCEPT !.holder = i, !.checked = TRUE]
  <2>3. /\ x.kind = "assign" /\ x.seen = t.seen /\ x.order = t.order
        /\ x.expected = t.expected /\ x.holder = i
    BY <2>1 DEF AssignTxn
  <2>4. txn'[s] = x
    BY <2>2 DEF TypeOK
  <2> HIDE DEF x, t
  <2>5. (Stands(txn[s]))'
    BY <2>1, <2>2, <2>3, <2>4 DEF Stands, StandsAssign, OpenRows
  <2> QED BY <1>a, <1>b, <2>1, <2>5 DEF SerialInv
<1>6. ASSUME NEW s \in Sessions, AssignCommit(s) PROVE SerialInv'
  BY <1>6, <1>a, <1>c, AssignSettles DEF SerialInv, AssignCommit
<1>7. ASSUME NEW s \in Sessions, TransferCommit(s) PROVE SerialInv'
  BY <1>7, <1>a, <1>c, TransferSettles DEF SerialInv, TransferCommit
<1>8. ASSUME NEW s \in Sessions, PushNext(s) PROVE SerialInv'
  <2> DEFINE t == txn[s]
             x == Reloaded(t)
  <2>1. t \in PushTxn /\ StandsPush(t) /\ Still /\ txn' = [txn EXCEPT ![s] = x]
    BY <1>8, <1>d, TxnKinds DEF PushNext, Stands
  <2>2. x \in PushTxn /\ x.order = t.order
    BY <2>1, ReloadedFacts
  <2>3. x.seen = t.seen /\ x.row = t.row /\ x.read = t.read /\ x.draft = t.draft
    <3> DEFINE seen == IF t.row = t.seen THEN order[t.order] ELSE t.seen
               row == IF t.row = t.seen THEN order[t.order] ELSE t.row
               read == IF t.draft = t.read THEN response[t.order] ELSE t.read
               draft == IF t.draft = t.read THEN response[t.order] ELSE t.draft
    <3>1. seen = t.seen /\ row = t.row /\ read = t.read /\ draft = t.draft
      BY <2>1 DEF StandsPush
    <3>2. x = [t EXCEPT !.loaded = TRUE, !.seen = seen, !.row = row,
                        !.read = read, !.draft = draft]
      BY DEF Reloaded
    <3> HIDE DEF seen, row, read, draft, x
    <3> QED BY <2>1, <3>1, <3>2 DEF PushTxn
  <2>4. txn'[s] = x
    BY <2>1 DEF TypeOK
  <2> HIDE DEF x, t
  <2>5. (Stands(txn[s]))'
    BY <2>1, <2>2, <2>3, <2>4 DEF Stands, StandsPush, PushTxn
  <2> QED BY <1>a, <1>b, <2>1, <2>5 DEF SerialInv
<1>9. ASSUME NEW s \in Sessions, PushTransition(s) PROVE SerialInv'
  <2> DEFINE t == txn[s]
  <2>1. t \in PushTxn /\ StandsPush(t) /\ Still
    BY <1>9, <1>d, TxnKinds DEF PushTransition, Stands
  <2>2. PICK target \in DeviceTargets(t.row.state) :
          txn' = [txn EXCEPT ![s] = [t EXCEPT
            !.loaded = FALSE,
            !.row = [t.row EXCEPT !.state = target, !.version = t.row.version + 1],
            !.marks = @ \cup MILESTONE_OF_STATE(target)]]
    BY <1>9 DEF PushTransition
  <2> DEFINE row == [t.row EXCEPT !.state = target, !.version = t.row.version + 1]
             x == [t EXCEPT !.loaded = FALSE, !.row = row,
                            !.marks = @ \cup MILESTONE_OF_STATE(target)]
  <2>3. target # "approved" /\ t.row.state # "approved"
    BY <2>1, <2>2, PhonesApproveNothing DEF PushTxn, OrderRow
  <2>4. row.state = target
    BY <2>1 DEF PushTxn, OrderRow
  <2> HIDE DEF row
  <2>5. /\ x.kind = "push" /\ x.order = t.order /\ x.seen = t.seen /\ x.row = row
        /\ x.read = t.read /\ x.draft = t.draft
    BY <2>1 DEF PushTxn
  <2>6. txn'[s] = x
    BY <2>2 DEF TypeOK, row
  <2> HIDE DEF x, t
  <2>7. (Stands(txn[s]))'
    BY <2>1, <2>3, <2>4, <2>5, <2>6 DEF Stands, StandsPush
  <2> QED BY <1>a, <1>b, <2>1, <2>7 DEF SerialInv
<1>10. ASSUME NEW s \in Sessions, PushForm(s) PROVE SerialInv'
  <2> DEFINE t == txn[s]
  <2>1. t \in PushTxn /\ StandsPush(t) /\ Still /\ t.draft.state \in Editable
    BY <1>10, <1>d, TxnKinds DEF PushForm, Stands
  <2>2. PICK submit \in BOOLEAN :
          txn' = [txn EXCEPT ![s] = [t EXCEPT
            !.loaded = FALSE,
            !.draft = [state |-> AfterSave(t.draft.state, submit), by |-> t.device]]]
    BY <1>10 DEF PushForm
  <2> DEFINE draft == [state |-> AfterSave(t.draft.state, submit), by |-> t.device]
             x == [t EXCEPT !.loaded = FALSE, !.draft = draft]
  <2>3. draft.state # "aprobada"
    BY <2>1 DEF AfterSave, Editable
  <2>4. t.read.state \in Editable
    BY <2>1 DEF StandsPush
  <2> HIDE DEF draft
  <2>5. /\ x.kind = "push" /\ x.order = t.order /\ x.seen = t.seen /\ x.row = t.row
        /\ x.read = t.read /\ x.draft = draft
    BY <2>1 DEF PushTxn
  <2>6. txn'[s] = x
    BY <2>2 DEF TypeOK, draft
  <2> HIDE DEF x, t
  <2>7. (Stands(txn[s]))'
    BY <2>1, <2>3, <2>4, <2>5, <2>6 DEF Stands, StandsPush
  <2> QED BY <1>a, <1>b, <2>1, <2>7 DEF SerialInv
<1>11. ASSUME NEW s \in Sessions, PushCommit(s) PROVE SerialInv'
  BY <1>11, <1>a, <1>c, PushSettles DEF SerialInv, PushCommit
<1>12. ASSUME NEW s \in Sessions, ReviewRead(s) PROVE SerialInv'
  <2> DEFINE t == txn[s]
  <2>1. t \in ReviewTxn /\ StandsReview(t) /\ Still
    BY <1>12, <1>d, TxnKinds DEF ReviewRead, Stands
  <2>2. PICK decision \in {"approved", "returned", "cancelled"} :
          /\ decision = "approved" => Approvable(response[t.order])
          /\ txn' = [txn EXCEPT ![s] =
               [t EXCEPT !.read = response[t.order], !.decision = decision]]
    BY <1>12 DEF ReviewRead
  <2> DEFINE x == [t EXCEPT !.read = response[t.order], !.decision = decision]
  <2>3. /\ x.kind = "review" /\ x.order = t.order /\ x.seen = t.seen
        /\ x.read = response[t.order] /\ x.decision = decision
    BY <2>1 DEF ReviewTxn
  <2>4. txn'[s] = x
    BY <2>2 DEF TypeOK
  <2> HIDE DEF x, t
  <2>5. (Stands(txn[s]))'
    BY <2>1, <2>2, <2>3, <2>4 DEF Stands, StandsReview
  <2> QED BY <1>a, <1>b, <2>1, <2>5 DEF SerialInv
<1>13. ASSUME NEW s \in Sessions, ReviewCommit(s) PROVE SerialInv'
  BY <1>13, <1>a, <1>c, ReviewSettles DEF SerialInv, ReviewCommit
<1>14. ASSUME NEW s \in Sessions, Rollback(s) PROVE SerialInv'
  BY <1>14, <1>a, <1>b, <1>c DEF SerialInv, Rollback
<1>15. CASE Still /\ txn' = txn
  BY <1>b, <1>d, <1>15
  DEF SerialInv, Stands, StandsAssign, StandsPush, StandsReview, OpenRows
<1>16. ASSUME NEW d \in Devices, NEW o \in Orders, Pull(d, o) PROVE SerialInv'
  BY <1>15, <1>16 DEF Pull
<1>17. CASE UNCHANGED vars
  BY <1>15, <1>17 DEF vars
<1> QED BY <1>1, <1>2, <1>3, <1>4, <1>5, <1>6, <1>7, <1>8, <1>9, <1>10, <1>11, <1>12,
           <1>13, <1>14, <1>16, <1>17 DEF Next

LEMMA SerialAlways ==
  ASSUME OneAtATime
  PROVE  Spec => []SerialInv
<1>1. Init => SerialInv
  <2> SUFFICES ASSUME Init PROVE SerialInv
    OBVIOUS
  <2>1. OneHolder
    BY DEF Init, OneHolder, OpenRows
  <2>2. SettledTogether
    <3> SUFFICES ASSUME NEW o \in Orders
                 PROVE  order[o].state # "approved" /\ response[o].state # "aprobada"
      BY DEF SettledTogether
    <3> QED BY DEF Init, NoResponse
  <2>3. \A s \in Sessions : Stands(txn[s])
    BY DEF Init, Stands, Idle
  <2> QED BY <2>1, <2>2, <2>3 DEF SerialInv
<1>2. TypeOK /\ SerialInv /\ [Next]_vars => SerialInv'
  BY SerialSteps
<1> QED BY <1>1, <1>2, TypeCorrect, PTL DEF Spec

(* One holder at a time, when requests do not overlap: a reassignment       *)
(* closes the only open row of the chain and opens the next.                *)
THEOREM SerialHolder ==
  ASSUME OneAtATime
  PROVE  Spec => []OneHolder
<1>1. SerialInv => OneHolder
  BY DEF SerialInv
<1> QED BY <1>1, SerialAlways, PTL

(* An order is approved together with its response, when requests do not    *)
(* overlap, round any number of returns.                                    *)
THEOREM SerialSettled ==
  ASSUME OneAtATime
  PROVE  Spec => []SettledTogether
<1>1. SerialInv => SettledTogether
  BY DEF SerialInv
<1> QED BY <1>1, SerialAlways, PTL

(* RF-311, when requests do not overlap: an assignment that names a version *)
(* is applied to that version.                                              *)
THEOREM SerialLock ==
  ASSUME OneAtATime
  PROVE  Spec => OptimisticLock
<1> DEFINE Locked == \A s \in Sessions :
             (txn[s].kind = "assign" /\ custody' # custody /\ txn'[s] = Idle)
               => (txn[s].expected # 0 =>
                     txn[s].expected = order[txn[s].order].version)
<1>1. TypeOK /\ SerialInv /\ [Next]_vars => [Locked]_vars
  <2> SUFFICES ASSUME SerialInv, NEW s \in Sessions, txn[s].kind = "assign", txn[s].expected # 0
               PROVE  txn[s].expected = order[txn[s].order].version
    OBVIOUS
  <2> QED BY DEF SerialInv, Stands, StandsAssign
<1> QED BY <1>1, SerialAlways, TypeCorrect, PTL DEF Spec, OptimisticLock

(* What was submitted is nobody's to change until the supervisor decides,   *)
(* when requests do not overlap.                                            *)
THEOREM SerialAnswers ==
  ASSUME OneAtATime
  PROVE  Spec => AnswersFrozen
<1> DEFINE Frozen == \A o \in Orders :
             response[o].state \in {"enviada", "aprobada"} =>
               /\ response'[o].by = response[o].by
               /\ response'[o].state \in {response[o].state, "aprobada", "devuelta"}
<1>1. TypeOK /\ SerialInv /\ Next => Frozen
  <2> SUFFICES ASSUME TypeOK, SerialInv, Next PROVE Frozen
    OBVIOUS
  <2>1. CASE response' = response
    BY <2>1
  <2>2. ASSUME NEW s \in Sessions, PushCommit(s) PROVE Frozen
    <3> DEFINE t == txn[s]
    <3>1. t \in PushTxn /\ StandsPush(t)
      BY <2>2, TxnKinds DEF TypeOK, PushCommit, SerialInv, Stands
    <3>2. response' = [response EXCEPT ![t.order] = Written(t.read, t.draft, response[t.order])]
      BY <2>2 DEF PushCommit
    <3>3. /\ t.order \in Orders /\ t.read = response[t.order]
          /\ t.read \in ResponseRow /\ t.draft \in ResponseRow
      BY <3>1 DEF StandsPush, PushTxn
    <3>4. response' = [response EXCEPT ![t.order] = t.draft]
      <4> HIDE DEF t
      <4> QED BY <3>2, <3>3, WrittenOverRead
    <3>5. t.draft # t.read => t.read.state \notin {"enviada", "aprobada"}
      BY <3>1 DEF StandsPush, Editable
    <3> HIDE DEF t
    <3> QED BY <3>3, <3>4, <3>5 DEF TypeOK
  <2>3. ASSUME NEW s \in Sessions, ReviewCommit(s) PROVE Frozen
    <3> DEFINE t == txn[s]
               after == Decided(t.read, t.decision)
    <3>1. /\ t \in ReviewTxn /\ StandsReview(t)
          /\ t.decision \in {"approved", "returned", "cancelled"}
      BY <2>3, TxnKinds DEF TypeOK, ReviewCommit, ReviewTxn, SerialInv, Stands
    <3>2. response' = [response EXCEPT ![t.order] = Written(t.read, after, response[t.order])]
      BY <2>3 DEF ReviewCommit
    <3>3. t.order \in Orders /\ t.read = response[t.order] /\ t.read \in ResponseRow
      BY <3>1 DEF StandsReview, ReviewTxn
    <3>4. /\ after \in ResponseRow /\ after.by = t.read.by
          /\ after.state \in {t.read.state, "aprobada", "devuelta"}
      <4> HIDE DEF t
      <4> QED BY <3>1, <3>3, DecidedFacts DEF after
    <3>5. response' = [response EXCEPT ![t.order] = after]
      <4> HIDE DEF t, after
      <4> QED BY <3>2, <3>3, <3>4, WrittenOverRead
    <3> HIDE DEF t, after
    <3> QED BY <3>3, <3>4, <3>5 DEF TypeOK
  <2> QED
    BY <2>1, <2>2, <2>3
    DEF Next, AssignBegin, TransferBegin, ReviewBegin, PushBegin, AssignReadCustody,
        AssignCommit, TransferCommit, PushNext, PushTransition, PushForm, ReviewRead,
        Rollback, Pull
<1>2. TypeOK /\ SerialInv /\ [Next]_vars => [Frozen]_vars
  BY <1>1
<1> QED BY <1>2, SerialAlways, TypeCorrect, PTL DEF Spec, AnswersFrozen

\* Who holds an order and what a former holder may owe are on record, whatever the
\* sessions interleave.
THEOREM CustodyAlwaysAccounts == Spec => []CustodyAccounts
  BY AlwaysHeld, DebtAlwaysShown, PTL DEF CustodyAccounts
=============================================================================
