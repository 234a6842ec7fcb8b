----------------------------- MODULE DeltaPull -----------------------------
(***************************************************************************)
(* How the orders the office moves reach the phones, and leave them: the   *)
(* pull by cursor of sync/service.py, over rows whose updated_at is the    *)
(* moment their transaction began, and the declarations that change which  *)
(* orders a phone is meant to hold.                                        *)
(*                                                                         *)
(* A phone is reached through doors: its person, its crew, or a custody    *)
(* row that names it.  The server answers a pull from one query; nothing   *)
(* reads the phone while the answer travels, so a pull and its answer, or  *)
(* the loss of it, are one step.                                           *)
(***************************************************************************)
EXTENDS Naturals, FiniteSets

CONSTANTS
  Orders,       \* ids of work orders: positive numbers, as ids have an order
  Phones,
  People,
  Crews,
  Sessions,     \* transactions of the office that may be open at once
  Limit,        \* orders a page carries
  None,
  MaxClock,     \* bound: the moments at which transactions begin
  MaxDeclared   \* bound: times phones are declared or enrolled anew

ASSUME OrdersNumbered == Orders \subseteq Nat \ {0} /\ IsFiniteSet(Orders)
ASSUME LimitPositive == Limit \in Nat \ {0}
ASSUME BoundsGiven == MaxClock \in Nat \ {0} /\ MaxDeclared \in Nat

VARIABLES
  clock,      \* the database's clock
  txn,        \* when each open transaction began, 0 if none
  order,      \* work_order rows
  person,     \* whose phone it is: device.user_sub
  crew,       \* the crew it is declared for: device.crew_id
  delivered,  \* work_order_delivery: what the server handed to each phone
  cursor,     \* the position each phone has reached
  held,       \* the copy of each order on each phone
  declared,   \* declarations made so far
  behind      \* history: orders that changed for a phone at or behind its cursor

vars == <<clock, txn, order, person, crew, delivered, cursor, held, declared, behind>>

Door == People \cup Crews \cup Phones
Row == [to: Door \cup {None}, field: BOOLEAN, updated: 1 .. MaxClock]

\* (updated_at, id) and its order; the start is before everything.
Position == (0 .. MaxClock) \X (Orders \cup {0})
Start == <<0, 0>>
Pos(o) == <<order[o].updated, o>>
After(a, b) == a[1] > b[1] \/ (a[1] = b[1] /\ a[2] > b[2])

\* Whether an order belongs on a phone: the three doors, in a field state.
Reached(row, p, owner, squad) ==
  row.field /\ row.to \in {p, owner, squad} \ {None}
_reaches(p, o) == Reached(order[o], p, person[p], crew[p])

Init ==
  /\ clock = 1
  /\ txn = [s \in Sessions |-> 0]
  /\ order = [o \in Orders |-> [to |-> None, field |-> FALSE, updated |-> 1]]
  /\ person \in [Phones -> People]
  /\ crew = [p \in Phones |-> None]
  /\ delivered = [p \in Phones |-> {}]
  /\ cursor = [p \in Phones |-> Start]
  /\ held = [p \in Phones |-> [o \in Orders |-> None]]
  /\ declared = 0
  /\ behind = {}

-----------------------------------------------------------------------------
(* The office *)

\* A transaction begins: now() will say this moment until it ends.
Begin(s) ==
  /\ txn[s] = 0
  /\ clock < MaxClock
  /\ clock' = clock + 1
  /\ txn' = [txn EXCEPT ![s] = clock + 1]
  /\ UNCHANGED <<order, person, crew, delivered, cursor, held, declared, behind>>

\* It assigns, reassigns, closes, cancels or returns orders, several by lasso,
\* and commits: whatever the change, the row takes the moment it began.
Commit(s) ==
  /\ txn[s] # 0
  /\ \E changed \in SUBSET Orders \ {{}}, door \in Door, inField \in BOOLEAN :
       /\ order' = [o \in Orders |->
                      IF o \in changed
                        THEN [to |-> door, field |-> inField, updated |-> txn[s]]
                        ELSE order[o]]
       /\ behind' = {m \in behind : m[2] \notin changed} \cup
                    {m \in Phones \X changed : ~After(<<txn[s], m[2]>>, cursor[m[1]])}
  /\ txn' = [txn EXCEPT ![s] = 0]
  /\ UNCHANGED <<clock, person, crew, delivered, cursor, held, declared>>

Rollback(s) ==
  /\ txn[s] # 0
  /\ txn' = [txn EXCEPT ![s] = 0]
  /\ UNCHANGED <<clock, order, person, crew, delivered, cursor, held, declared, behind>>

\* Orders whose belonging changes with the phone's identity; no row is written.
Moved(p, owner, squad) ==
  {o \in Orders : /\ _reaches(p, o) # Reached(order[o], p, owner, squad)
                  /\ ~After(Pos(o), cursor[p])}

\* The crew's shared phone is declared, or released.
assign_device_to_crew(p, c) ==
  /\ declared < MaxDeclared
  /\ c # crew[p]
  /\ crew' = [crew EXCEPT ![p] = c]
  /\ declared' = declared + 1
  /\ behind' = behind \cup ({p} \X Moved(p, person[p], c))
  /\ UNCHANGED <<clock, txn, order, person, delivered, cursor, held>>

\* A phone enrolled before is enrolled again by another person.
enrol_device(p, sub) ==
  /\ declared < MaxDeclared
  /\ sub # person[p]
  /\ person' = [person EXCEPT ![p] = sub]
  /\ declared' = declared + 1
  /\ behind' = behind \cup ({p} \X Moved(p, sub, crew[p]))
  /\ UNCHANGED <<clock, txn, order, crew, delivered, cursor, held>>

-----------------------------------------------------------------------------
(* The pull *)

\* Mutant: a cursor of timestamps alone.
LaterStamp(o, p) == order[o].updated > cursor[p][1]

\* Mutant: the cursor's own row is taken again.
AtOrAfter(o, p) == ~After(cursor[p], Pos(o))

Unseen(o, p) == After(Pos(o), cursor[p])

\* Deliveries and withdrawals ride one query: what the phone should hold and
\* what it was once handed.
Changed(p) ==
  {o \in Orders : (_reaches(p, o) \/ o \in delivered[p]) /\ Unseen(o, p)}

Page(p) ==
  {o \in Changed(p) : Cardinality({x \in Changed(p) : After(Pos(o), Pos(x))}) < Limit}

\* Mutant: a withdrawal takes the order off the ledger.
TidiedUp(p) ==
  {o \in delivered[p] \cup Page(p) : _reaches(p, o) \/ o \notin Page(p)}

\* record_delivery, in the transaction of the pull.
Recorded(p) == delivered[p] \cup {o \in Page(p) : _reaches(p, o)}

\* Mutant: the phone stores the null cursor of an empty page.
NullStored(p) ==
  IF Page(p) = {} THEN None
  ELSE CHOOSE pos \in {Pos(o) : o \in Page(p)} : \A o \in Page(p) : ~After(Pos(o), pos)

\* The position of the last row; without news the phone keeps the one it has.
NextCursor(p) ==
  IF Page(p) = {} THEN cursor[p]
  ELSE CHOOSE pos \in {Pos(o) : o \in Page(p)} : \A o \in Page(p) : ~After(Pos(o), pos)

\* The server answers and the answer arrives.
Pull(p) ==
  /\ delivered' = [delivered EXCEPT ![p] = Recorded(p)]
  /\ cursor' = [cursor EXCEPT ![p] = NextCursor(p)]
  /\ held' = [held EXCEPT ![p] =
       [o \in Orders |-> IF o \notin Page(p) THEN held[p][o]
                         ELSE IF _reaches(p, o) THEN order[o] ELSE None]]
  /\ UNCHANGED <<clock, txn, order, person, crew, declared, behind>>

\* The server answers, on record, and the answer is lost.
PullLost(p) ==
  /\ delivered' = [delivered EXCEPT ![p] = Recorded(p)]
  /\ UNCHANGED <<clock, txn, order, person, crew, cursor, held, declared, behind>>

\* A phone that lost its cursor, or everything, starts over.
StartOver(p) ==
  /\ cursor' = [cursor EXCEPT ![p] = Start]
  /\ \/ held' = [held EXCEPT ![p] = [o \in Orders |-> None]]
     \/ UNCHANGED held
  /\ behind' = {m \in behind : m[1] # p}
  /\ UNCHANGED <<clock, txn, order, person, crew, delivered, declared>>

-----------------------------------------------------------------------------
Office ==
  \E s \in Sessions : Begin(s) \/ Commit(s) \/ Rollback(s)

Declaration ==
  \E p \in Phones : \/ \E c \in Crews \cup {None} : assign_device_to_crew(p, c)
                    \/ \E sub \in People : enrol_device(p, sub)

Next ==
  \/ Office
  \/ Declaration
  \/ \E p \in Phones : Pull(p) \/ PullLost(p) \/ StartOver(p)

Spec == Init /\ [][Next]_vars

\* A phone keeps pulling, and now and then an answer arrives.
FairSpec == Spec /\ \A p \in Phones : WF_vars(Pull(p))

-----------------------------------------------------------------------------
(* Properties *)

TypeOK ==
  /\ clock \in 1 .. MaxClock
  /\ txn \in [Sessions -> 0 .. MaxClock]
  /\ order \in [Orders -> Row]
  /\ person \in [Phones -> People]
  /\ crew \in [Phones -> Crews \cup {None}]
  /\ delivered \in [Phones -> SUBSET Orders]
  /\ cursor \in [Phones -> Position]
  /\ held \in [Phones -> [Orders -> Row \cup {None}]]
  /\ declared \in 0 .. MaxDeclared
  /\ behind \subseteq Phones \X Orders

\* The phone holds the row as it is if it is meant to, and nothing otherwise.
Right(p, o) == held[p][o] = IF _reaches(p, o) THEN order[o] ELSE None

\* What a cursor promises: whatever lies at or behind it, the phone has right,
\* deliveries and withdrawals alike, across page boundaries, orders that share a
\* timestamp, lost answers and fresh starts.  The exceptions are the orders that
\* changed behind the phone's back: in a transaction older than its cursor, or
\* because the phone was declared anew.
CursorCovers ==
  \A p \in Phones, o \in Orders :
    After(Pos(o), cursor[p]) \/ Right(p, o) \/ <<p, o>> \in behind

\* No phone holds an order the server does not know it handed over: that ledger
\* is what finds the phones an order has to be withdrawn from.
LedgerCoversPhone ==
  \A p \in Phones, o \in Orders : held[p][o] # None => o \in delivered[p]

\* When the office rests and nothing changed behind its back, a phone ends up
\* with its orders and no others, one page at a time.
CatchesUp ==
  \A p \in Phones :
    <>[](behind = {}) /\ <>[][~Office /\ ~Declaration /\ ~StartOver(p)]_vars
      => <>[](\A o \in Orders : Right(p, o))

-----------------------------------------------------------------------------
(* What the documents say and the code does not keep *)

\* RF-320, "an assigned order appears in the next pull of the devices of that
\* crew": a phone with nothing left to pull has its orders.
NextPullBrings ==
  \A p \in Phones : Changed(p) = {} => \A o \in Orders : Right(p, o)
=============================================================================
