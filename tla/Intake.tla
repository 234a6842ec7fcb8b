------------------------------- MODULE Intake -------------------------------
(***************************************************************************)
(* Work that comes from the other systems: the imports of the corporate    *)
(* work-order platform, of the OMS and of the call centre                  *)
(* (integrations/workorder_adapter.py, oms_adapter.py,                     *)
(* callcentre_adapter.py).  The three are one loop: publish what arrived   *)
(* in the ledger, look for the order by unit and external reference,       *)
(* create it if it is not there.                                           *)
(*                                                                         *)
(* An import is one transaction over a page of items.  What it wrote is    *)
(* seen by nobody before it commits; an insert of a key another import     *)
(* holds waits for it, and fails once that one committed.                  *)
(***************************************************************************)
EXTENDS Naturals, Sequences, FiniteSets

CONSTANTS
  Importers,   \* sessions that import
  Boards,      \* business units
  Refs,        \* references and ids of the other systems, one namespace
  Pages,       \* pages they answer with: sequences of references
  Nothing,     \* no row, no order
  MaxImports   \* bound: imports begun

ASSUME PagesAreOfRefs == Pages \subseteq Seq(Refs)

VARIABLES
  jobs,    \* work_order rows with an external reference
  inbound, \* integration_event rows: by connector and key
  import,  \* open imports
  begun,   \* imports begun so far
  replied  \* items an import answered for, as created or already known

ivars == <<jobs, inbound, import, begun, replied>>

Connector == {"work_orders", "oms", "call_centre"}

\* The key of an item is its reference; that of a page nobody answered, `Nothing`.
Key == Connector \X (Refs \cup {Nothing})
ItemKey == Connector \X Refs
Job == [unit: Boards, ref: Refs, from: Connector]
\* work_order_id of an inbound row; a row of a page that failed has none.
InboundRow == [unit: Boards, order: (Boards \X Refs) \cup {Nothing}]

ASSUME ImportBound == MaxImports \in Nat
ASSUME NothingIsNothing == Nothing \notin Refs /\ Nothing \notin InboundRow

NoImport == [at |-> "none"]

IntakeInit ==
  /\ jobs = {}
  /\ inbound = [k \in Key |-> Nothing]
  /\ import = [i \in Importers |-> NoImport]
  /\ begun = 0
  /\ replied = {}

-----------------------------------------------------------------------------
(* What a session reads and what it may write *)

Sees(i, key) ==
  IF import[i].rows[key] # Nothing THEN import[i].rows[key] ELSE inbound[key]

SeesJob(i, unit, ref) ==
  \E j \in jobs \cup import[i].made : j.unit = unit /\ j.ref = ref

Others(i) == {j \in Importers \ {i} : import[j] # NoImport}

\* uq_integration_identity: connector, direction and key, whatever the unit.
MayInsert(i, key) ==
  inbound[key] = Nothing /\ \A j \in Others(i) : import[j].rows[key] = Nothing

\* A row another import wrote is locked until that one ends.
MayUpdate(i, key) == \A j \in Others(i) : import[j].rows[key] = Nothing

\* Mutant: the look for the order is all that keeps a reference to one order.
AnyReference(i, unit, ref) == TRUE

\* uq_work_order_external_ref
MayCreate(i, unit, ref) ==
  \A j \in jobs \cup UNION {import[k].made : k \in Others(i)} :
    ~(j.unit = unit /\ j.ref = ref)

-----------------------------------------------------------------------------
(* An import, item by item *)

ImportBegin(i) ==
  /\ import[i] = NoImport
  /\ begun < MaxImports
  /\ begun' = begun + 1
  /\ \E connector \in Connector, unit \in Boards, page \in Pages :
       import' = [import EXCEPT ![i] =
         [at |-> "look", connector |-> connector, unit |-> unit, page |-> page,
          left |-> page, rows |-> [k \in Key |-> Nothing], made |-> {}, known |-> FALSE]]
  /\ UNCHANGED <<jobs, inbound, replied>>

\* TransportError: the failure is published and marked, and raised on.
ImportUnreachable(i) ==
  LET key == <<import[i].connector, Nothing>> IN
  /\ import[i].at = "look"
  /\ import[i].left = import[i].page
  /\ Sees(i, key) # Nothing \/ MayInsert(i, key)
  /\ import' = [import EXCEPT ![i].at = "raised",
       ![i].rows[key] = [unit |-> import[i].unit, order |-> Nothing]]
  /\ UNCHANGED <<jobs, inbound, begun, replied>>

\* `publish` selects by connector, direction and key.
PublishLook(i) ==
  /\ import[i].at = "look"
  /\ import[i].left # <<>>
  /\ LET key == <<import[i].connector, Head(import[i].left)>> IN
     import' = [import EXCEPT ![i].at = "publish", ![i].known = Sees(i, key) # Nothing]
  /\ UNCHANGED <<jobs, inbound, begun, replied>>

\* It inserts what it did not find, and leaves a delivered row as it is; then
\* the order is looked for.
PublishFlush(i) ==
  LET unit == import[i].unit
      ref == Head(import[i].left)
      key == <<import[i].connector, ref>>
  IN
  /\ import[i].at = "publish"
  /\ import[i].known \/ MayInsert(i, key)
  /\ import' = [import EXCEPT
       ![i].at = "settle",
       ![i].rows[key] = IF import[i].known THEN @ ELSE [unit |-> unit, order |-> Nothing],
       ![i].known = SeesJob(i, unit, ref)]
  /\ UNCHANGED <<jobs, inbound, begun, replied>>

\* `create_work_order` if there was none; the row is marked delivered with its
\* order.
Settle(i) ==
  LET unit == import[i].unit
      ref == Head(import[i].left)
      key == <<import[i].connector, ref>>
  IN
  /\ import[i].at = "settle"
  /\ import[i].known \/ MayCreate(i, unit, ref)
  /\ MayUpdate(i, key)
  /\ import' = [import EXCEPT
       ![i].at = "look",
       ![i].left = Tail(@),
       ![i].made = IF import[i].known THEN @
                   ELSE @ \cup {[unit |-> unit, ref |-> ref, from |-> import[i].connector]},
       ![i].rows[key] = [unit |-> Sees(i, key).unit, order |-> <<unit, ref>>]]
  /\ UNCHANGED <<jobs, inbound, begun, replied>>

Merged(i) ==
  [k \in Key |-> IF import[i].rows[k] # Nothing THEN import[i].rows[k] ELSE inbound[k]]

ImportCommit(i) ==
  /\ import[i].at = "look"
  /\ import[i].left = <<>>
  /\ jobs' = jobs \cup import[i].made
  /\ inbound' = Merged(i)
  /\ replied' = replied \cup
       {[connector |-> import[i].connector, unit |-> import[i].unit, ref |-> r] :
          r \in {import[i].page[n] : n \in DOMAIN import[i].page}}
  /\ import' = [import EXCEPT ![i] = NoImport]
  /\ UNCHANGED begun

\* A key taken meanwhile, a deadlock, an item the catalogue refuses, the end of
\* the process, or the 502 of a page nobody answered: all of it goes.
ImportRollsBack(i) ==
  /\ import[i] # NoImport
  /\ import' = [import EXCEPT ![i] = NoImport]
  /\ UNCHANGED <<jobs, inbound, begun, replied>>

IntakeNext ==
  \E i \in Importers :
    ImportBegin(i) \/ ImportUnreachable(i) \/ PublishLook(i) \/ PublishFlush(i)
    \/ Settle(i) \/ ImportCommit(i) \/ ImportRollsBack(i)

IntakeSpec == IntakeInit /\ [][IntakeNext]_ivars

-----------------------------------------------------------------------------
(* Properties *)

IntakeTypeOK ==
  /\ jobs \subseteq Job
  /\ inbound \in [Key -> InboundRow \cup {Nothing}]
  /\ begun \in 0 .. MaxImports
  /\ replied \subseteq [connector: Connector, unit: Boards, ref: Refs]

\* RF-011, RF-120: orders and ledger tell the same story, whichever imports ran
\* at once and wherever they stopped.  No two orders of a unit are for one
\* reference; every order is explained by the exchange that brought it; every
\* item on the ledger ended in an order that exists, for the reference it came
\* with; and what an import answered for is there.  The row of a page nobody
\* answered is no item and owes no order.
LedgerExplains ==
  /\ \A j, k \in jobs : j.unit = k.unit /\ j.ref = k.ref => j = k
  /\ \A j \in jobs :
       /\ inbound[<<j.from, j.ref>>] # Nothing
       /\ inbound[<<j.from, j.ref>>].order[2] = j.ref
  /\ \A k \in ItemKey : inbound[k] # Nothing =>
       \E j \in jobs : inbound[k].order = <<j.unit, j.ref>> /\ j.ref = k[2]
  /\ \A a \in replied : \E j \in jobs : j.unit = a.unit /\ j.ref = a.ref

(* What the documents say and the code does not keep *)

\* "Turn open claims into work orders, once each": an id the OMS also uses is
\* taken for known, and the order the claim is left with never closes it.
ClaimsBecomeWork ==
  \A a \in replied : a.connector = "call_centre" =>
    \E j \in jobs : j.unit = a.unit /\ j.ref = a.ref /\ j.from = "call_centre"

\* "An import that could not even happen is information the integrations screen
\* has to show."
FailureIsShown ==
  [][\A i \in Importers : import[i].at = "raised" /\ import'[i].at = "none" =>
       inbound'[<<import[i].connector, Nothing>>] # Nothing]_ivars

\* A row of a unit names an order of that unit.
OwnOrder == \A k \in ItemKey : inbound[k] # Nothing => inbound[k].order[1] = inbound[k].unit
=============================================================================
