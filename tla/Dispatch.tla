------------------------------ MODULE Dispatch ------------------------------
(***************************************************************************)
(* What the dispatcher is told of the work sent out (dispatch/service.py)  *)
(* against what the phones carry: the board, one row a crew, and whether a *)
(* phone may leave; and the phone that is blocked and wiped (api/sync.py). *)
(*                                                                         *)
(* How a cursor finds what changed is module DeltaPull: here a phone has   *)
(* news of an order or has not.  Whether it has the package of its zone is *)
(* left out: one blocker fewer only lets more phones leave.                *)
(***************************************************************************)
EXTENDS Naturals, FiniteSets, FiniteSetsExt, OrderLifecycle

CONSTANTS
  Jobs,         \* work orders
  Squads,       \* crews, active
  Technicians,
  Tablets,      \* phones by their key
  NoHolder,
  MaxJobVersion, \* bound: changes of an order
  MaxRefused,    \* bound: operations of a phone refused
  MaxMishaps     \* bound: enrolments, declarations and reinstallations

ASSUME TabletsThere == Tablets # {}
ASSUME DispatchBounds ==
  MaxJobVersion \in Nat \ {0} /\ MaxRefused \in Nat /\ MaxMishaps \in Nat

VARIABLES
  job,       \* work_order rows
  tablet,    \* device rows
  handed,    \* work_order_delivery.delivered_version, 0 for no row
  copies,    \* the version of each order on each phone, 0 for none
  news,      \* orders changed since the cursor of each phone
  lost,      \* history: orders handed that did not arrive or went with the database
  mishaps    \* enrolments, declarations and reinstallations so far

dsvars == <<job, tablet, handed, copies, news, lost, mishaps>>

RETURNED_STATES == {"closed_field", "synced", "in_review"}
IN_PROGRESS_STATES == {"en_route", "on_site", "in_execution"}

Enrolled(p) == tablet[p].status # "unknown"

DispatchInit ==
  /\ job = [j \in Jobs |-> [state |-> "planned", crew |-> NoHolder, sub |-> NoHolder, version |-> 1]]
  /\ tablet = [p \in Tablets |-> [status |-> "unknown", sub |-> NoHolder, crew |-> NoHolder,
                                  synced |-> FALSE, refused |-> 0, wiped |-> FALSE]]
  /\ handed = [p \in Tablets |-> [j \in Jobs |-> 0]]
  /\ copies = handed
  /\ news = [p \in Tablets |-> Jobs]
  /\ lost = [p \in Tablets |-> {}]
  /\ mishaps = 0

-----------------------------------------------------------------------------
(* The office and the crews (module WorkOrders), by the states the board    *)
(* tells apart; every change is a version                                  *)

JobChanges(j, row) ==
  /\ job[j].version < MaxJobVersion
  /\ job' = [job EXCEPT ![j] = [row EXCEPT !.version = job[j].version + 1]]
  /\ news' = [p \in Tablets |-> news[p] \cup {j}]
  /\ UNCHANGED <<tablet, handed, copies, lost, mishaps>>

AssignJob(j, c, t) ==
  /\ job[j].state \in {"planned", "assigned"}
  /\ JobChanges(j, [job[j] EXCEPT !.state = "assigned", !.crew = c, !.sub = t])

JobMoves(j) ==
  \/ job[j].state = "assigned" /\ JobChanges(j, [job[j] EXCEPT !.state = "in_execution"])
  \/ job[j].state = "in_execution" /\ JobChanges(j, [job[j] EXCEPT !.state = "closed_field"])

-----------------------------------------------------------------------------
(* Who carries which phone *)

Mishap == mishaps < MaxMishaps /\ mishaps' = mishaps + 1

\* `enrol_device`, again after an upgrade or by another person: what it was stays.
enrol_device(p, t) ==
  /\ tablet[p].sub # t
  /\ Mishap
  /\ tablet' = [tablet EXCEPT ![p].sub = t,
                              ![p].status = IF Enrolled(p) THEN @ ELSE "active"]
  /\ UNCHANGED <<job, handed, copies, news, lost>>

\* `set_device_crew`: no order changes, and no phone has news of it.
set_device_crew(p, c) ==
  /\ Enrolled(p) /\ tablet[p].crew # c
  /\ Mishap
  /\ tablet' = [tablet EXCEPT ![p].crew = c]
  /\ UNCHANGED <<job, handed, copies, news, lost>>

\* The phone starts with an empty database; the server learns nothing of it.
Reinstall(p) ==
  /\ copies[p] # [j \in Jobs |-> 0] \/ news[p] # Jobs
  /\ Mishap
  /\ copies' = [copies EXCEPT ![p] = [j \in Jobs |-> 0]]
  /\ news' = [news EXCEPT ![p] = Jobs]
  /\ lost' = [lost EXCEPT ![p] = {j \in Jobs : handed[p][j] # 0}]
  /\ UNCHANGED <<job, tablet, handed>>

-----------------------------------------------------------------------------
(* Synchronising *)

resolve_device(p) == tablet[p].status = "active"

Reaches(p, j) ==
  /\ job[j].state \in SYNCABLE_STATES
  /\ job[j].sub = tablet[p].sub \/ (tablet[p].crew # NoHolder /\ job[j].crew = tablet[p].crew)

\* The orders handed, and those taken back.
pull_work_orders(p) ==
  LET page == {j \in news[p] : Reaches(p, j) \/ handed[p][j] # 0}
  IN [orders |-> {j \in page : Reaches(p, j)}, withdrawn |-> {j \in page : ~Reaches(p, j)}]

\* Mutant: the whole page is on record as handed.
record_page(p, page) ==
  [j \in Jobs |-> IF j \in page.orders \cup page.withdrawn THEN job[j].version ELSE handed[p][j]]

\* Per order and phone: a phone that pulls again has its row put at the version handed.
record_delivery(p, page) ==
  [j \in Jobs |-> IF j \in page.orders THEN job[j].version ELSE handed[p][j]]

\* The hand-over is on record whether or not the answer arrives.
PullPage(p, arrives) ==
  /\ resolve_device(p)
  /\ LET page == pull_work_orders(p)
     IN /\ handed' = [handed EXCEPT ![p] = record_delivery(p, page)]
        /\ IF arrives
             THEN copies' = [copies EXCEPT ![p] =
                    [j \in Jobs |-> IF j \in page.orders THEN job[j].version
                                    ELSE IF j \in page.withdrawn THEN 0 ELSE @[j]]]
             ELSE UNCHANGED copies
        /\ lost' = [lost EXCEPT ![p] = IF arrives THEN @ \ page.orders ELSE @ \cup page.orders]
  /\ news' = IF arrives THEN [news EXCEPT ![p] = {}] ELSE news
  /\ UNCHANGED <<job, tablet, mishaps>>

\* `push_operation`: this is what counts as having synchronised.  A refused
\* operation stays refused.
PushOperation(p, accepted) ==
  /\ resolve_device(p)
  /\ accepted \/ tablet[p].refused < MaxRefused
  /\ tablet' = [tablet EXCEPT ![p].synced = TRUE, ![p].refused = IF accepted THEN @ ELSE @ + 1]
  /\ UNCHANGED <<job, handed, copies, news, lost, mishaps>>

\* `block_device`: a phone reported lost.
block_device(p) ==
  /\ tablet[p].status = "active"
  /\ tablet' = [tablet EXCEPT ![p].status = "blocked"]
  /\ UNCHANGED <<job, handed, copies, news, lost, mishaps>>

\* `_device` refuses a blocked phone with the instruction to destroy what it has.
ToldToWipe(p) ==
  /\ tablet[p].status = "blocked"
  /\ copies' = [copies EXCEPT ![p] = [j \in Jobs |-> 0]]
  /\ lost' = [lost EXCEPT ![p] = {j \in Jobs : handed[p][j] # 0}]
  /\ UNCHANGED <<job, tablet, handed, news, mishaps>>

\* Taken for any phone enrolled, blocked or not, from whoever names it.
acknowledge_wipe(p) ==
  /\ Enrolled(p)
  /\ tablet' = [tablet EXCEPT ![p].wiped = TRUE]
  /\ UNCHANGED <<job, handed, copies, news, lost, mishaps>>

DispatchNext ==
  \/ \E j \in Jobs :
       \/ \E c \in Squads, t \in Technicians \cup {NoHolder} : AssignJob(j, c, t)
       \/ JobMoves(j)
  \/ \E p \in Tablets :
       \/ \E t \in Technicians : enrol_device(p, t)
       \/ \E c \in Squads \cup {NoHolder} : set_device_crew(p, c)
       \/ Reinstall(p) \/ block_device(p) \/ ToldToWipe(p) \/ acknowledge_wipe(p)
       \/ \E yes \in BOOLEAN : PullPage(p, yes) \/ PushOperation(p, yes)
DispatchSpec == DispatchInit /\ [][DispatchNext]_dsvars

-----------------------------------------------------------------------------
(* What the dispatcher reads *)

\* The highest version handed, to whichever phone.
_deliveries_by_order(j) == Max({handed[p][j] : p \in Tablets})

Sent(c) == {j \in Jobs : job[j].crew = c /\ job[j].state \in SYNCABLE_STATES}

\* The phones handed some of the crew's work, and those declared for it.
_attach_devices(c) ==
  {p \in Tablets : Enrolled(p) /\ (tablet[p].crew = c \/ \E j \in Sent(c) : handed[p][j] # 0)}

dispatch_board(c) ==
  LET delivered == {j \in Sent(c) : _deliveries_by_order(j) # 0}
  IN [assigned |-> Sent(c),
      delivered |-> delivered,
      undelivered |-> Sent(c) \ delivered,
      stale_on_device |-> {j \in delivered : _deliveries_by_order(j) < job[j].version},
      in_progress |-> {j \in Sent(c) : job[j].state \in IN_PROGRESS_STATES},
      returned |-> {j \in Jobs : job[j].crew = c /\ job[j].state \in RETURNED_STATES},
      devices |-> _attach_devices(c)]

_held_orders(p) == {j \in Jobs : handed[p][j] # 0 /\ job[j].state \in SYNCABLE_STATES}

device_readiness(p) ==
  [held_orders |-> _held_orders(p),
   stale_orders |-> {j \in _held_orders(p) : handed[p][j] < job[j].version},
   pending_uploads |-> tablet[p].refused]

blockers(p) ==
  LET ready == device_readiness(p)
  IN {why \in {"status", "never synced", "stale", "pending"} :
        CASE why = "status" -> tablet[p].status # "active"
          [] why = "never synced" -> ~tablet[p].synced
          [] why = "stale" -> ready.stale_orders # {}
          [] OTHER -> ready.pending_uploads # 0}

-----------------------------------------------------------------------------
(* Properties *)

\* What the dispatcher is told is so of the phones, whoever was reassigned, declared or
\* enrolled anew meanwhile: no phone has an order counted as undelivered; none has the
\* version in force of one counted as stale; one counted as delivered and fresh was
\* handed as it is now to a phone of the crew's row, which has it so unless it lost it;
\* whatever phone has work of the crew is on that row; and a phone without blockers has
\* every open order it was handed, as it is now, but for what it lost.
BoardIsTrue ==
  /\ \A c \in Squads :
       LET row == dispatch_board(c) IN
       /\ \A j \in row.undelivered, p \in Tablets : copies[p][j] = 0
       /\ \A j \in row.stale_on_device, p \in Tablets : copies[p][j] < job[j].version
       /\ \A j \in row.delivered \ row.stale_on_device :
            \E p \in row.devices : handed[p][j] = job[j].version
                                   /\ (j \in lost[p] \/ copies[p][j] = job[j].version)
       /\ \A j \in row.assigned, p \in Tablets : copies[p][j] # 0 => p \in row.devices
  /\ \A p \in Tablets : blockers(p) = {} =>
       \A j \in Jobs : job[j].state \in SYNCABLE_STATES =>
         \/ j \in lost[p] /\ copies[p][j] < job[j].version
         \/ copies[p][j] = (IF j \in _held_orders(p) THEN job[j].version ELSE 0)

(* What the documents say and the code does not keep *)

\* "Assigned work no device has received.  The number that ruins a morning": an order
\* handed to the phone of the crew it was taken from counts as delivered.
NobodyWaits ==
  \A c \in Squads : dispatch_board(c).undelivered = {} =>
    \A j \in Sent(c) : \E p \in Tablets : Reaches(p, j) /\ handed[p][j] # 0

\* "Syncing again clears the staleness": not of an order that went to another phone.
SyncingClears ==
  \A p \in Tablets : news[p] = {} => device_readiness(p).stale_orders = {}

\* "Never synchronised": a phone that has pulled its orders has synchronised.
PullingCounts == \A p \in Tablets : news[p] = {} => "never synced" \notin blockers(p)

\* "Accepted from a blocked device, the only one with something to confirm": so that
\* one acknowledged would have nothing.  It is accepted for a phone that works on.
WipedIsEmpty == \A p \in Tablets : tablet[p].wiped => \A j \in Jobs : copies[p][j] = 0
AcknowledgedWhenBlocked ==
  \A p \in Tablets : tablet[p].wiped => tablet[p].status = "blocked"
=============================================================================
