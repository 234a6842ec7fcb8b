--------------------------- MODULE OrderLifecycle ---------------------------
(***************************************************************************)
(* The vocabulary of a work order, shared by every module that moves one:  *)
(* the states of backend/app/workorders/models.py, the table of allowed    *)
(* transitions of workorders/service.py, and the subsets of states that    *)
(* the other parts of the backend test for.  No variables: the modules     *)
(* that EXTEND this one keep the orders.                                   *)
(***************************************************************************)

\* WorkOrderState
WorkOrderState ==
  { "draft", "planned", "assigned", "downloaded", "en_route", "on_site",
    "in_execution", "suspended", "closed_field", "synced", "in_review",
    "returned", "approved", "closed", "cancelled" }

\* What may follow what.  An absent pair is refused by `transition`.
TRANSITIONS ==
  [ draft        |-> {"planned", "cancelled"},
    planned      |-> {"assigned", "cancelled"},
    assigned     |-> {"downloaded", "planned", "cancelled"},
    downloaded   |-> {"en_route", "assigned"},
    en_route     |-> {"on_site", "suspended"},
    on_site      |-> {"in_execution", "suspended"},
    in_execution |-> {"suspended", "closed_field"},
    suspended    |-> {"in_execution", "cancelled"},
    closed_field |-> {"synced"},
    synced       |-> {"in_review"},
    in_review    |-> {"approved", "returned", "cancelled"},
    returned     |-> {"in_execution"},
    approved     |-> {"closed"},
    closed       |-> {},
    cancelled    |-> {} ]

\* States an order may be assigned in (`is_assignable`).
Assignable == {"planned", "assigned"}

\* States a phone may ask for; the others are decisions of the office.
DEVICE_TRANSITIONS ==
  { "downloaded", "en_route", "on_site", "in_execution", "suspended",
    "closed_field", "synced" }

\* States in which an order belongs on a phone.
SYNCABLE_STATES ==
  { "assigned", "downloaded", "en_route", "on_site", "in_execution",
    "suspended", "returned" }

\* Mutant: closing in the field marks nothing.
NoFinish(state) ==
  CASE state = "en_route"     -> {"en_camino"}
    [] state = "on_site"      -> {"en_sitio"}
    [] state = "in_execution" -> {"inicio"}
    [] OTHER                  -> {}

\* The state a milestone marks, as the set of milestones it leaves behind.
MILESTONE_OF_STATE(state) ==
  CASE state = "en_route"     -> {"en_camino"}
    [] state = "on_site"      -> {"en_sitio"}
    [] state = "in_execution" -> {"inicio"}
    [] state = "closed_field" -> {"fin"}
    [] OTHER                  -> {}

Milestone == {"en_camino", "en_sitio", "inicio", "fin"}

\* ResponseState, with "none" for the order nobody has captured yet.
ResponseState == {"none", "borrador", "enviada", "devuelta", "aprobada"}

\* Mutant: a submitted response may still be written by a phone.
EditableWhenSent == {"none", "borrador", "enviada", "devuelta"}

\* `is_editable`; an absent response may be created.
Editable == {"none", "borrador", "devuelta"}
=============================================================================
