-------------------------------- MODULE Fronts -------------------------------
(***************************************************************************)
(* A work and its fronts: orders that hang from another order, one level   *)
(* deep (workorders/fronts.py, the endpoints of api/planning.py), and the  *)
(* guard they put on the transitions of the work (workorders/service.py).  *)
(*                                                                         *)
(* Each request judges the rows as it read them and writes later: Begin    *)
(* and Commit.  With one session a request is indivisible.                 *)
(***************************************************************************)
EXTENDS FiniteSets, OrderLifecycle

CONSTANTS
  Orders, Planners, NoWork,
  Reached      \* bound: the states orders go through

ASSUME ReachedAreStates == Reached \subseteq WorkOrderState
ASSUME NoWorkIsNoOrder == NoWork \notin Orders

VARIABLES
  state,   \* state of each order
  parent,  \* parent_id of each order
  req      \* open requests

fvars == <<state, parent, req>>

OPEN_FRONT_STATES == WorkOrderState \ {"closed", "cancelled"}
ATTACHABLE_PARENT_STATES == {"draft", "planned"}
Settled == {"closed", "cancelled"}

NoRequest == [act |-> "none"]
Request ==
  {NoRequest}
  \cup [act: {"attach"}, front: Orders, work: Orders]
  \cup [act: {"detach"}, front: Orders]
  \cup [act: {"transition"}, order: Orders, target: Reached]

FrontInit ==
  /\ state \in [Orders -> {"draft", "planned"}]
  /\ parent = [o \in Orders |-> NoWork]
  /\ req = [s \in Planners |-> NoRequest]

children_of(o) == {c \in Orders : parent[c] = o}
open_fronts(o) == {c \in children_of(o) : state[c] \in OPEN_FRONT_STATES}

\* Mutant: a work under way takes fronts.
AttachesLate(front, work) ==
  /\ front # work
  /\ parent[work] = NoWork
  /\ parent[front] \in {NoWork, work}
  /\ children_of(front) = {}

\* The refusals of `attach`.
MayAttach(front, work) ==
  /\ front # work
  /\ parent[work] = NoWork
  /\ parent[front] \in {NoWork, work}
  /\ children_of(front) = {}
  /\ state[work] \in ATTACHABLE_PARENT_STATES

\* Mutant: only closing a work asks for its fronts.
BlocksClosing(o, target) == IF target = "closed" THEN open_fronts(o) ELSE {}

blocking_fronts(o, target) == IF target \in Settled THEN open_fronts(o) ELSE {}

Opens(s, request) == req[s] = NoRequest /\ req' = [req EXCEPT ![s] = request]
Ends(s) == req' = [req EXCEPT ![s] = NoRequest]

AttachBegin(s) ==
  /\ \E front, work \in Orders :
       /\ MayAttach(front, work)
       /\ Opens(s, [act |-> "attach", front |-> front, work |-> work])
  /\ UNCHANGED <<state, parent>>

AttachCommit(s) ==
  /\ req[s].act = "attach"
  /\ parent' = [parent EXCEPT ![req[s].front] = req[s].work]
  /\ Ends(s)
  /\ UNCHANGED state

DetachBegin(s) ==
  /\ \E front \in Orders :
       /\ parent[front] # NoWork
       /\ Opens(s, [act |-> "detach", front |-> front])
  /\ UNCHANGED <<state, parent>>

DetachCommit(s) ==
  /\ req[s].act = "detach"
  /\ parent' = [parent EXCEPT ![req[s].front] = NoWork]
  /\ Ends(s)
  /\ UNCHANGED state

\* Any of the callers of `transition`.
TransitionBegin(s) ==
  /\ \E o \in Orders : \E target \in TRANSITIONS[state[o]] \cap Reached :
       /\ blocking_fronts(o, target) = {}
       /\ Opens(s, [act |-> "transition", order |-> o, target |-> target])
  /\ UNCHANGED <<state, parent>>

TransitionCommit(s) ==
  /\ req[s].act = "transition"
  /\ state' = [state EXCEPT ![req[s].order] = req[s].target]
  /\ Ends(s)
  /\ UNCHANGED parent

RequestFails(s) ==
  /\ req[s] # NoRequest
  /\ Ends(s)
  /\ UNCHANGED <<state, parent>>

FrontNext ==
  \E s \in Planners :
    \/ AttachBegin(s) \/ AttachCommit(s) \/ DetachBegin(s) \/ DetachCommit(s)
    \/ TransitionBegin(s) \/ TransitionCommit(s) \/ RequestFails(s)

FrontSpec == FrontInit /\ [][FrontNext]_fvars

-----------------------------------------------------------------------------
(* Properties.  With one session they hold; with two, see the runs. *)

FrontTypeOK ==
  /\ state \in [Orders -> WorkOrderState]
  /\ parent \in [Orders -> Orders \cup {NoWork}]
  /\ req \in [Planners -> Request]

\* RF-015, "works have a level, not a tree": the parent of a front is no front,
\* so no chain of attachments ends in a tree or a cycle.
OneLevel == \A o \in Orders : parent[o] # NoWork => parent[parent[o]] = NoWork

\* A work is never settled over a front that still owes work, in whatever order
\* fronts and work were attached, separated and moved.
SettledLast == \A o \in Orders : state[o] \in Settled => open_fronts(o) = {}

\* A work settles after all its fronts, which are its direct ones: there are no
\* others.  While one session at a time attaches and moves them.
WorksSettleLast == OneLevel /\ SettledLast

\* "Adding one would silently change what «done» meant": while a work is under
\* way the fronts it is counted over only leave it.
FrontsFrozen ==
  [][\A o \in Orders : state[o] \notin ATTACHABLE_PARENT_STATES =>
       \A c \in Orders : parent'[c] = o => parent[c] = o]_fvars
=============================================================================
