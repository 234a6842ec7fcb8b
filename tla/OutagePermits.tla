--------------------------- MODULE OutagePermits ---------------------------
(***************************************************************************)
(* The outage requests of the control centre (outages/service.py,          *)
(* api/outages.py) and the work permit, form F-TR-02, that opens under one *)
(* (save_answers in responses/service.py).                                 *)
(*                                                                         *)
(* A request of the API is a database session in two steps.  Begin reads   *)
(* the row and judges it; Commit writes the columns that changed, and the  *)
(* event of the trail with them.  Between the two any other session may    *)
(* commit: nothing locks the row before it is written.                     *)
(***************************************************************************)
EXTENDS Naturals, Sequences, FiniteSets, OrderLifecycle

CONSTANTS
  Requests,  \* rows of outage_request
  Orders,    \* orders whose form is the permit form
  People, Numbers, None,
  Sessions,  \* database sessions that may be open at once
  MaxEvents  \* bound: events on the trail of each request

ASSUME NoneIsNothing == None \notin People \cup Numbers \cup Requests

VARIABLES
  request,   \* outage_request rows
  past,      \* requests whose window is over
  link,      \* outage_request_id of each order
  permit,    \* permit form of each order: its state, the request it was sent under
  ptrail,    \* what the trail says of each request
  open       \* open sessions

pvars == <<request, past, link, permit, ptrail, open>>

OutageState == {"solicitada", "aprobada", "rechazada", "vencida", "devuelta"}

OutageRow == [state: OutageState, number: Numbers \cup {None},
              requested_by: People, decided_by: People \cup {None}]
Absent == [state |-> "absent"]

Decisions == {"aprobada", "rechazada"}
PermitEvent == [to: OutageState, number: Numbers \cup {None}, by: People \cup {"sistema"}]

NoSession == [act |-> "none"]

Exists(q) == request[q] # Absent

PermitInit ==
  /\ request = [q \in Requests |-> Absent]
  /\ past = {}
  /\ link = [o \in Orders |-> None]
  /\ permit = [o \in Orders |-> [state |-> "none", under |-> None]]
  /\ ptrail = [q \in Requests |-> <<>>]
  /\ open = [s \in Sessions |-> NoSession]

-----------------------------------------------------------------------------
(* The request *)

request_outage(q) ==
  /\ ~Exists(q)
  /\ \E who \in People :
       /\ request' = [request EXCEPT ![q] =
            [state |-> "solicitada", number |-> None,
             requested_by |-> who, decided_by |-> None]]
       /\ ptrail' = [ptrail EXCEPT ![q] =
            Append(@, [to |-> "solicitada", number |-> None, by |-> who])]
  /\ UNCHANGED <<past, link, permit, open>>

WindowPasses(q) ==
  /\ Exists(q)
  /\ q \notin past
  /\ past' = past \cup {q}
  /\ UNCHANGED <<request, link, permit, ptrail, open>>

-----------------------------------------------------------------------------
(* Deciding, handing back, expiring *)

Starts(s, session) == open[s] = NoSession /\ open' = [open EXCEPT ![s] = session]

\* `_must_be_open`, of the row as it was read.
MustBeOpen(q) == Exists(q) /\ request[q].state = "solicitada"

\* Mutant: anyone grants, the one who asked included.
AnyoneGrants(q, who) == MustBeOpen(q)

\* Who asked never decides.
MayDecide(q, who) == MustBeOpen(q) /\ who # request[q].requested_by

ApproveOutageBegin(s) ==
  /\ \E q \in Requests, who \in People, n \in Numbers :
       /\ MayDecide(q, who)
       /\ Starts(s, [act |-> "aprobada", on |-> {q}, by |-> who, number |-> n])
  /\ UNCHANGED <<request, past, link, permit, ptrail>>

RejectOutageBegin(s) ==
  /\ \E q \in Requests, who \in People :
       /\ MayDecide(q, who)
       /\ Starts(s, [act |-> "rechazada", on |-> {q}, by |-> who, number |-> None])
  /\ UNCHANGED <<request, past, link, permit, ptrail>>

HandBackBegin(s) ==
  /\ \E q \in Requests, who \in People :
       /\ Exists(q)
       /\ request[q].state = "aprobada"
       /\ Starts(s, [act |-> "devuelta", on |-> {q}, by |-> who, number |-> request[q].number])
  /\ UNCHANGED <<request, past, link, permit, ptrail>>

\* `expire_due`: one session for all the requests it found.
ExpireBegin(s) ==
  LET due == {q \in past : Exists(q) /\ request[q].state = "aprobada"} IN
  /\ due # {}
  /\ Starts(s, [act |-> "vencida", on |-> due, by |-> "sistema", number |-> None])
  /\ UNCHANGED <<request, past, link, permit, ptrail>>

\* uq_outage_request_number
UniqueNumber(session) ==
  session.act = "aprobada" =>
    \A q \in Requests \ session.on : Exists(q) => request[q].number # session.number

\* Mutant: a request expires in silence.
Loudly(session, q) ==
  IF session.act = "vencida" THEN ptrail[q]
  ELSE Append(ptrail[q], [to |-> session.act, number |-> session.number, by |-> session.by])

\* `_decided` and the other calls of `record`, in the transaction of the change.
Logged(session, q) ==
  Append(ptrail[q], [to |-> session.act, number |-> session.number, by |-> session.by])

\* The columns a session writes, over whatever another left in the row.
DecisionCommit(s) ==
  LET session == open[s] IN
  /\ session.act \in OutageState
  /\ UniqueNumber(session)
  /\ \A q \in session.on : Len(ptrail[q]) < MaxEvents
  /\ request' = [q \in Requests |->
       IF q \notin session.on THEN request[q]
       ELSE [request[q] EXCEPT
               !.state = session.act,
               !.number = IF session.act = "aprobada" THEN session.number ELSE @,
               !.decided_by = IF session.act \in Decisions THEN session.by ELSE @]]
  /\ ptrail' = [q \in Requests |->
       IF q \in session.on THEN Logged(session, q) ELSE ptrail[q]]
  /\ open' = [open EXCEPT ![s] = NoSession]
  /\ UNCHANGED <<past, link, permit>>

SessionEnds(s) ==
  /\ open[s] # NoSession
  /\ open' = [open EXCEPT ![s] = NoSession]
  /\ UNCHANGED <<request, past, link, permit, ptrail>>

-----------------------------------------------------------------------------
(* The orders that work under a request *)

link_order(o) ==
  /\ \E q \in {p \in Requests : Exists(p)} : link' = [link EXCEPT ![o] = q]
  /\ UNCHANGED <<request, past, permit, ptrail, open>>

unlink_order(o) ==
  /\ link[o] # None
  /\ link' = [link EXCEPT ![o] = None]
  /\ UNCHANGED <<request, past, permit, ptrail, open>>

\* `permit_blocker` says nothing: there is a request, with a number, that was
\* granted or is handed back by now.
PermitOpens(q) ==
  /\ q # None
  /\ request[q].number # None
  /\ request[q].state \in {"aprobada", "devuelta"}

\* `save_answers` of a draft asks for no permit.
SavePermitDraft(o) ==
  /\ permit[o].state \in Editable
  /\ permit' = [permit EXCEPT ![o].state = IF @ = "none" THEN "borrador" ELSE @]
  /\ UNCHANGED <<request, past, link, ptrail, open>>

SubmitBegin(s) ==
  /\ \E o \in Orders :
       /\ permit[o].state \in Editable
       /\ PermitOpens(link[o])
       /\ Starts(s, [act |-> "enviar", order |-> o, under |-> link[o]])
  /\ UNCHANGED <<request, past, link, permit, ptrail>>

SubmitCommit(s) ==
  /\ open[s].act = "enviar"
  /\ permit' = [permit EXCEPT ![open[s].order] =
       [state |-> "enviada", under |-> open[s].under]]
  /\ open' = [open EXCEPT ![s] = NoSession]
  /\ UNCHANGED <<request, past, link, ptrail>>

\* The supervisor sends the form back (module ReviewDesk).
PermitReturned(o) ==
  /\ permit[o].state = "enviada"
  /\ permit' = [permit EXCEPT ![o].state = "devuelta"]
  /\ UNCHANGED <<request, past, link, ptrail, open>>

PermitNext ==
  \/ \E q \in Requests : request_outage(q) \/ WindowPasses(q)
  \/ \E o \in Orders :
       link_order(o) \/ unlink_order(o) \/ SavePermitDraft(o) \/ PermitReturned(o)
  \/ \E s \in Sessions :
       ApproveOutageBegin(s) \/ RejectOutageBegin(s) \/ HandBackBegin(s) \/ ExpireBegin(s)
       \/ SubmitBegin(s) \/ DecisionCommit(s) \/ SubmitCommit(s) \/ SessionEnds(s)

PermitSpec == PermitInit /\ [][PermitNext]_pvars

-----------------------------------------------------------------------------
(* Properties *)

Session ==
  [act: Decisions \cup {"devuelta"}, on: SUBSET Requests, by: People, number: Numbers \cup {None}]
  \cup [act: {"vencida"}, on: SUBSET Requests, by: {"sistema"}, number: {None}]
  \cup [act: {"enviar"}, order: Orders, under: Requests]
  \cup {NoSession}

PermitTypeOK ==
  /\ request \in [Requests -> OutageRow \cup {Absent}]
  /\ past \subseteq Requests
  /\ link \in [Orders -> Requests \cup {None}]
  /\ permit \in [Orders -> [state: ResponseState, under: Requests \cup {None}]]
  /\ ptrail \in [Requests -> Seq(PermitEvent)]
  /\ open \in [Sessions -> Session]

Grants(q) == {i \in DOMAIN ptrail[q] : ptrail[q][i].to = "aprobada"}

\* RF-024: a permit that was sent was sent under a request that, on the trail,
\* somebody other than the one who asked granted with a number -- however the
\* sessions that decide, hand back, expire and link interleave.
PermitUnderGrant ==
  \A o \in Orders : permit[o].under # None =>
    LET q == permit[o].under IN
    \E i \in Grants(q) :
      /\ ptrail[q][i].number # None
      /\ ptrail[q][i].by # request[q].requested_by

\* RF-160: the trail accounts for the row.  Whichever session wrote last, the
\* state is the one the last event names and the number is the last granted.
TrailAccounts ==
  \A q \in Requests : Exists(q) =>
    /\ ptrail[q] # <<>>
    /\ request[q].state = ptrail[q][Len(ptrail[q])].to
    /\ request[q].number # None =>
         \E i \in Grants(q) : ptrail[q][i].number = request[q].number
    /\ \A i \in Grants(q) :
         (\A j \in Grants(q) : j <= i) => ptrail[q][i].number = request[q].number

(* What the documents say and the code does not keep *)

\* "A decision is not taken twice."
OutageDecidedOnce ==
  \A q \in Requests :
    Cardinality({i \in DOMAIN ptrail[q] : ptrail[q][i].to \in Decisions}) <= 1
=============================================================================
