------------------------------ MODULE Proposals ------------------------------
(***************************************************************************)
(* The tray of proposed work (proposals/service.py, api/proposals.py) and  *)
(* the findings a phone reports with no order behind them                  *)
(* (`_apply_field_finding` of sync/operations.py).                         *)
(*                                                                         *)
(* Generation passes, phones and supervisors hold database sessions that   *)
(* read first and write later.  The findings of a proposal are one JSON    *)
(* column: joining writes the whole list that was read.                    *)
(***************************************************************************)
EXTENDS Naturals, Sequences, FiniteSets

CONSTANTS
  Assets, Defects,
  Captured,     \* findings of submitted captures, flagged by the crew
  Seen,         \* findings phones report on their own
  AboutOf,      \* the asset and the defect of each finding
  Deciders, Phones, Passes,
  MaxProposals, \* bound: rows of work_order_proposal
  MaxWork       \* bound: orders

ASSUME FindingsTold == AboutOf \in [Captured \cup Seen -> Assets \X Defects]
ASSUME CatalogueIsFinite == IsFiniteSet(Assets \X Defects)
ASSUME ProposalBounds == MaxProposals \in Nat /\ MaxWork \in Nat \ {0}

VARIABLES
  tray,     \* work_order_proposal rows, in the order they were written
  work,     \* orders: the proposals their description tells of, the one they came from
  submitted,\* findings captured so far
  conn,     \* open sessions
  accepted, \* findings of phones the server answered for
  decided   \* decisions on the trail

prvars == <<tray, work, submitted, conn, accepted, decided>>

ProposalState == {"propuesta", "aprobada", "fusionada", "rechazada"}
Finding == Captured \cup Seen
ProposalRow ==
  [state: ProposalState, about: Assets \X Defects, findings: SUBSET Finding,
   work_order: 0..MaxWork, merged_into: 0..MaxWork, reason: BOOLEAN]
WorkRow == [asset: Assets, state: {"pending", "attended", "cancelled"},
            says: SUBSET (1..MaxProposals), from: 0..MaxProposals]
Decision == [on: 1..MaxProposals, to: ProposalState \ {"propuesta"}, order: 0..MaxWork]

Connections == Deciders \cup Phones \cup Passes
NotConnected == [act |-> "none"]

ProposalInit ==
  /\ tray = <<>>
  /\ work \in {<<>>} \cup {<<[asset |-> a, state |-> "pending", says |-> {}, from |-> 0]>> : a \in Assets}
  /\ submitted = {}
  /\ conn = [s \in Connections |-> NotConnected]
  /\ accepted = {}
  /\ decided = {}

OpenRows == {i \in DOMAIN tray : tray[i].state = "propuesta"}
OpenAbout == {tray[i].about : i \in OpenRows}
PendingOn(a) == {o \in DOMAIN work : work[o].asset = a /\ work[o].state = "pending"}

Opens(s, session) == conn[s] = NotConnected /\ conn' = [conn EXCEPT ![s] = session]
Ends(s) == conn' = [conn EXCEPT ![s] = NotConnected]

NewRow(about, findings) ==
  [state |-> "propuesta", about |-> about, findings |-> findings,
   work_order |-> 0, merged_into |-> 0, reason |-> FALSE]

\* Mutant: nothing keeps a second open proposal out.
NoIndex(abouts) == TRUE

\* uq_proposal_open_per_asset_defect
Unique(abouts) == abouts \cap OpenAbout = {}

-----------------------------------------------------------------------------
(* Raising *)

CaptureArrives(f) ==
  /\ f \in Captured \ submitted
  /\ submitted' = submitted \cup {f}
  /\ UNCHANGED <<tray, work, conn, accepted, decided>>

\* `generate_from_findings`: what is neither proposed nor being worked.  Two
\* findings of one asset and defect make one proposal, of the first.
PassBegin(p) ==
  /\ LET news == {a \in Assets \X Defects :
                    /\ \E f \in submitted : AboutOf[f] = a
                    /\ PendingOn(a[1]) = {}
                    /\ a \notin OpenAbout} IN
     \E first \in [news -> submitted] :
       /\ \A a \in news : AboutOf[first[a]] = a
       /\ Opens(p, [act |-> "pass", first |-> first])
  /\ UNCHANGED <<tray, work, submitted, accepted, decided>>

\* All its proposals in one transaction, or none.
PassCommit(p) ==
  /\ conn[p].act = "pass"
  /\ LET first == conn[p].first IN
     /\ Unique(DOMAIN first)
     /\ Len(tray) + Cardinality(DOMAIN first) <= MaxProposals
     /\ \E rows \in [1..Cardinality(DOMAIN first) -> DOMAIN first] :
          /\ \A i, j \in DOMAIN rows : rows[i] = rows[j] => i = j
          /\ tray' = tray \o [i \in DOMAIN rows |-> NewRow(rows[i], {first[rows[i]]})]
  /\ Ends(p)
  /\ UNCHANGED <<work, submitted, accepted, decided>>

\* `raise_spontaneous`: the finding joins the open proposal it reads, if any.
FindingBegin(p) ==
  /\ \E f \in Seen \ accepted :
       LET same == {i \in OpenRows : tray[i].about = AboutOf[f]} IN
       IF same = {} THEN Opens(p, [act |-> "raise", finding |-> f])
       ELSE \E i \in same :
              Opens(p, [act |-> "join", finding |-> f, on |-> i, read |-> tray[i].findings])
  /\ \A q \in Phones \ {p} :
       conn[q] # NotConnected => conn[q].finding # conn'[p].finding
  /\ UNCHANGED <<tray, work, submitted, accepted, decided>>

RaiseCommit(p) ==
  /\ conn[p].act = "raise"
  /\ LET f == conn[p].finding IN
     /\ Unique({AboutOf[f]})
     /\ Len(tray) < MaxProposals
     /\ tray' = Append(tray, NewRow(AboutOf[f], {f}))
     /\ accepted' = accepted \cup {f}
  /\ Ends(p)
  /\ UNCHANGED <<work, submitted, decided>>

\* Mutant: the finding takes the place of those it joins.
Replaced(read, f) == {f}

Joined(read, f) == read \cup {f}

JoinCommit(p) ==
  /\ conn[p].act = "join"
  /\ LET f == conn[p].finding IN
     /\ tray' = [tray EXCEPT ![conn[p].on].findings = Joined(conn[p].read, f)]
     /\ accepted' = accepted \cup {f}
  /\ Ends(p)
  /\ UNCHANGED <<work, submitted, decided>>

-----------------------------------------------------------------------------
(* Deciding *)

\* `_must_be_open`, of the row as it was read.
DecideBegin(d, act) ==
  \E i \in OpenRows : Opens(d, [act |-> act, on |-> i])

ApproveBegin(d) ==
  /\ DecideBegin(d, "aprobada")
  /\ UNCHANGED <<tray, work, submitted, accepted, decided>>

\* With a reason of the catalogue.
RejectBegin(d) ==
  /\ DecideBegin(d, "rechazada")
  /\ UNCHANGED <<tray, work, submitted, accepted, decided>>

\* Into an order nobody has attended.
MergeBegin(d) ==
  /\ \E i \in OpenRows, o \in DOMAIN work :
       /\ work[o].state # "attended"
       /\ Opens(d, [act |-> "fusionada", on |-> i, into |-> o, read |-> work[o].says])
  /\ UNCHANGED <<tray, work, submitted, accepted, decided>>

OnTrail(i, to, o) == decided' = decided \cup {[on |-> i, to |-> to, order |-> o]}

\* Mutant: the row that is approved does not say which order it became.
Anonymous(row, o) == [row EXCEPT !.state = "aprobada"]

Approved(row, o) == [row EXCEPT !.state = "aprobada", !.work_order = o]

ApproveCommit(d) ==
  /\ conn[d].act = "aprobada"
  /\ Len(work) < MaxWork
  /\ LET i == conn[d].on
         o == Len(work) + 1 IN
     /\ work' = Append(work, [asset |-> tray[i].about[1], state |-> "pending",
                              says |-> {i}, from |-> i])
     /\ tray' = [tray EXCEPT ![i] = Approved(@, o)]
     /\ OnTrail(i, "aprobada", o)
  /\ Ends(d)
  /\ UNCHANGED <<submitted, accepted>>

RejectCommit(d) ==
  /\ conn[d].act = "rechazada"
  /\ LET i == conn[d].on IN
     /\ tray' = [tray EXCEPT ![i] = [@ EXCEPT !.state = "rechazada", !.reason = TRUE]]
     /\ OnTrail(i, "rechazada", 0)
  /\ Ends(d)
  /\ UNCHANGED <<work, submitted, accepted>>

\* The justification travels into the description of the order, as it was read.
MergeCommit(d) ==
  /\ conn[d].act = "fusionada"
  /\ LET i == conn[d].on
         o == conn[d].into IN
     /\ tray' = [tray EXCEPT ![i] = [@ EXCEPT !.state = "fusionada", !.merged_into = o]]
     /\ work' = [work EXCEPT ![o].says = conn[d].read \cup {i}]
     /\ OnTrail(i, "fusionada", o)
  /\ Ends(d)
  /\ UNCHANGED <<submitted, accepted>>

SessionFails(s) ==
  /\ conn[s] # NotConnected
  /\ Ends(s)
  /\ UNCHANGED <<tray, work, submitted, accepted, decided>>

WorkEnds(o) ==
  /\ work[o].state = "pending"
  /\ \E state \in {"attended", "cancelled"} : work' = [work EXCEPT ![o].state = state]
  /\ UNCHANGED <<tray, submitted, conn, accepted, decided>>

ProposalNext ==
  \/ \E f \in Captured : CaptureArrives(f)
  \/ \E p \in Passes : PassBegin(p) \/ PassCommit(p)
  \/ \E p \in Phones : FindingBegin(p) \/ RaiseCommit(p) \/ JoinCommit(p)
  \/ \E d \in Deciders :
       \/ ApproveBegin(d) \/ RejectBegin(d) \/ MergeBegin(d)
       \/ ApproveCommit(d) \/ RejectCommit(d) \/ MergeCommit(d)
  \/ \E s \in Connections : SessionFails(s)
  \/ \E o \in DOMAIN work : WorkEnds(o)

ProposalSpec == ProposalInit /\ [][ProposalNext]_prvars

-----------------------------------------------------------------------------
(* Properties *)

Connection ==
  {NotConnected}
  \cup (UNION {[act: {"pass"}, first: [news -> Captured]] : news \in SUBSET (Assets \X Defects)})
  \cup [act: {"raise"}, finding: Seen]
  \cup [act: {"join"}, finding: Seen, on: 1..MaxProposals, read: SUBSET Finding]
  \cup [act: {"aprobada", "rechazada"}, on: 1..MaxProposals]
  \cup [act: {"fusionada"}, on: 1..MaxProposals, into: 1..MaxWork, read: SUBSET (1..MaxProposals)]

ProposalTypeOK ==
  /\ tray \in Seq(ProposalRow) /\ Len(tray) <= MaxProposals
  /\ work \in Seq(WorkRow) /\ Len(work) <= MaxWork
  /\ submitted \subseteq Captured
  /\ conn \in [Connections -> Connection]
  /\ accepted \subseteq Seen
  /\ decided \subseteq Decision

\* "One open proposal per asset and defect", whoever raises it: passes and
\* phones that read before the other's proposal was there included.
OneOpenPerDefect ==
  \A i, j \in OpenRows : tray[i].about = tray[j].about => i = j

\* A finding the server answered for is in some proposal, whatever joined it,
\* was decided or failed since.  With one phone; two lose one of theirs.
FindingKept == \A f \in accepted : \E i \in DOMAIN tray : f \in tray[i].findings

\* RF-013, RF-114: no work without a person, no decision without its trace.
\* An order that came from a proposal is named by an approval of that proposal,
\* and a row that is decided has, whichever session wrote last, the decision on
\* the trail and the order it became, or joined, in its columns.
DecisionsOnRecord ==
  /\ \A o \in DOMAIN work : work[o].from # 0 =>
       [on |-> work[o].from, to |-> "aprobada", order |-> o] \in decided
  /\ \A i \in DOMAIN tray :
       /\ tray[i].state = "aprobada" =>
            [on |-> i, to |-> "aprobada", order |-> tray[i].work_order] \in decided
       /\ tray[i].state = "fusionada" =>
            [on |-> i, to |-> "fusionada", order |-> tray[i].merged_into] \in decided
       /\ tray[i].state = "rechazada" =>
            tray[i].reason /\ [on |-> i, to |-> "rechazada", order |-> 0] \in decided

(* What the documents say and the code does not keep *)

\* "A decision is not taken twice."
DecidedOnce == \A d1, d2 \in decided : d1.on = d2.on => d1 = d2

\* "The findings travel into the order's description rather than being lost."
MergedTravels ==
  \A i \in DOMAIN tray : tray[i].state = "fusionada" => i \in work[tray[i].merged_into].says
=============================================================================
