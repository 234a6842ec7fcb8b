------------------------------ MODULE AsBuilt ------------------------------
(***************************************************************************)
(* From an approved work order to the corporate geodatabase: the staging   *)
(* rows and batches of gis_gateway/asbuilt.py, the agent of                *)
(* gis-agent/sigec_agent/apply_batch.py, and the results it reports to     *)
(* gis_gateway/ingest.py.                                                  *)
(*                                                                         *)
(* Server and agent share nothing but a payload and a report.  The agent   *)
(* may be killed between any two of its steps, keeps nothing of what it    *)
(* was doing, and may be given a batch again until its results are in.     *)
(* The loop that polls for batches and calls BatchApplier is not in the    *)
(* repository.                                                             *)
(***************************************************************************)
EXTENDS Naturals, FiniteSets

CONSTANTS
  Proposals,   \* as-built proposals of one work order and asset type
  Arcfm,       \* those that need ArcFM: requires_arcfm
  Batches,
  Agents,      \* agents of the unit, working on one geodatabase
  Sessions,    \* server sessions that may create batches at the same time
  Limit,       \* proposals of a batch
  None,
  MaxRows      \* bound: copies of a proposal in the geodatabase before a run

ASSUME ArcfmProposals == Arcfm \subseteq Proposals
ASSUME BatchLimit == Limit \in Nat \ {0}
ASSUME NoneIsNothing ==
  None \notin Batches \cup {"applied", "rejected", "error", "requires_arcfm",
                           "ready", "completed"}

VARIABLES
  order,     \* the work order, as far as staging looks at it
  row,       \* asbuilt_proposal rows
  batch,     \* asbuilt_batch rows
  result,    \* asbuilt_proposal_result rows: of each batch and proposal
  picked,    \* what each open session read and has yet to dispatch
  agent,     \* what each agent is doing
  reports,   \* reports on their way to the server
  staging,   \* rows of each proposal in the staging class
  target     \* rows of each proposal in the network class

vars == <<order, row, batch, result, picked, agent, reports, staging, target>>
server == <<order, row, batch, result, picked>>
geodatabase == <<staging, target>>

\* What the agent says of a proposal, and what ck_asbuilt_status admits.
Outcome == {"applied", "rejected", "error", "requires_arcfm"}
RowStatus == {"pending", "approved", "dispatched", "applied", "rejected", "error"}

Row == [status: RowStatus, batch: Batches \cup {None}]
Report == [batch: Batches, outcomes: [Proposals -> Outcome \cup {None}]]

\* An agent at work: what of its batch it has still to stage, what it staged,
\* and the outcomes so far.
Work ==
  [batch: Batches, pending: SUBSET Proposals, staged: SUBSET Proposals,
   outcomes: [Proposals -> Outcome \cup {None}]]

Init ==
  /\ order = "in_review"
  /\ row = [p \in Proposals |-> None]
  /\ batch = [b \in Batches |-> None]
  /\ result = [b \in Batches |-> [p \in Proposals |-> None]]
  /\ picked = [s \in Sessions |-> {}]
  /\ agent = [a \in Agents |-> None]
  /\ reports = {}
  /\ staging = [p \in Proposals |-> 0]
  /\ target = [p \in Proposals |-> 0]

-----------------------------------------------------------------------------
(* The server *)

\* The order is approved, and closed in the end.
OrderMoves ==
  /\ \/ order = "in_review" /\ order' = "approved"
     \/ order = "approved" /\ order' = "closed"
  /\ UNCHANGED <<row, batch, result, picked, agent, reports, geodatabase>>

\* Proposals of an approved order; one that is staged already stays as it is.
stage_from_work_order(staged) ==
  /\ order = "approved"
  /\ row' = [p \in Proposals |->
       IF p \in staged /\ row[p] = None
         THEN [status |-> "approved", batch |-> None] ELSE row[p]]
  /\ UNCHANGED <<order, batch, result, picked, agent, reports, geodatabase>>

\* What no batch carries yet.
Waiting == {p \in Proposals : row[p] = [status |-> "approved", batch |-> None]}

\* `create_batch` reads what waits, in no particular order.
CreateBegin(s) ==
  /\ picked[s] = {}
  /\ \E pending \in SUBSET Waiting \ {{}} :
       /\ Cardinality(pending) <= Limit
       /\ Cardinality(pending) = Limit \/ pending = Waiting
       /\ picked' = [picked EXCEPT ![s] = pending]
  /\ UNCHANGED <<order, row, batch, result, agent, reports, geodatabase>>

\* It then updates the rows it read, whatever became of them.
CreateCommit(s) ==
  /\ picked[s] # {}
  /\ \E b \in Batches :
       /\ batch[b] = None
       /\ batch' = [batch EXCEPT ![b] = "ready"]
       /\ row' = [p \in Proposals |->
            IF p \in picked[s] THEN [status |-> "dispatched", batch |-> b] ELSE row[p]]
  /\ picked' = [picked EXCEPT ![s] = {}]
  /\ UNCHANGED <<order, result, agent, reports, geodatabase>>

Rollback(s) ==
  /\ picked[s] # {}
  /\ picked' = [picked EXCEPT ![s] = {}]
  /\ UNCHANGED <<order, row, batch, result, agent, reports, geodatabase>>

\* `record_batch_results`: one row for each proposal, the last word stands.
\* The four words of the agent all settle a proposal, so the batch is complete.
record_batch_results(r) ==
  /\ r \in reports
  /\ reports' = reports \ {r}
  /\ result' = [result EXCEPT ![r.batch] = [p \in Proposals |->
       IF r.outcomes[p] # None THEN r.outcomes[p] ELSE result[r.batch][p]]]
  /\ batch' = [batch EXCEPT ![r.batch] = "completed"]
  /\ UNCHANGED <<order, row, picked, agent, geodatabase>>

\* Mutant: the agent's word goes to the row as it is.
AsReported(word) == word

\* `_status_for`: nothing failed, so what needs ArcFM stays dispatched.
StatusFor(word) == IF word = "requires_arcfm" THEN "dispatched" ELSE word

\* The outcomes on record go to the staging rows, found by proposal alone.
apply_results(b) ==
  /\ batch[b] = "completed"
  /\ row' = [p \in Proposals |->
       IF row[p] # None /\ result[b][p] # None
         THEN [row[p] EXCEPT !.status = StatusFor(result[b][p])] ELSE row[p]]
  /\ UNCHANGED <<order, batch, result, picked, agent, reports, geodatabase>>

-----------------------------------------------------------------------------
(* The agent *)

\* Mutant: what needs ArcFM is applied like the rest.
Everything(ps) == ps

\* "The agent does not run auto-updaters and will not pretend it did."
Automatic(ps) == ps \ Arcfm

\* The agent takes a batch that is not completed, with the payload of that
\* moment, and sets aside what it does not apply.
Take(a, b) ==
  LET carried == {p \in Proposals : row[p] # None /\ row[p].batch = b} IN
  /\ agent[a] = None
  /\ batch[b] = "ready"
  /\ \A p \in Proposals : staging[p] < MaxRows /\ target[p] < MaxRows
  /\ agent' = [agent EXCEPT ![a] =
       [batch |-> b, pending |-> Automatic(carried), staged |-> {},
        outcomes |-> [p \in Proposals |->
          IF p \in carried \ Automatic(carried) THEN "requires_arcfm" ELSE None]]]
  /\ UNCHANGED <<server, reports, geodatabase>>

\* Mutant: a row that could not be staged is not reported.
Unreported(outcomes, failed) == outcomes

\* Every proposal gets its outcome, those that failed too.
WithErrors(outcomes, failed) ==
  [p \in Proposals |-> IF p \in failed THEN "error" ELSE outcomes[p]]

\* `stage_rows`: any of the insertions may fail, each by itself.
stage_rows(a) ==
  LET work == agent[a] IN
  /\ work # None
  /\ work.pending # {}
  /\ \E staged \in SUBSET work.pending :
       /\ staging' = [p \in Proposals |->
            IF p \in staged THEN staging[p] + 1 ELSE staging[p]]
       /\ agent' = [agent EXCEPT ![a] =
            [work EXCEPT !.pending = {}, !.staged = staged,
                         !.outcomes = WithErrors(work.outcomes, work.pending \ staged)]]
  /\ UNCHANGED <<server, reports, target>>

\* Mutant: a failed Append goes unnoticed.
AlwaysApplied(appended) == "applied"

Verdict(appended) == IF appended THEN "applied" ELSE "error"

\* `append_to_target`: everything in the staging class is appended within an
\* edit session, or nothing is, and the whole batch shares the outcome.  The
\* staging class keeps its rows.
append_to_target(a) ==
  LET work == agent[a] IN
  /\ work # None
  /\ work.staged # {}
  /\ \E appended \in BOOLEAN :
       /\ target' = [p \in Proposals |->
            IF appended THEN target[p] + staging[p] ELSE target[p]]
       /\ agent' = [agent EXCEPT ![a] =
            [work EXCEPT !.staged = {}, !.outcomes = [p \in Proposals |->
               IF p \in work.staged THEN Verdict(appended) ELSE work.outcomes[p]]]]
  /\ UNCHANGED <<server, reports, staging>>

\* The outcomes go to the server; the answer changes nothing for the agent.
SendReport(a) ==
  LET work == agent[a] IN
  /\ work # None
  /\ work.pending = {} /\ work.staged = {}
  /\ reports' = reports \cup {[batch |-> work.batch, outcomes |-> work.outcomes]}
  /\ agent' = [agent EXCEPT ![a] = None]
  /\ UNCHANGED <<server, geodatabase>>

\* The process dies, a guard trips, or the connectivity rebuild fails: nothing
\* is reported of what was done.
Kill(a) ==
  /\ agent[a] # None
  /\ agent' = [agent EXCEPT ![a] = None]
  /\ UNCHANGED <<server, reports, geodatabase>>

LoseReport(r) ==
  /\ r \in reports
  /\ reports' = reports \ {r}
  /\ UNCHANGED <<server, agent, geodatabase>>

-----------------------------------------------------------------------------
Next ==
  \/ OrderMoves
  \/ \E staged \in SUBSET Proposals \ {{}} : stage_from_work_order(staged)
  \/ \E s \in Sessions : CreateBegin(s) \/ CreateCommit(s) \/ Rollback(s)
  \/ \E b \in Batches : apply_results(b)
  \/ \E r \in reports : record_batch_results(r) \/ LoseReport(r)
  \/ \E a \in Agents, b \in Batches : Take(a, b)
  \/ \E a \in Agents : stage_rows(a) \/ append_to_target(a) \/ SendReport(a) \/ Kill(a)

Spec == Init /\ [][Next]_vars

-----------------------------------------------------------------------------
(* Properties *)

\* Rows hold the words of the staging table, never the agent's own.
TypeOK ==
  /\ order \in {"in_review", "approved", "closed"}
  /\ row \in [Proposals -> Row \cup {None}]
  /\ batch \in [Batches -> {"ready", "completed", None}]
  /\ result \in [Batches -> [Proposals -> Outcome \cup {None}]]
  /\ picked \in [Sessions -> SUBSET Proposals]
  /\ agent \in [Agents -> Work \cup {None}]
  /\ reports \subseteq Report
  /\ staging \in [Proposals -> Nat]
  /\ target \in [Proposals -> Nat]

\* What the trail calls applied is in the geodatabase, through kills, repeated
\* runs, reports that arrive late, and batches that took a proposal from another.
AppliedIsThere ==
  \A p \in Proposals :
    \/ target[p] > 0
    \/ /\ \A b \in Batches : result[b][p] # "applied"
       /\ row[p] # None => row[p].status # "applied"

\* RF-353: a completed batch answers for every proposal it carries, although
\* another session may have taken some of them to a batch of its own.
CompletedAnswers ==
  \A b \in Batches : batch[b] = "completed" =>
    \A p \in Proposals :
      (row[p] # None /\ row[p].batch = b) => result[b][p] # None

\* H15: what needs ArcFM's auto-updaters stays out of the geodatabase, and of
\* the staging class whose rows every later Append takes along.
ArcfmLeftAlone == \A p \in Arcfm : staging[p] = 0 /\ target[p] = 0

-----------------------------------------------------------------------------
(* What the documents say and the code does not keep *)

\* ADR-008: "idempotent by proposal_id: reprocessing a batch duplicates nothing".
AppliedOnce == \A p \in Proposals : target[p] <= 1
=============================================================================
