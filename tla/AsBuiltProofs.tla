--------------------------- MODULE AsBuiltProofs ---------------------------
(***************************************************************************)
(* For any proposals, batches, agents and sessions: the trail never claims *)
(* an element the geodatabase lacks, a completed batch answers for all it  *)
(* carries, and what needs ArcFM is left alone.                            *)
(***************************************************************************)
EXTENDS AsBuilt, TLAPS

-----------------------------------------------------------------------------
(* The inductive invariant *)

Carried(p, b) == row[p] # None /\ row[p].batch = b

\* An agent stages once, only what is automatic, into a class that keeps it;
\* what it calls applied is there; and of what its batch still carries it has
\* yet to do the rest.
WorkHonest(w) ==
  /\ batch[w.batch] # None
  /\ w.pending = {} \/ w.staged = {}
  /\ (w.pending \cup w.staged) \cap Arcfm = {}
  /\ \A p \in w.staged : staging[p] > 0
  /\ \A p \in Proposals : w.outcomes[p] = "applied" => target[p] > 0
  /\ \A p \in Proposals :
       Carried(p, w.batch) => p \in w.pending \cup w.staged \/ w.outcomes[p] # None

\* A report, whenever it arrives, tells the truth about all the batch carries.
ReportHonest(r) ==
  /\ batch[r.batch] # None
  /\ \A p \in Proposals : r.outcomes[p] = "applied" => target[p] > 0
  /\ \A p \in Proposals : Carried(p, r.batch) => r.outcomes[p] # None

AgentsHonest == \A a \in Agents : agent[a] # None => WorkHonest(agent[a])
ReportsHonest == \A r \in reports : ReportHonest(r)

AsBuiltInv ==
  /\ TypeOK
  /\ AgentsHonest
  /\ ReportsHonest
  /\ AppliedIsThere
  /\ CompletedAnswers
  /\ ArcfmLeftAlone

-----------------------------------------------------------------------------
(* Records *)

LEMMA WorkFields ==
  ASSUME NEW w \in Work
  PROVE  /\ w.batch \in Batches
         /\ w.pending \subseteq Proposals
         /\ w.staged \subseteq Proposals
         /\ w.outcomes \in [Proposals -> Outcome \cup {None}]
  BY DEF Work

LEMMA RowsWritten ==
  ASSUME NEW r \in Row, NEW word \in Outcome
  PROVE  /\ [r EXCEPT !.status = StatusFor(word)] \in Row
         /\ [r EXCEPT !.status = StatusFor(word)].status = StatusFor(word)
         /\ [r EXCEPT !.status = StatusFor(word)].batch = r.batch
         /\ StatusFor(word) = "applied" => word = "applied"
  <1>1. StatusFor(word) \in RowStatus /\ (StatusFor(word) = "applied" => word = "applied")
    BY DEF StatusFor, Outcome, RowStatus
  <1> QED
    BY <1>1 DEF Row

-----------------------------------------------------------------------------
(* The agent *)

\* The geodatabase only gains rows, and a new report and the work that replaces
\* an agent's are honest.
LEMMA AgentKeeps ==
  ASSUME AsBuiltInv, UNCHANGED server, NEW a \in Agents, NEW w \in Work \cup {None},
         agent' = [agent EXCEPT ![a] = w],
         NEW R \in SUBSET Report, reports' = reports \cup R,
         staging' \in [Proposals -> Nat], \A p \in Proposals : staging'[p] >= staging[p],
         target' \in [Proposals -> Nat], \A p \in Proposals : target'[p] >= target[p],
         w # None => WorkHonest(w)',
         \A r \in R : ReportHonest(r)',
         ArcfmLeftAlone'
  PROVE  AsBuiltInv'
  <1> USE DEF AsBuiltInv, server
  <1>1. TypeOK'
    BY DEF TypeOK
  <1>2. AgentsHonest'
    <2> SUFFICES ASSUME NEW x \in Agents, agent'[x] # None
                 PROVE  WorkHonest(agent[x])'
      BY DEF AgentsHonest
    <2>1. CASE x = a
      <3>1. agent'[x] = w /\ WorkHonest(w)'
        BY <2>1 DEF TypeOK
      <3> QED
        BY <3>1 DEF WorkHonest, Carried
    <2>2. CASE x # a
      <3>1. agent'[x] = agent[x] /\ agent[x] \in Work /\ WorkHonest(agent[x])
        BY <2>2 DEF TypeOK, AgentsHonest
      <3>2. agent[x].staged \subseteq Proposals
        BY <3>1, WorkFields
      <3>3. \A p \in Proposals : /\ staging[p] \in Nat /\ staging'[p] \in Nat
                                 /\ target[p] \in Nat /\ target'[p] \in Nat
        BY DEF TypeOK
      <3> QED
        BY <3>1, <3>2, <3>3 DEF WorkHonest, Carried
    <2> QED
      BY <2>1, <2>2
  <1>3. ReportsHonest'
    <2> SUFFICES ASSUME NEW r \in reports PROVE ReportHonest(r)'
      BY DEF ReportsHonest
    <2> QED
      BY DEF ReportsHonest, ReportHonest, Carried, TypeOK
  <1>4. AppliedIsThere'
    BY DEF AppliedIsThere, TypeOK
  <1>5. CompletedAnswers'
    BY DEF CompletedAnswers
  <1> QED
    BY <1>1, <1>2, <1>3, <1>4, <1>5

LEMMA TakeKeeps ==
  ASSUME AsBuiltInv, NEW a \in Agents, NEW b \in Batches, Take(a, b)
  PROVE  AsBuiltInv'
  <1> DEFINE carried == {p \in Proposals : row[p] # None /\ row[p].batch = b}
             words == [p \in Proposals |->
                         IF p \in carried \ Automatic(carried) THEN "requires_arcfm" ELSE None]
             w == [batch |-> b, pending |-> Automatic(carried), staged |-> {}, outcomes |-> words]
  <1>1. /\ agent' = [agent EXCEPT ![a] = w]
        /\ batch[b] = "ready"
        /\ UNCHANGED server /\ UNCHANGED reports /\ UNCHANGED geodatabase
    BY DEF Take
  <1>2. words \in [Proposals -> Outcome \cup {None}]
    BY DEF Outcome
  <1>3. w \in Work
    BY <1>2 DEF Work, Automatic
  <1>4. \A p \in Proposals : words[p] # "applied"
    BY NoneIsNothing
  <1>5. \A p \in carried : p \in Automatic(carried) \/ words[p] # None
    BY NoneIsNothing
  <1> HIDE DEF words
  <1>6. /\ w.batch = b /\ w.pending = Automatic(carried) /\ w.staged = {} /\ w.outcomes = words
    OBVIOUS
  <1> HIDE DEF w
  <1> PICK k \in Work : k = w
    BY <1>3
  <1>9. WorkHonest(k)'
    <2>1. batch'[k.batch] # None /\ row' = row
      BY <1>1, <1>6, NoneIsNothing DEF server
    <2>2. k.pending \cap Arcfm = {}
      BY <1>6 DEF Automatic
    <2> QED
      BY <1>4, <1>5, <1>6, <2>1, <2>2 DEF WorkHonest, Carried
  <1>7. /\ staging' \in [Proposals -> Nat] /\ \A p \in Proposals : staging'[p] >= staging[p]
        /\ target' \in [Proposals -> Nat] /\ \A p \in Proposals : target'[p] >= target[p]
        /\ ArcfmLeftAlone'
    BY <1>1 DEF AsBuiltInv, TypeOK, geodatabase, ArcfmLeftAlone
  <1>8. reports' = reports \cup {}
    BY <1>1
  <1>10. agent' = [agent EXCEPT ![a] = k] /\ UNCHANGED server
    BY <1>1
  <1>11. {} \in SUBSET Report /\ \A r \in {} : ReportHonest(r)'
    OBVIOUS
  <1> HIDE DEF words, carried
  <1> QED
    BY ONLY AsBuiltInv, a \in Agents, k \in Work, <1>7, <1>8, <1>9, <1>10, <1>11, AgentKeeps

\* What the invariant says of an agent at work.
LEMMA AgentAtWork ==
  ASSUME AsBuiltInv, NEW a \in Agents, agent[a] # None
  PROVE  agent[a] \in Work /\ WorkHonest(agent[a])
  BY DEF AsBuiltInv, TypeOK, AgentsHonest

LEMMA StageKeeps ==
  ASSUME AsBuiltInv, NEW a \in Agents, stage_rows(a)
  PROVE  AsBuiltInv'
  <1>1. agent[a] # None /\ agent[a].pending # {}
    BY DEF stage_rows
  <1> PICK work \in Work : work = agent[a] /\ WorkHonest(work)
    BY <1>1, AgentAtWork
  <1>2. PICK staged \in SUBSET work.pending :
          /\ staging' = [p \in Proposals |->
               IF p \in staged THEN staging[p] + 1 ELSE staging[p]]
          /\ agent' = [agent EXCEPT ![a] =
               [work EXCEPT !.pending = {}, !.staged = staged,
                            !.outcomes = WithErrors(work.outcomes, work.pending \ staged)]]
    BY DEF stage_rows
  <1>3. UNCHANGED server /\ UNCHANGED reports /\ UNCHANGED target
    BY DEF stage_rows
  <1> DEFINE words == WithErrors(work.outcomes, work.pending \ staged)
             made == [work EXCEPT !.pending = {}, !.staged = staged, !.outcomes = words]
  <1>4. words \in [Proposals -> Outcome \cup {None}]
    BY WorkFields DEF WithErrors, Outcome
  <1>5. staged \in SUBSET Proposals /\ {} \in SUBSET Proposals
    BY WorkFields
  <1>6. \A p \in Proposals : words[p] = IF p \in work.pending \ staged THEN "error" ELSE work.outcomes[p]
    BY WorkFields DEF WithErrors
  <1> HIDE DEF words
  <1>7. PICK k \in Work : /\ k = made
                          /\ k.batch = work.batch /\ k.pending = {}
                          /\ k.staged = staged /\ k.outcomes = words
    <2>1. ASSUME NEW k, k = made
          PROVE  /\ k \in Work /\ k.batch = work.batch /\ k.pending = {}
                 /\ k.staged = staged /\ k.outcomes = words
      BY ONLY <2>1, <1>4, <1>5, work \in Work DEF Work
    <2> QED
      BY <2>1
  <1>8. agent' = [agent EXCEPT ![a] = k]
    BY <1>2, <1>7 DEF words
  <1>9. /\ staging' \in [Proposals -> Nat] /\ \A p \in Proposals : staging'[p] >= staging[p]
        /\ \A p \in staged : staging'[p] > 0
        /\ target' \in [Proposals -> Nat] /\ \A p \in Proposals : target'[p] >= target[p]
    BY <1>2, <1>3, <1>5 DEF AsBuiltInv, TypeOK
  <1>10. ArcfmLeftAlone'
    <2>1. staged \cap Arcfm = {}
      BY DEF WorkHonest
    <2> QED
      BY <1>2, <1>3, <2>1, ArcfmProposals DEF AsBuiltInv, ArcfmLeftAlone
  <1>11. WorkHonest(k)'
    <2>1. work.staged = {} /\ work.pending \cap Arcfm = {}
      BY <1>1 DEF WorkHonest
    <2>2. batch'[k.batch] # None /\ row' = row
      BY <1>3, <1>7 DEF WorkHonest, server
    <2>3. \A p \in Proposals : k.outcomes[p] = "applied" => target'[p] > 0
      BY <1>3, <1>6, <1>7 DEF WorkHonest
    <2>4. \A p \in Proposals : Carried(p, k.batch) => p \in staged \/ k.outcomes[p] # None
      BY <1>6, <1>7, <2>1, NoneIsNothing DEF WorkHonest
    <2> QED
      BY <1>5, <1>7, <1>9, <2>1, <2>2, <2>3, <2>4 DEF WorkHonest, Carried
  <1>12. {} \in SUBSET Report /\ reports' = reports \cup {} /\ \A r \in {} : ReportHonest(r)'
    BY <1>3
  <1> QED
    BY ONLY AsBuiltInv, a \in Agents, k \in Work, <1>3, <1>8, <1>9, <1>10, <1>11, <1>12, AgentKeeps

LEMMA AppendKeeps ==
  ASSUME AsBuiltInv, NEW a \in Agents, append_to_target(a)
  PROVE  AsBuiltInv'
  <1>1. agent[a] # None /\ agent[a].staged # {}
    BY DEF append_to_target
  <1> PICK work \in Work : work = agent[a] /\ WorkHonest(work)
    BY <1>1, AgentAtWork
  <1>2. PICK appended \in BOOLEAN :
          /\ target' = [p \in Proposals |->
               IF appended THEN target[p] + staging[p] ELSE target[p]]
          /\ agent' = [agent EXCEPT ![a] =
               [work EXCEPT !.staged = {}, !.outcomes = [p \in Proposals |->
                  IF p \in work.staged THEN Verdict(appended) ELSE work.outcomes[p]]]]
    BY DEF append_to_target
  <1>3. UNCHANGED server /\ UNCHANGED reports /\ UNCHANGED staging
    BY DEF append_to_target
  <1> DEFINE words == [p \in Proposals |->
               IF p \in work.staged THEN Verdict(appended) ELSE work.outcomes[p]]
             made == [work EXCEPT !.staged = {}, !.outcomes = words]
  <1>4. words \in [Proposals -> Outcome \cup {None}]
    BY WorkFields DEF Verdict, Outcome
  <1>5. /\ \A p \in Proposals : words[p] = IF p \in work.staged THEN Verdict(appended)
                                                               ELSE work.outcomes[p]
        /\ work.staged \subseteq Proposals /\ work.pending \in SUBSET Proposals
        /\ {} \in SUBSET Proposals
    BY WorkFields
  <1> HIDE DEF words
  <1>6. PICK k \in Work : /\ k = made
                          /\ k.batch = work.batch /\ k.pending = work.pending
                          /\ k.staged = {} /\ k.outcomes = words
    <2>1. ASSUME NEW k, k = made
          PROVE  /\ k \in Work /\ k.batch = work.batch /\ k.pending = work.pending
                 /\ k.staged = {} /\ k.outcomes = words
      BY ONLY <2>1, <1>4, <1>5, work \in Work DEF Work
    <2> QED
      BY <2>1
  <1>7. agent' = [agent EXCEPT ![a] = k]
    BY <1>2, <1>6 DEF words
  <1>8. /\ target' \in [Proposals -> Nat] /\ \A p \in Proposals : target'[p] >= target[p]
        /\ appended => \A p \in work.staged : target'[p] > 0
    BY <1>2, <1>5 DEF AsBuiltInv, TypeOK, WorkHonest
  <1>9. staging' \in [Proposals -> Nat] /\ \A p \in Proposals : staging'[p] >= staging[p]
    BY <1>3 DEF AsBuiltInv, TypeOK
  <1>10. ArcfmLeftAlone'
    BY <1>2, <1>3, ArcfmProposals DEF AsBuiltInv, ArcfmLeftAlone
  <1>11. WorkHonest(k)'
    <2>1. work.pending = {}
      BY <1>1 DEF WorkHonest
    <2>2. batch'[k.batch] # None /\ row' = row
      BY <1>3, <1>6 DEF WorkHonest, server
    <2>3. \A p \in Proposals : k.outcomes[p] = "applied" => target'[p] > 0
      <3>1. \A p \in Proposals : target[p] \in Nat /\ target'[p] \in Nat
        BY <1>8 DEF AsBuiltInv, TypeOK
      <3> QED
        BY <1>5, <1>6, <1>8, <3>1 DEF WorkHonest, Verdict
    <2>4. \A p \in Proposals : Carried(p, k.batch) => k.outcomes[p] # None
      BY <1>5, <1>6, <2>1, NoneIsNothing DEF WorkHonest, Verdict
    <2> QED
      BY <1>6, <2>1, <2>2, <2>3, <2>4 DEF WorkHonest, Carried
  <1>12. {} \in SUBSET Report /\ reports' = reports \cup {} /\ \A r \in {} : ReportHonest(r)'
    BY <1>3
  <1> QED
    BY ONLY AsBuiltInv, a \in Agents, k \in Work, <1>3, <1>7, <1>8, <1>9, <1>10, <1>11, <1>12,
       AgentKeeps

\* A report says what its agent did.
LEMMA SendKeeps ==
  ASSUME AsBuiltInv, NEW a \in Agents, SendReport(a) \/ Kill(a)
  PROVE  AsBuiltInv'
  <1>1. agent[a] # None /\ UNCHANGED server /\ UNCHANGED geodatabase
    BY DEF SendReport, Kill
  <1>2. agent' = [agent EXCEPT ![a] = None]
    BY DEF SendReport, Kill
  <1> PICK work \in Work : work = agent[a] /\ WorkHonest(work)
    BY <1>1, AgentAtWork
  <1> DEFINE r == [batch |-> work.batch, outcomes |-> work.outcomes]
             R == IF SendReport(a) THEN {r} ELSE {}
  <1>3. reports' = reports \cup R
    BY DEF SendReport, Kill
  <1>4. r \in Report /\ r.batch = work.batch /\ r.outcomes = work.outcomes
    BY WorkFields DEF Report
  <1>5. SendReport(a) => work.pending = {} /\ work.staged = {}
    BY DEF SendReport
  <1> HIDE DEF r
  <1>6. PICK k \in Report : k = r
    BY <1>4
  <1>7. SendReport(a) => ReportHonest(k)'
    BY <1>1, <1>4, <1>5, <1>6 DEF ReportHonest, WorkHonest, Carried, server, geodatabase
  <1>8. /\ staging' \in [Proposals -> Nat] /\ \A p \in Proposals : staging'[p] >= staging[p]
        /\ target' \in [Proposals -> Nat] /\ \A p \in Proposals : target'[p] >= target[p]
        /\ ArcfmLeftAlone'
    BY <1>1 DEF AsBuiltInv, TypeOK, geodatabase, ArcfmLeftAlone
  <1>9. CASE SendReport(a)
    <2>1. {k} \in SUBSET Report /\ reports' = reports \cup {k} /\ \A x \in {k} : ReportHonest(x)'
      BY <1>3, <1>6, <1>7, <1>9
    <2> QED
      BY ONLY AsBuiltInv, a \in Agents, <1>1, <1>2, <1>8, <2>1, AgentKeeps
  <1>10. CASE ~SendReport(a)
    <2>1. {} \in SUBSET Report /\ reports' = reports \cup {} /\ \A x \in {} : ReportHonest(x)'
      BY <1>3, <1>10
    <2> QED
      BY ONLY AsBuiltInv, a \in Agents, <1>1, <1>2, <1>8, <2>1, AgentKeeps
  <1> QED
    BY <1>9, <1>10

-----------------------------------------------------------------------------
(* The server *)

\* Nothing of the server's makes a batch that is out carry more than it did.
LEMMA ServerKeeps ==
  ASSUME AsBuiltInv, UNCHANGED <<agent, staging, target>>, reports' \subseteq reports,
         \A b \in Batches : batch[b] # None => batch'[b] # None,
         \A p \in Proposals, b \in Batches :
           batch[b] # None /\ Carried(p, b)' => Carried(p, b)
  PROVE  AgentsHonest' /\ ReportsHonest' /\ ArcfmLeftAlone'
  <1>1. AgentsHonest'
    <2> SUFFICES ASSUME NEW a \in Agents, agent[a] # None PROVE WorkHonest(agent[a])'
      BY DEF AgentsHonest
    <2>1. agent'[a] = agent[a] /\ agent[a] \in Work /\ WorkHonest(agent[a])
      BY AgentAtWork
    <2>2. agent[a].batch \in Batches
      BY <2>1, WorkFields
    <2> QED
      BY <2>1, <2>2 DEF WorkHonest
  <1>2. ReportsHonest'
    <2> SUFFICES ASSUME NEW r \in reports PROVE ReportHonest(r)'
      BY DEF ReportsHonest
    <2>1. r \in Report /\ ReportHonest(r) /\ r.batch \in Batches
      BY DEF AsBuiltInv, TypeOK, ReportsHonest, Report
    <2> QED
      BY <2>1 DEF ReportHonest
  <1>3. ArcfmLeftAlone'
    BY DEF AsBuiltInv, ArcfmLeftAlone
  <1> QED
    BY <1>1, <1>2, <1>3

\* Steps that leave rows, batches and results as they are.
LEMMA QuietKeeps ==
  ASSUME AsBuiltInv, UNCHANGED <<row, batch, result, agent, staging, target>>,
         reports' \subseteq reports,
         order' \in {"in_review", "approved", "closed"},
         picked' \in [Sessions -> SUBSET Proposals]
  PROVE  AsBuiltInv'
  <1>1. AgentsHonest' /\ ReportsHonest' /\ ArcfmLeftAlone'
    BY ServerKeeps DEF Carried
  <1>2. TypeOK'
    BY DEF AsBuiltInv, TypeOK
  <1>3. AppliedIsThere' /\ CompletedAnswers'
    BY DEF AsBuiltInv, AppliedIsThere, CompletedAnswers
  <1> QED
    BY <1>1, <1>2, <1>3 DEF AsBuiltInv

\* A new row belongs to no batch.
LEMMA StagingKeeps ==
  ASSUME AsBuiltInv, NEW staged \in SUBSET Proposals, stage_from_work_order(staged)
  PROVE  AsBuiltInv'
  <1>1. /\ row' = [p \in Proposals |->
              IF p \in staged /\ row[p] = None
                THEN [status |-> "approved", batch |-> None] ELSE row[p]]
        /\ UNCHANGED <<order, batch, result, picked, agent, reports, staging, target>>
    BY DEF stage_from_work_order, geodatabase
  <1>2. [status |-> "approved", batch |-> None] \in Row
    BY DEF Row, RowStatus
  <1>3. \A p \in Proposals : \/ row'[p] = row[p]
                             \/ row'[p].status = "approved" /\ row'[p].batch = None
    BY <1>1
  <1>4. \A p \in Proposals, b \in Batches : Carried(p, b)' => Carried(p, b)
    BY <1>3, NoneIsNothing DEF Carried
  <1>5. AgentsHonest' /\ ReportsHonest' /\ ArcfmLeftAlone'
    BY <1>1, <1>4, ServerKeeps
  <1>6. TypeOK'
    BY <1>1, <1>2 DEF AsBuiltInv, TypeOK
  <1>7. AppliedIsThere'
    BY <1>1, <1>3 DEF AsBuiltInv, AppliedIsThere
  <1>8. CompletedAnswers'
    BY <1>1, <1>4 DEF AsBuiltInv, CompletedAnswers, Carried
  <1> QED
    BY <1>5, <1>6, <1>7, <1>8 DEF AsBuiltInv

\* The new batch is nobody's yet, and the rows it takes leave the others.
LEMMA BatchKeeps ==
  ASSUME AsBuiltInv, NEW s \in Sessions, CreateCommit(s)
  PROVE  AsBuiltInv'
  <1>1. PICK b \in Batches :
          /\ batch[b] = None
          /\ batch' = [batch EXCEPT ![b] = "ready"]
          /\ row' = [p \in Proposals |->
               IF p \in picked[s] THEN [status |-> "dispatched", batch |-> b] ELSE row[p]]
    BY DEF CreateCommit
  <1>2. /\ picked' = [picked EXCEPT ![s] = {}]
        /\ UNCHANGED <<order, result, agent, reports, staging, target>>
    BY DEF CreateCommit, geodatabase
  <1>3. [status |-> "dispatched", batch |-> b] \in Row
    BY DEF Row, RowStatus
  <1>4. \A p \in Proposals : \/ row'[p] = row[p]
                             \/ row'[p].status = "dispatched" /\ row'[p].batch = b
    BY <1>1
  <1>5. \A x \in Batches : batch'[x] = IF x = b THEN "ready" ELSE batch[x]
    BY <1>1 DEF AsBuiltInv, TypeOK
  <1>6. \A p \in Proposals, x \in Batches :
          batch[x] # None /\ Carried(p, x)' => Carried(p, x)
    BY <1>1, <1>4 DEF Carried
  <1>7. AgentsHonest' /\ ReportsHonest' /\ ArcfmLeftAlone'
    BY <1>2, <1>5, <1>6, NoneIsNothing, ServerKeeps
  <1>8. TypeOK'
    BY <1>1, <1>2, <1>3 DEF AsBuiltInv, TypeOK
  <1>9. AppliedIsThere'
    BY <1>2, <1>4 DEF AsBuiltInv, AppliedIsThere
  <1>10. CompletedAnswers'
    <2> SUFFICES ASSUME NEW x \in Batches, batch'[x] = "completed",
                        NEW p \in Proposals, Carried(p, x)'
                 PROVE  result'[x][p] # None
      BY DEF CompletedAnswers, Carried
    <2>1. batch[x] = "completed" /\ Carried(p, x)
      BY <1>5, <1>6, NoneIsNothing
    <2> QED
      BY <1>2, <2>1 DEF AsBuiltInv, CompletedAnswers, Carried
  <1> QED
    BY <1>7, <1>8, <1>9, <1>10 DEF AsBuiltInv

\* An honest report makes honest results, however late it comes.
LEMMA ResultsKeep ==
  ASSUME AsBuiltInv, NEW r \in reports, record_batch_results(r)
  PROVE  AsBuiltInv'
  <1>1. r \in Report /\ ReportHonest(r) /\ r.batch \in Batches
        /\ r.outcomes \in [Proposals -> Outcome \cup {None}]
    BY DEF AsBuiltInv, TypeOK, ReportsHonest, Report
  <1> DEFINE words == [p \in Proposals |->
               IF r.outcomes[p] # None THEN r.outcomes[p] ELSE result[r.batch][p]]
  <1>2. /\ result' = [result EXCEPT ![r.batch] = words]
        /\ batch' = [batch EXCEPT ![r.batch] = "completed"]
        /\ reports' \subseteq reports
        /\ UNCHANGED <<order, row, picked, agent, staging, target>>
    BY DEF record_batch_results, geodatabase
  <1>3. words \in [Proposals -> Outcome \cup {None}]
    BY <1>1 DEF AsBuiltInv, TypeOK
  <1>4. \A p \in Proposals :
          words[p] = IF r.outcomes[p] # None THEN r.outcomes[p] ELSE result[r.batch][p]
    OBVIOUS
  <1> HIDE DEF words
  <1>5. \A b \in Batches :
          /\ result'[b] = IF b = r.batch THEN words ELSE result[b]
          /\ batch'[b] = IF b = r.batch THEN "completed" ELSE batch[b]
    BY <1>1, <1>2 DEF AsBuiltInv, TypeOK
  <1>6. TypeOK'
    BY <1>1, <1>2, <1>3 DEF AsBuiltInv, TypeOK
  <1>7. \A p \in Proposals, b \in Batches : Carried(p, b)' <=> Carried(p, b)
    BY <1>2 DEF Carried
  <1>8. AgentsHonest' /\ ReportsHonest' /\ ArcfmLeftAlone'
    BY <1>2, <1>5, <1>7, NoneIsNothing, ServerKeeps
  <1>9. AppliedIsThere'
    BY <1>1, <1>2, <1>4, <1>5 DEF AsBuiltInv, AppliedIsThere, ReportHonest
  <1>10. CompletedAnswers'
    BY <1>1, <1>2, <1>4, <1>5 DEF AsBuiltInv, CompletedAnswers, ReportHonest, Carried
  <1> QED
    BY <1>6, <1>8, <1>9, <1>10 DEF AsBuiltInv

\* A row changes its status, never its batch.
LEMMA OutcomesKeep ==
  ASSUME AsBuiltInv, NEW b \in Batches, apply_results(b)
  PROVE  AsBuiltInv'
  <1>1. /\ row' = [p \in Proposals |->
              IF row[p] # None /\ result[b][p] # None
                THEN [row[p] EXCEPT !.status = StatusFor(result[b][p])] ELSE row[p]]
        /\ UNCHANGED <<order, batch, result, picked, agent, reports, staging, target>>
    BY DEF apply_results, geodatabase
  <1>2. ASSUME NEW p \in Proposals
        PROVE  \/ row'[p] = row[p]
               \/ /\ row[p] # None
                  /\ row'[p] \in Row
                  /\ row'[p].batch = row[p].batch
                  /\ row'[p].status = "applied" => result[b][p] = "applied"
    <2>1. CASE row[p] # None /\ result[b][p] # None
      <3>1. row[p] \in Row /\ result[b][p] \in Outcome
        BY <2>1 DEF AsBuiltInv, TypeOK
      <3>2. row'[p] = [row[p] EXCEPT !.status = StatusFor(result[b][p])]
        BY <1>1, <2>1
      <3> QED
        BY <2>1, <3>1, <3>2, RowsWritten
    <2> QED
      BY <1>1, <2>1
  <1>3. \A p \in Proposals, x \in Batches : Carried(p, x)' => Carried(p, x)
    BY <1>2 DEF Carried
  <1>4. AgentsHonest' /\ ReportsHonest' /\ ArcfmLeftAlone'
    BY <1>1, <1>3, ServerKeeps
  <1>5. row' \in [Proposals -> Row \cup {None}]
    <2>1. \A p \in Proposals : row'[p] \in Row \cup {None}
      BY <1>2 DEF AsBuiltInv, TypeOK
    <2> QED
      BY <1>1, <2>1
  <1>6. TypeOK'
    BY <1>1, <1>5 DEF AsBuiltInv, TypeOK
  <1>7. AppliedIsThere'
    BY <1>1, <1>2 DEF AsBuiltInv, AppliedIsThere
  <1>8. CompletedAnswers'
    BY <1>1, <1>3 DEF AsBuiltInv, CompletedAnswers, Carried
  <1> QED
    BY <1>4, <1>6, <1>7, <1>8 DEF AsBuiltInv

-----------------------------------------------------------------------------
(* The theorems *)

LEMMA AsBuiltStart == Init => AsBuiltInv
  <1> SUFFICES ASSUME Init PROVE AsBuiltInv
    OBVIOUS
  <1>1. TypeOK
    BY DEF Init, TypeOK
  <1>2. AgentsHonest /\ ReportsHonest
    BY DEF Init, AgentsHonest, ReportsHonest
  <1>3. AppliedIsThere /\ CompletedAnswers
    BY NoneIsNothing DEF Init, AppliedIsThere, CompletedAnswers
  <1>4. ArcfmLeftAlone
    BY ArcfmProposals DEF Init, ArcfmLeftAlone
  <1> QED
    BY <1>1, <1>2, <1>3, <1>4 DEF AsBuiltInv

LEMMA AsBuiltStep == AsBuiltInv /\ [Next]_vars => AsBuiltInv'
  <1> SUFFICES ASSUME AsBuiltInv, [Next]_vars PROVE AsBuiltInv'
    OBVIOUS
  <1>1. /\ order \in {"in_review", "approved", "closed"}
        /\ picked \in [Sessions -> SUBSET Proposals]
    BY DEF AsBuiltInv, TypeOK
  <1>2. CASE OrderMoves
    BY <1>1, <1>2, QuietKeeps DEF OrderMoves, geodatabase
  <1>3. ASSUME NEW staged \in SUBSET Proposals, stage_from_work_order(staged)
        PROVE  AsBuiltInv'
    BY <1>3, StagingKeeps
  <1>4. ASSUME NEW s \in Sessions, CreateBegin(s) PROVE AsBuiltInv'
    <2>1. picked' \in [Sessions -> SUBSET Proposals]
      BY <1>1, <1>4 DEF CreateBegin, Waiting
    <2> QED
      BY <1>1, <1>4, <2>1, QuietKeeps DEF CreateBegin, geodatabase
  <1>5. ASSUME NEW s \in Sessions, CreateCommit(s) PROVE AsBuiltInv'
    BY <1>5, BatchKeeps
  <1>6. ASSUME NEW s \in Sessions, Rollback(s) PROVE AsBuiltInv'
    BY <1>1, <1>6, QuietKeeps DEF Rollback, geodatabase
  <1>7. ASSUME NEW b \in Batches, apply_results(b) PROVE AsBuiltInv'
    BY <1>7, OutcomesKeep
  <1>8. ASSUME NEW r \in reports, record_batch_results(r) PROVE AsBuiltInv'
    BY <1>8, ResultsKeep
  <1>9. ASSUME NEW r \in reports, LoseReport(r) PROVE AsBuiltInv'
    BY <1>1, <1>9, QuietKeeps DEF LoseReport, server, geodatabase
  <1>10. ASSUME NEW a \in Agents, NEW b \in Batches, Take(a, b) PROVE AsBuiltInv'
    BY <1>10, TakeKeeps
  <1>11. ASSUME NEW a \in Agents, stage_rows(a) PROVE AsBuiltInv'
    BY <1>11, StageKeeps
  <1>12. ASSUME NEW a \in Agents, append_to_target(a) PROVE AsBuiltInv'
    BY <1>12, AppendKeeps
  <1>13. ASSUME NEW a \in Agents, SendReport(a) \/ Kill(a) PROVE AsBuiltInv'
    BY <1>13, SendKeeps
  <1>14. CASE UNCHANGED vars
    BY <1>1, <1>14, QuietKeeps DEF vars
  <1> QED
    BY <1>2, <1>3, <1>4, <1>5, <1>6, <1>7, <1>8, <1>9, <1>10, <1>11, <1>12, <1>13, <1>14
    DEF Next

LEMMA AsBuiltAlways == Spec => []AsBuiltInv
  BY AsBuiltStart, AsBuiltStep, PTL DEF Spec

\* The rows hold only the words of the staging table, in every reachable state.
THEOREM AsBuiltTyped == Spec => []TypeOK
  <1>1. AsBuiltInv => TypeOK
    BY DEF AsBuiltInv
  <1> QED
    BY <1>1, AsBuiltAlways, PTL

\* What asbuilt.py and ingest.py have on record as applied is in the geodatabase.
THEOREM AppliedForReal == Spec => []AppliedIsThere
  <1>1. AsBuiltInv => AppliedIsThere
    BY DEF AsBuiltInv
  <1> QED
    BY <1>1, AsBuiltAlways, PTL

\* RF-353: a completed batch has an outcome for every proposal it carries.
THEOREM BatchesAnswer == Spec => []CompletedAnswers
  <1>1. AsBuiltInv => CompletedAnswers
    BY DEF AsBuiltInv
  <1> QED
    BY <1>1, AsBuiltAlways, PTL

\* H15: nothing of what needs ArcFM reaches the staging class or the network.
THEOREM ArcfmUntouched == Spec => []ArcfmLeftAlone
  <1>1. AsBuiltInv => ArcfmLeftAlone
    BY DEF AsBuiltInv
  <1> QED
    BY <1>1, AsBuiltAlways, PTL
=============================================================================
