--------------------------- MODULE OfficeProofs ----------------------------
(***************************************************************************)
(* What the office does around the work: outage permits, the audit trail,  *)
(* work proposals, the inbound imports, the offline packages, the times    *)
(* phones note, the files they send, the hours they wake in, the crews and *)
(* the routes that are suggested, and the documents proposed for a data    *)
(* model, for any people, references and files and any number of sessions. *)
(***************************************************************************)
EXTENDS OutagePermits, AuditTrail, Proposals, Intake, Packages, TimeLog,
        Uploads, CapturePolicies, Routes, Matching, SequenceTheorems, FiniteSetTheorems,
        WellFoundedInduction, TLAPS

-----------------------------------------------------------------------------
(****************************************************************************)
(* OUTAGE REQUESTS: no permit but under a grant of another person           *)
(****************************************************************************)

\* The trail says so: a grant with a number, by another.
Granted(q) ==
  \E i \in Grants(q) :
    /\ ptrail[q][i].number # None
    /\ ptrail[q][i].by # request[q].requested_by

Unheard == \A q \in Requests : ~Exists(q) => ptrail[q] = <<>>

ByAnother ==
  \A q \in Requests : Exists(q) =>
    \A i \in Grants(q) : ptrail[q][i].by # request[q].requested_by

LinksExist == \A o \in Orders : link[o] # None => Exists(link[o])

\* What a session read still holds of who asked; the state may have moved.
Judged ==
  \A s \in Sessions : open[s].act \in OutageState =>
    \A q \in open[s].on :
      /\ Exists(q)
      /\ open[s].act = "aprobada" =>
           open[s].number \in Numbers /\ open[s].by # request[q].requested_by

SentUnderGrant == \A s \in Sessions : open[s].act = "enviar" => Granted(open[s].under)

\* The part about the rows and their trails, and the part about what was read.
RowsInv == Unheard /\ ByAnother /\ TrailAccounts
ReadsInv == LinksExist /\ Judged /\ SentUnderGrant /\ PermitUnderGrant
PermitInv == PermitTypeOK /\ RowsInv /\ ReadsInv

-----------------------------------------------------------------------------
(* Typing *)

LEMMA PermitStartsTyped == PermitInit => PermitTypeOK
  BY EmptySeq DEF PermitInit, PermitTypeOK, NoSession, Session, ResponseState

LEMMA RequestTyped ==
  ASSUME PermitTypeOK, NEW q \in Requests, request_outage(q)
  PROVE  PermitTypeOK'
  <1>1. PICK who \in People :
          /\ request' = [request EXCEPT ![q] =
               [state |-> "solicitada", number |-> None,
                requested_by |-> who, decided_by |-> None]]
          /\ ptrail' = [ptrail EXCEPT ![q] =
               Append(@, [to |-> "solicitada", number |-> None, by |-> who])]
    BY DEF request_outage
  <1>2. [state |-> "solicitada", number |-> None, requested_by |-> who, decided_by |-> None]
          \in OutageRow
    BY DEF OutageRow, OutageState
  <1>3. [to |-> "solicitada", number |-> None, by |-> who] \in PermitEvent
    BY DEF PermitEvent, OutageState
  <1>4. Append(ptrail[q], [to |-> "solicitada", number |-> None, by |-> who]) \in Seq(PermitEvent)
    BY <1>3, AppendProperties DEF PermitTypeOK
  <1> QED BY <1>1, <1>2, <1>4 DEF PermitTypeOK, request_outage

Deciding ==
  [act: Decisions \cup {"devuelta"}, on: SUBSET Requests, by: People, number: Numbers \cup {None}]
Sweeping == [act: {"vencida"}, on: SUBSET Requests, by: {"sistema"}, number: {None}]

LEMMA DecisionTyped ==
  ASSUME PermitTypeOK, Judged, NEW s \in Sessions, DecisionCommit(s)
  PROVE  PermitTypeOK'
  <1> DEFINE session == open[s]
             e == [to |-> session.act, number |-> session.number, by |-> session.by]
  <1>1. session \in Deciding \cup Sweeping
    <2>1. session \in Deciding \cup Sweeping \cup [act: {"enviar"}, order: Orders, under: Requests]
                       \cup {NoSession}
      BY DEF PermitTypeOK, Session, Deciding, Sweeping
    <2>2. session.act \in OutageState
      BY DEF DecisionCommit
    <2>3. session.act # "enviar" /\ session.act # "none"
      BY <2>2 DEF OutageState
    <2> HIDE DEF session
    <2> QED BY <2>1, <2>3 DEF NoSession
  <1>2. e \in PermitEvent
    BY <1>1 DEF PermitEvent, OutageState, Decisions, Deciding, Sweeping
  <1>3. ptrail' \in [Requests -> Seq(PermitEvent)]
    <2>1. \A q \in Requests : Append(ptrail[q], e) \in Seq(PermitEvent)
      <3> HIDE DEF e
      <3> QED BY <1>2, AppendProperties DEF PermitTypeOK
    <2>2. ptrail' = [q \in Requests |-> IF q \in session.on THEN Append(ptrail[q], e) ELSE ptrail[q]]
      BY DEF DecisionCommit, Logged
    <2> HIDE DEF e, session
    <2> QED BY <2>1, <2>2 DEF PermitTypeOK
  <1>4. request' \in [Requests -> OutageRow \cup {Absent}]
    <2> DEFINE after(q) ==
          [request[q] EXCEPT
             !.state = session.act,
             !.number = IF session.act = "aprobada" THEN session.number ELSE @,
             !.decided_by = IF session.act \in Decisions THEN session.by ELSE @]
    <2>1. \A q \in session.on : after(q) \in OutageRow
      <3> SUFFICES ASSUME NEW q \in session.on PROVE after(q) \in OutageRow
        OBVIOUS
      <3>1. q \in Requests /\ Exists(q) /\ session.act \in OutageState
        BY <1>1 DEF Judged, DecisionCommit, Deciding, Sweeping
      <3>2. request[q] \in OutageRow
        BY <3>1 DEF PermitTypeOK, Exists
      <3>3. session.act \in Decisions => session.by \in People
        BY <1>1 DEF Deciding, Sweeping, Decisions
      <3>4. session.number \in Numbers \cup {None}
        BY <1>1 DEF Deciding, Sweeping
      <3> HIDE DEF session
      <3> QED BY <3>1, <3>2, <3>3, <3>4 DEF OutageRow
    <2>2. request' = [q \in Requests |-> IF q \notin session.on THEN request[q] ELSE after(q)]
      BY DEF DecisionCommit
    <2> HIDE DEF after, session
    <2> QED BY <2>1, <2>2 DEF PermitTypeOK
  <1>5. open' \in [Sessions -> Session]
    BY DEF DecisionCommit, PermitTypeOK, Session
  <1> QED BY <1>3, <1>4, <1>5 DEF DecisionCommit, PermitTypeOK

\* The steps that leave the rows alone.
QuietStep ==
  \/ \E q \in Requests : WindowPasses(q)
  \/ \E o \in Orders : link_order(o) \/ unlink_order(o) \/ SavePermitDraft(o) \/ PermitReturned(o)
  \/ \E s \in Sessions :
       ApproveOutageBegin(s) \/ RejectOutageBegin(s) \/ HandBackBegin(s) \/ ExpireBegin(s)
       \/ SubmitBegin(s) \/ SubmitCommit(s) \/ SessionEnds(s)

LEMMA QuietTyped ==
  ASSUME PermitTypeOK, LinksExist, QuietStep
  PROVE  PermitTypeOK' /\ request' = request /\ ptrail' = ptrail
  <1> USE DEF PermitTypeOK
  <1>1. ASSUME NEW q \in Requests, WindowPasses(q) PROVE PermitTypeOK' /\ request' = request /\ ptrail' = ptrail
    BY <1>1 DEF WindowPasses
  <1>2. ASSUME NEW o \in Orders, link_order(o) \/ unlink_order(o) PROVE PermitTypeOK' /\ request' = request /\ ptrail' = ptrail
    BY <1>2 DEF link_order, unlink_order
  <1>3. ASSUME NEW o \in Orders, SavePermitDraft(o) \/ PermitReturned(o) PROVE PermitTypeOK' /\ request' = request /\ ptrail' = ptrail
    <2> DEFINE form == [state: ResponseState, under: Requests \cup {None}]
    <2>1. permit \in [Orders -> form] /\ permit[o] \in form
      OBVIOUS
    <2>2. PICK row \in form : permit' = [permit EXCEPT ![o] = row]
      <3>1. CASE SavePermitDraft(o)
        <4> DEFINE row == [permit[o] EXCEPT !.state = IF permit[o].state = "none" THEN "borrador" ELSE permit[o].state]
        <4>1. row \in form
          BY <2>1 DEF ResponseState
        <4>2. permit' = [permit EXCEPT ![o] = row]
          BY <3>1 DEF SavePermitDraft
        <4> QED BY <4>1, <4>2
      <3>2. CASE PermitReturned(o)
        <4>1. [permit[o] EXCEPT !.state = "devuelta"] \in form
          BY <2>1 DEF ResponseState
        <4> QED BY <3>2, <4>1 DEF PermitReturned
      <3> QED BY <1>3, <3>1, <3>2
    <2>3. permit' \in [Orders -> form]
      <3> HIDE DEF form
      <3> QED BY <2>1, <2>2
    <2> QED BY <1>3, <2>3 DEF SavePermitDraft, PermitReturned
  <1>4. ASSUME NEW s \in Sessions, ApproveOutageBegin(s) \/ RejectOutageBegin(s) PROVE PermitTypeOK' /\ request' = request /\ ptrail' = ptrail
    <2>1. PICK q \in Requests, who \in People, act \in Decisions, n \in Numbers \cup {None} :
            Starts(s, [act |-> act, on |-> {q}, by |-> who, number |-> n])
      BY <1>4 DEF ApproveOutageBegin, RejectOutageBegin, Decisions
    <2>2. [act |-> act, on |-> {q}, by |-> who, number |-> n] \in Session
      BY DEF Session
    <2> QED BY <1>4, <2>1, <2>2 DEF ApproveOutageBegin, RejectOutageBegin, Starts
  <1>5. ASSUME NEW s \in Sessions, HandBackBegin(s) PROVE PermitTypeOK' /\ request' = request /\ ptrail' = ptrail
    <2>1. PICK q \in Requests, who \in People :
            /\ Exists(q)
            /\ Starts(s, [act |-> "devuelta", on |-> {q}, by |-> who, number |-> request[q].number])
      BY <1>5 DEF HandBackBegin
    <2>2. request[q].number \in Numbers \cup {None}
      BY <2>1 DEF Exists, OutageRow
    <2> QED BY <1>5, <2>1, <2>2 DEF HandBackBegin, Starts, Session
  <1>6. ASSUME NEW s \in Sessions, ExpireBegin(s) PROVE PermitTypeOK' /\ request' = request /\ ptrail' = ptrail
    BY <1>6 DEF ExpireBegin, Starts, Session
  <1>7. ASSUME NEW s \in Sessions, SubmitBegin(s) PROVE PermitTypeOK' /\ request' = request /\ ptrail' = ptrail
    <2>1. PICK o \in Orders :
            PermitOpens(link[o]) /\ Starts(s, [act |-> "enviar", order |-> o, under |-> link[o]])
      BY <1>7 DEF SubmitBegin
    <2>2. link[o] \in Requests
      BY <2>1 DEF PermitOpens
    <2> QED BY <1>7, <2>1, <2>2 DEF SubmitBegin, Starts, Session
  <1>8. ASSUME NEW s \in Sessions, SubmitCommit(s) PROVE PermitTypeOK' /\ request' = request /\ ptrail' = ptrail
    <2>1. open[s] \in [act: {"enviar"}, order: Orders, under: Requests]
      BY <1>8 DEF SubmitCommit, Session, Decisions, NoSession
    <2> QED BY <1>8, <2>1 DEF SubmitCommit, ResponseState, Session
  <1>9. ASSUME NEW s \in Sessions, SessionEnds(s) PROVE PermitTypeOK' /\ request' = request /\ ptrail' = ptrail
    BY <1>9 DEF SessionEnds, Session
  <1> QED BY <1>1, <1>2, <1>3, <1>4, <1>5, <1>6, <1>7, <1>8, <1>9 DEF QuietStep

-----------------------------------------------------------------------------
(* Trails that grow *)

LEMMA TrailGrows ==
  ASSUME PermitTypeOK, NEW q \in Requests, NEW e \in PermitEvent,
         ptrail'[q] = Append(ptrail[q], e)
  PROVE  LET n == Len(ptrail[q]) + 1 IN
         /\ Len(ptrail[q]) \in Nat /\ Len(ptrail'[q]) = n
         /\ ptrail'[q] # <<>>
         /\ DOMAIN ptrail[q] = 1 .. (n - 1) /\ DOMAIN ptrail'[q] = 1 .. n
         /\ ptrail'[q][n] = e
         /\ \A i \in 1 .. (n - 1) : ptrail'[q][i] = ptrail[q][i]
         /\ Grants(q)' = Grants(q) \cup IF e.to = "aprobada" THEN {n} ELSE {}
  <1> DEFINE n == Len(ptrail[q]) + 1
  <1>1. ptrail[q] \in Seq(PermitEvent)
    BY DEF PermitTypeOK
  <1>2. /\ Len(ptrail[q]) \in Nat /\ DOMAIN ptrail[q] = 1 .. (n - 1)
        /\ ptrail'[q] \in Seq(PermitEvent) /\ Len(ptrail'[q]) = n
        /\ DOMAIN ptrail'[q] = 1 .. n
        /\ ptrail'[q][n] = e
        /\ \A i \in 1 .. (n - 1) : ptrail'[q][i] = ptrail[q][i]
    BY <1>1, AppendProperties, LenProperties
  <1>3. ptrail'[q] # <<>>
    BY <1>2, EmptySeq
  <1>4. Grants(q)' = Grants(q) \cup IF e.to = "aprobada" THEN {n} ELSE {}
    BY <1>2 DEF Grants
  <1> QED BY <1>2, <1>3, <1>4

\* What was granted stays granted while who asked stays.
LEMMA GrantedStays ==
  ASSUME PermitTypeOK, NEW q \in Requests, NEW e \in PermitEvent, Granted(q),
         ptrail'[q] = Append(ptrail[q], e),
         request'[q].requested_by = request[q].requested_by
  PROVE  Granted(q)'
  <1>1. PICK i \in Grants(q) :
          ptrail[q][i].number # None /\ ptrail[q][i].by # request[q].requested_by
    BY DEF Granted
  <1>2. i \in Grants(q)' /\ ptrail'[q][i] = ptrail[q][i]
    BY <1>1, TrailGrows DEF Grants
  <1> QED BY <1>1, <1>2 DEF Granted

-----------------------------------------------------------------------------
(* The rows and their trails *)

LEMMA RequestKeepsRows ==
  ASSUME PermitInv, NEW q \in Requests, request_outage(q)
  PROVE  RowsInv' /\ \A p \in Requests : Exists(p) =>
           /\ Exists(p)' /\ request'[p] = request[p]
           /\ Granted(p) => Granted(p)'
  <1>1. PICK who \in People :
          /\ request' = [request EXCEPT ![q] =
               [state |-> "solicitada", number |-> None,
                requested_by |-> who, decided_by |-> None]]
          /\ ptrail' = [ptrail EXCEPT ![q] =
               Append(@, [to |-> "solicitada", number |-> None, by |-> who])]
    BY DEF request_outage
  <1>2. PermitTypeOK /\ RowsInv /\ ~Exists(q) /\ ptrail[q] = <<>>
    BY DEF PermitInv, RowsInv, Unheard, request_outage
  <1> DEFINE e == [to |-> "solicitada", number |-> None, by |-> who]
  <1>3. /\ ptrail'[q] = Append(ptrail[q], e)
        /\ request'[q] = [state |-> "solicitada", number |-> None,
                          requested_by |-> who, decided_by |-> None]
        /\ \A p \in Requests \ {q} : ptrail'[p] = ptrail[p] /\ request'[p] = request[p]
    BY <1>1, <1>2 DEF PermitTypeOK
  <1>4. e \in PermitEvent
    BY DEF PermitEvent, OutageState
  <1>5. /\ Len(ptrail'[q]) = 1 /\ ptrail'[q] # <<>> /\ ptrail'[q][1] = e
        /\ Grants(q)' = {}
    <2>1. Len(ptrail[q]) = 0 /\ Grants(q) = {}
      BY <1>2 DEF Grants
    <2>2. e.to # "aprobada"
      OBVIOUS
    <2> HIDE DEF e
    <2>3. LET n == Len(ptrail[q]) + 1 IN
          /\ Len(ptrail'[q]) = n /\ ptrail'[q] # <<>> /\ ptrail'[q][n] = e
          /\ Grants(q)' = Grants(q) \cup IF e.to = "aprobada" THEN {n} ELSE {}
      BY <1>2, <1>3, <1>4, TrailGrows
    <2> QED BY <2>1, <2>2, <2>3
  <1>6. Exists(q)'
    BY <1>3 DEF Exists, Absent
  <1>7. \A p \in Requests \ {q} : Grants(p)' = Grants(p) /\ Exists(p)' = Exists(p)
    BY <1>3 DEF Grants, Exists
  <1>8. Unheard' /\ ByAnother'
    BY <1>2, <1>3, <1>5, <1>6, <1>7 DEF RowsInv, Unheard, ByAnother
  <1>9. TrailAccounts'
    <2> SUFFICES ASSUME NEW p \in Requests, Exists(p)'
                 PROVE  (/\ ptrail[p] # <<>>
                         /\ request[p].state = ptrail[p][Len(ptrail[p])].to
                         /\ request[p].number # None =>
                              \E i \in Grants(p) : ptrail[p][i].number = request[p].number
                         /\ \A i \in Grants(p) :
                              (\A j \in Grants(p) : j <= i) => ptrail[p][i].number = request[p].number)'
      BY DEF TrailAccounts
    <2>1. CASE p = q
      BY <1>3, <1>5, <2>1
    <2>2. CASE p # q
      BY <1>2, <1>3, <1>7, <2>2 DEF RowsInv, TrailAccounts
    <2> QED BY <2>1, <2>2
  <1>10. \A p \in Requests : Exists(p) =>
           /\ Exists(p)' /\ request'[p] = request[p]
           /\ Granted(p) => Granted(p)'
    <2> SUFFICES ASSUME NEW p \in Requests, Exists(p)
                 PROVE  /\ Exists(p)' /\ request'[p] = request[p]
                        /\ Granted(p) => Granted(p)'
      OBVIOUS
    <2>1. p # q
      BY <1>2
    <2> QED BY <1>3, <1>7, <2>1 DEF Granted
  <1> QED BY <1>8, <1>9, <1>10 DEF RowsInv

LEMMA DecisionKeepsRows ==
  ASSUME PermitInv, NEW s \in Sessions, DecisionCommit(s)
  PROVE  RowsInv' /\ \A p \in Requests : Exists(p) =>
           /\ Exists(p)' /\ request'[p].requested_by = request[p].requested_by
           /\ Granted(p) => Granted(p)'
  <1> DEFINE session == open[s]
             e == [to |-> session.act, number |-> session.number, by |-> session.by]
  <1>1. PermitTypeOK /\ RowsInv /\ Judged /\ session.act \in OutageState
    BY DEF PermitInv, ReadsInv, DecisionCommit
  <1>2. session \in Deciding \cup Sweeping
    <2>1. session \in Deciding \cup Sweeping \cup [act: {"enviar"}, order: Orders, under: Requests]
                       \cup {NoSession}
      BY <1>1 DEF PermitTypeOK, Session, Deciding, Sweeping
    <2>3. session.act # "enviar" /\ session.act # "none"
      BY <1>1 DEF OutageState
    <2> HIDE DEF session
    <2> QED BY <2>1, <2>3 DEF NoSession
  <1>3. e \in PermitEvent
    BY <1>2 DEF PermitEvent, OutageState, Decisions, Deciding, Sweeping
  <1>4. session.on \subseteq Requests
    BY <1>2 DEF Deciding, Sweeping
  <1>5. \A p \in Requests \ session.on :
          /\ ptrail'[p] = ptrail[p] /\ request'[p] = request[p]
          /\ Grants(p)' = Grants(p) /\ Exists(p)' = Exists(p) /\ Granted(p)' = Granted(p)
    BY DEF DecisionCommit, Grants, Exists, Granted
  <1>6. \A p \in session.on :
          /\ ptrail'[p] = Append(ptrail[p], e)
          /\ Exists(p) /\ Exists(p)'
          /\ request'[p].requested_by = request[p].requested_by
          /\ request'[p].state = e.to
          /\ request'[p].number = IF e.to = "aprobada" THEN e.number ELSE request[p].number
    <2> SUFFICES ASSUME NEW p \in session.on
                 PROVE  /\ ptrail'[p] = Append(ptrail[p], e)
                        /\ Exists(p) /\ Exists(p)'
                        /\ request'[p].requested_by = request[p].requested_by
                        /\ request'[p].state = e.to
                        /\ request'[p].number =
                             IF e.to = "aprobada" THEN e.number ELSE request[p].number
      OBVIOUS
    <2>1. p \in Requests /\ Exists(p) /\ request[p] \in OutageRow
      BY <1>1, <1>4 DEF Judged, PermitTypeOK, Exists
    <2>2. ptrail'[p] = Append(ptrail[p], e)
      BY <1>4 DEF DecisionCommit, Logged
    <2>3. request'[p] = [request[p] EXCEPT
               !.state = session.act,
               !.number = IF session.act = "aprobada" THEN session.number ELSE @,
               !.decided_by = IF session.act \in Decisions THEN session.by ELSE @]
      BY <1>4 DEF DecisionCommit
    <2>4. /\ request'[p].requested_by = request[p].requested_by
          /\ request'[p].state = session.act
          /\ request'[p].number =
               IF session.act = "aprobada" THEN session.number ELSE request[p].number
      <3> HIDE DEF session
      <3> QED BY <2>1, <2>3 DEF OutageRow
    <2>5. Exists(p)'
      BY <1>1, <2>4 DEF Exists, Absent, OutageState
    <2> QED BY <2>1, <2>2, <2>4, <2>5
  <1>7. \A p \in session.on : e.to = "aprobada" =>
          e.number \in Numbers /\ e.by # request[p].requested_by
    BY <1>1 DEF Judged
  <1> HIDE DEF session, e
  <1>8. ASSUME NEW p \in session.on
        PROVE  LET n == Len(ptrail[p]) + 1 IN
               /\ n \in Nat /\ Len(ptrail'[p]) = n
               /\ ptrail'[p] # <<>>
               /\ Grants(p) \subseteq 1 .. (n - 1)
               /\ ptrail'[p][n] = e
               /\ \A i \in 1 .. (n - 1) : ptrail'[p][i] = ptrail[p][i]
               /\ Grants(p)' = Grants(p) \cup IF e.to = "aprobada" THEN {n} ELSE {}
    BY <1>1, <1>3, <1>4, <1>6, TrailGrows DEF Grants
  <1>9. Unheard'
    BY <1>1, <1>5, <1>6 DEF RowsInv, Unheard
  <1>10. ByAnother'
    <2> SUFFICES ASSUME NEW p \in Requests, Exists(p)', NEW i \in Grants(p)'
                 PROVE  ptrail'[p][i].by # request'[p].requested_by
      BY DEF ByAnother
    <2>1. CASE p \notin session.on
      BY <1>1, <1>5, <2>1 DEF RowsInv, ByAnother
    <2>2. CASE p \in session.on
      <3>1. CASE i \in Grants(p)
        BY <1>1, <1>6, <1>8, <2>2, <3>1 DEF RowsInv, ByAnother
      <3>2. CASE i \notin Grants(p)
        BY <1>6, <1>7, <1>8, <2>2, <3>2
      <3> QED BY <3>1, <3>2
    <2> QED BY <2>1, <2>2
  <1>11. TrailAccounts'
    <2> SUFFICES ASSUME NEW p \in Requests, Exists(p)'
                 PROVE  (/\ ptrail[p] # <<>>
                         /\ request[p].state = ptrail[p][Len(ptrail[p])].to
                         /\ request[p].number # None =>
                              \E i \in Grants(p) : ptrail[p][i].number = request[p].number
                         /\ \A i \in Grants(p) :
                              (\A j \in Grants(p) : j <= i) => ptrail[p][i].number = request[p].number)'
      BY DEF TrailAccounts
    <2>1. CASE p \notin session.on
      BY <1>1, <1>5, <2>1 DEF RowsInv, TrailAccounts
    <2>2. CASE p \in session.on
      <3> DEFINE n == Len(ptrail[p]) + 1
      <3>1. ptrail'[p] # <<>> /\ request'[p].state = ptrail'[p][Len(ptrail'[p])].to
        BY <1>6, <1>8, <2>2
      <3>2. CASE e.to = "aprobada"
        <4>1. n \in Grants(p)' /\ ptrail'[p][n].number = request'[p].number
          BY <1>6, <1>8, <2>2, <3>2
        <4>2. \A i \in Grants(p)' : (\A j \in Grants(p)' : j <= i) => i = n
          BY <1>8, <2>2, <4>1
        <4> QED BY <3>1, <4>1, <4>2
      <3>3. CASE e.to # "aprobada"
        <4>1. Grants(p)' = Grants(p) /\ request'[p].number = request[p].number
          BY <1>6, <1>8, <2>2, <3>3
        <4>2. \A i \in Grants(p) : ptrail'[p][i] = ptrail[p][i]
          BY <1>8, <2>2
        <4>3. /\ request[p].number # None =>
                   \E i \in Grants(p) : ptrail[p][i].number = request[p].number
              /\ \A i \in Grants(p) :
                   (\A j \in Grants(p) : j <= i) => ptrail[p][i].number = request[p].number
          BY <1>1, <1>6, <2>2 DEF RowsInv, TrailAccounts
        <4> QED BY <3>1, <4>1, <4>2, <4>3
      <3> QED BY <3>2, <3>3
    <2> QED BY <2>1, <2>2
  <1>12. \A p \in Requests : Exists(p) =>
           /\ Exists(p)' /\ request'[p].requested_by = request[p].requested_by
           /\ Granted(p) => Granted(p)'
    BY <1>1, <1>3, <1>5, <1>6, GrantedStays
  <1> QED BY <1>9, <1>10, <1>11, <1>12 DEF RowsInv

-----------------------------------------------------------------------------
(* What sessions read, and what was sent *)

\* Rows and grants that stay keep what was read and what was sent, when no
\* link, session or form changed but to end.
LEMMA ReadsStay ==
  ASSUME PermitTypeOK, ReadsInv, link' = link, permit' = permit,
         \A p \in Requests : Exists(p) =>
           /\ Exists(p)' /\ request'[p].requested_by = request[p].requested_by
           /\ Granted(p) => Granted(p)',
         \A p \in Requests : Granted(p) => Exists(p),
         \A s \in Sessions : open'[s] = open[s] \/ open'[s] = NoSession
  PROVE  ReadsInv'
  <1>1. LinksExist'
    BY DEF ReadsInv, LinksExist, PermitTypeOK
  <1>2. Judged'
    <2> SUFFICES ASSUME NEW s \in Sessions, open'[s].act \in OutageState, NEW q \in open'[s].on
                 PROVE  /\ Exists(q)'
                        /\ open'[s].act = "aprobada" =>
                             open'[s].number \in Numbers /\ open'[s].by # request'[q].requested_by
      BY DEF Judged
    <2>1. open'[s] = open[s]
      BY DEF NoSession, OutageState
    <2>2. q \in Requests
      BY <2>1 DEF PermitTypeOK, Session, NoSession, OutageState
    <2> QED BY <2>1, <2>2 DEF ReadsInv, Judged
  <1>3. SentUnderGrant'
    <2> SUFFICES ASSUME NEW s \in Sessions, open'[s].act = "enviar"
                 PROVE  Granted(open[s].under)'
      BY DEF SentUnderGrant
    <2>1. open'[s] = open[s]
      BY DEF NoSession
    <2>2. open[s].under \in Requests
      BY <2>1 DEF PermitTypeOK, Session, NoSession, Decisions
    <2>3. Granted(open[s].under)
      BY <2>1 DEF ReadsInv, SentUnderGrant
    <2> DEFINE q == open[s].under
    <2>4. Granted(q)'
      BY <2>1, <2>2, <2>3 DEF Granted, Grants
    <2> QED BY <2>4
  <1>4. PermitUnderGrant'
    <2> SUFFICES ASSUME NEW o \in Orders, permit'[o].under # None
                 PROVE  Granted(permit[o].under)'
      BY DEF PermitUnderGrant, Granted
    <2>1. permit[o].under \in Requests /\ Granted(permit[o].under)
      BY DEF PermitTypeOK, ReadsInv, PermitUnderGrant, Granted
    <2> QED BY <2>1 DEF Granted, Grants
  <1> QED BY <1>1, <1>2, <1>3, <1>4 DEF ReadsInv

\* Only a request that exists has grants on its trail.
LEMMA GrantedExists ==
  ASSUME PermitTypeOK, RowsInv, NEW q \in Requests, Granted(q)
  PROVE  Exists(q)
  BY DEF RowsInv, Unheard, Granted, Grants

LEMMA QuietKeepsRows ==
  ASSUME RowsInv, request' = request, ptrail' = ptrail
  PROVE  /\ RowsInv'
         /\ \A q : (Exists(q)' <=> Exists(q)) /\ (Granted(q)' <=> Granted(q))
  <1>1. \A q : Exists(q)' = Exists(q) /\ Grants(q)' = Grants(q) /\ Granted(q)' = Granted(q)
    BY DEF Exists, Grants, Granted
  <1> QED BY <1>1 DEF RowsInv, Unheard, ByAnother, TrailAccounts

LEMMA QuietKeepsReads ==
  ASSUME PermitInv, QuietStep
  PROVE  ReadsInv'
  <1>1. PermitTypeOK /\ RowsInv /\ ReadsInv /\ LinksExist
    BY DEF PermitInv, ReadsInv
  <1>2. request' = request /\ ptrail' = ptrail
    BY <1>1, QuietTyped
  <1>3. \A q : (Exists(q)' <=> Exists(q)) /\ (Granted(q)' <=> Granted(q))
    BY <1>1, <1>2, QuietKeepsRows
  <1>4. \A p \in Requests : Granted(p) => Exists(p)
    BY <1>1, GrantedExists
  <1>5. ASSUME link' = link, permit' = permit,
               \A s \in Sessions : open'[s] = open[s] \/ open'[s] = NoSession
        PROVE  ReadsInv'
    BY <1>1, <1>2, <1>3, <1>4, <1>5, ReadsStay
  <1>6. ASSUME NEW q \in Requests, WindowPasses(q) PROVE ReadsInv'
    BY <1>5, <1>6 DEF WindowPasses
  <1>7. ASSUME NEW o \in Orders, link_order(o) \/ unlink_order(o) PROVE ReadsInv'
    <2>1. LinksExist'
      BY <1>1, <1>3, <1>7 DEF link_order, unlink_order, LinksExist, PermitTypeOK
    <2>2. open' = open /\ permit' = permit
      BY <1>7 DEF link_order, unlink_order
    <2> QED BY <1>1, <1>2, <1>3, <2>1, <2>2
            DEF ReadsInv, Judged, SentUnderGrant, PermitUnderGrant, Granted, Grants
  <1>8. ASSUME NEW o \in Orders, SavePermitDraft(o) \/ PermitReturned(o) PROVE ReadsInv'
    <2>1. open' = open /\ link' = link /\ \A p \in Orders : permit'[p].under = permit[p].under
      <3>1. permit \in [Orders -> [state: ResponseState, under: Requests \cup {None}]]
        BY <1>1 DEF PermitTypeOK
      <3>2. CASE SavePermitDraft(o)
        <4>1. permit' = [permit EXCEPT ![o] =
                [permit[o] EXCEPT !.state = IF permit[o].state = "none" THEN "borrador" ELSE permit[o].state]]
          BY <3>2 DEF SavePermitDraft
        <4> QED BY <3>1, <3>2, <4>1 DEF SavePermitDraft
      <3>3. CASE PermitReturned(o)
        BY <3>1, <3>3 DEF PermitReturned
      <3> QED BY <1>8, <3>2, <3>3
    <2> QED BY <1>1, <1>2, <1>3, <2>1
            DEF ReadsInv, LinksExist, Exists, Judged, SentUnderGrant, PermitUnderGrant, Granted, Grants
  <1>9. ASSUME NEW s \in Sessions, NEW session, Starts(s, session), link' = link, permit' = permit,
               session.act \in OutageState =>
                 \A q \in session.on :
                   /\ Exists(q)
                   /\ session.act = "aprobada" =>
                        session.number \in Numbers /\ session.by # request[q].requested_by,
               session.act = "enviar" => Granted(session.under)
        PROVE  ReadsInv'
    <2>1. open'[s] = session /\ \A t \in Sessions \ {s} : open'[t] = open[t]
      BY <1>1, <1>9 DEF Starts, PermitTypeOK
    <2>2. LinksExist'
      BY <1>1, <1>2, <1>9 DEF LinksExist, Exists
    <2>3. Judged'
      BY <1>1, <1>2, <1>9, <2>1 DEF ReadsInv, Judged, Exists
    <2>4. SentUnderGrant'
      <3> SUFFICES ASSUME NEW t \in Sessions, open'[t].act = "enviar"
                   PROVE  Granted(open[t].under)'
        BY DEF SentUnderGrant
      <3>1. Granted(open'[t].under)
        BY <1>1, <1>9, <2>1 DEF ReadsInv, SentUnderGrant
      <3> QED BY <1>2, <3>1 DEF Granted, Grants
    <2>5. PermitUnderGrant'
      BY <1>1, <1>2, <1>9 DEF ReadsInv, PermitUnderGrant, Grants
    <2> QED BY <2>2, <2>3, <2>4, <2>5 DEF ReadsInv
  <1>10. ASSUME NEW s \in Sessions, ApproveOutageBegin(s) PROVE ReadsInv'
    <2>1. PICK q \in Requests, who \in People, n \in Numbers :
            /\ MayDecide(q, who)
            /\ Starts(s, [act |-> "aprobada", on |-> {q}, by |-> who, number |-> n])
      BY <1>10 DEF ApproveOutageBegin
    <2>2. Exists(q) /\ who # request[q].requested_by
      BY <2>1 DEF MayDecide, MustBeOpen
    <2>3. link' = link /\ permit' = permit
      BY <1>10 DEF ApproveOutageBegin
    <2> QED BY <1>9, <2>1, <2>2, <2>3
  <1>11. ASSUME NEW s \in Sessions, RejectOutageBegin(s) PROVE ReadsInv'
    <2>1. PICK q \in Requests, who \in People :
            /\ MayDecide(q, who)
            /\ Starts(s, [act |-> "rechazada", on |-> {q}, by |-> who, number |-> None])
      BY <1>11 DEF RejectOutageBegin
    <2>2. Exists(q)
      BY <2>1 DEF MayDecide, MustBeOpen
    <2>3. link' = link /\ permit' = permit
      BY <1>11 DEF RejectOutageBegin
    <2> QED BY <1>9, <2>1, <2>2, <2>3
  <1>12. ASSUME NEW s \in Sessions, HandBackBegin(s) PROVE ReadsInv'
    <2>1. PICK q \in Requests, who \in People :
            /\ Exists(q)
            /\ Starts(s, [act |-> "devuelta", on |-> {q}, by |-> who, number |-> request[q].number])
      BY <1>12 DEF HandBackBegin
    <2>2. link' = link /\ permit' = permit
      BY <1>12 DEF HandBackBegin
    <2> QED BY <1>9, <2>1, <2>2
  <1>13. ASSUME NEW s \in Sessions, ExpireBegin(s) PROVE ReadsInv'
    <2> DEFINE due == {q \in past : Exists(q) /\ request[q].state = "aprobada"}
    <2>1. Starts(s, [act |-> "vencida", on |-> due, by |-> "sistema", number |-> None])
      BY <1>13 DEF ExpireBegin
    <2>2. link' = link /\ permit' = permit
      BY <1>13 DEF ExpireBegin
    <2>3. \A q \in due : Exists(q)
      OBVIOUS
    <2> HIDE DEF due
    <2> QED BY <1>9, <2>1, <2>2, <2>3
  <1>14. ASSUME NEW s \in Sessions, SubmitBegin(s) PROVE ReadsInv'
    <2>1. PICK o \in Orders :
            PermitOpens(link[o]) /\ Starts(s, [act |-> "enviar", order |-> o, under |-> link[o]])
      BY <1>14 DEF SubmitBegin
    <2>2. link[o] \in Requests /\ Exists(link[o]) /\ request[link[o]].number # None
      BY <1>1, <2>1 DEF PermitOpens, LinksExist, PermitTypeOK
    <2>3. Granted(link[o])
      BY <1>1, <2>2 DEF RowsInv, TrailAccounts, ByAnother, Granted
    <2>4. link' = link /\ permit' = permit
      BY <1>14 DEF SubmitBegin
    <2>5. "enviar" \notin OutageState
      BY DEF OutageState
    <2> QED BY <1>9, <2>1, <2>3, <2>4, <2>5
  <1>15. ASSUME NEW s \in Sessions, SubmitCommit(s) PROVE ReadsInv'
    <2> DEFINE o == open[s].order
    <2>1. open[s] \in [act: {"enviar"}, order: Orders, under: Requests] /\ Granted(open[s].under)
      BY <1>1, <1>15 DEF SubmitCommit, PermitTypeOK, Session, Decisions, NoSession, ReadsInv, SentUnderGrant
    <2>2. /\ permit'[o].under = open[s].under
          /\ \A p \in Orders \ {o} : permit'[p] = permit[p]
          /\ link' = link /\ open' = [open EXCEPT ![s] = NoSession]
      BY <1>1, <1>15, <2>1 DEF SubmitCommit, PermitTypeOK
    <2>3. LinksExist'
      BY <1>1, <1>2, <2>2 DEF LinksExist, Exists
    <2>4. Judged'
      BY <1>1, <1>2, <2>2 DEF ReadsInv, Judged, Exists, NoSession, OutageState, PermitTypeOK
    <2>5. SentUnderGrant'
      <3> SUFFICES ASSUME NEW t \in Sessions, open'[t].act = "enviar"
                   PROVE  Granted(open[t].under)'
        BY DEF SentUnderGrant
      <3>1. open'[t] = open[t]
        BY <1>1, <2>2 DEF NoSession, PermitTypeOK
      <3> QED BY <1>1, <1>2, <3>1 DEF ReadsInv, SentUnderGrant, Granted, Grants
    <2>6. PermitUnderGrant'
      BY <1>1, <1>2, <2>1, <2>2 DEF ReadsInv, PermitUnderGrant, Granted, Grants
    <2> QED BY <2>3, <2>4, <2>5, <2>6 DEF ReadsInv
  <1>16. ASSUME NEW s \in Sessions, SessionEnds(s) PROVE ReadsInv'
    <2>1. link' = link /\ permit' = permit /\ open' = [open EXCEPT ![s] = NoSession]
      BY <1>16 DEF SessionEnds
    <2> QED BY <1>1, <1>5, <2>1 DEF PermitTypeOK
  <1> QED BY <1>6, <1>7, <1>8, <1>10, <1>11, <1>12, <1>13, <1>14, <1>15, <1>16 DEF QuietStep

-----------------------------------------------------------------------------
(* The invariant *)

LEMMA PermitStarts == PermitInit => PermitInv
  <1> SUFFICES ASSUME PermitInit PROVE PermitInv
    OBVIOUS
  <1>1. \A q \in Requests : ~Exists(q) /\ ptrail[q] = <<>>
    BY DEF PermitInit, Exists
  <1>2. RowsInv
    BY <1>1 DEF RowsInv, Unheard, ByAnother, TrailAccounts
  <1>3. ReadsInv
    BY <1>1 DEF ReadsInv, LinksExist, Judged, SentUnderGrant, PermitUnderGrant, PermitInit,
                NoSession, OutageState
  <1> QED BY <1>2, <1>3, PermitStartsTyped DEF PermitInv

LEMMA PermitSteps == PermitInv /\ [PermitNext]_pvars => PermitInv'
  <1> SUFFICES ASSUME PermitInv, [PermitNext]_pvars PROVE PermitInv'
    OBVIOUS
  <1>1. PermitTypeOK /\ RowsInv /\ ReadsInv /\ LinksExist /\ Judged
    BY DEF PermitInv, ReadsInv
  <1>2. \A p \in Requests : Granted(p) => Exists(p)
    BY <1>1, GrantedExists
  <1>3. ASSUME NEW q \in Requests, request_outage(q) PROVE PermitInv'
    <2>1. link' = link /\ permit' = permit /\ open' = open
      BY <1>3 DEF request_outage
    <2>2. RowsInv' /\ \A p \in Requests : Exists(p) =>
            /\ Exists(p)' /\ request'[p] = request[p] /\ (Granted(p) => Granted(p)')
      BY <1>3, RequestKeepsRows
    <2>3. ReadsInv'
      BY <1>1, <1>2, <2>1, <2>2, ReadsStay
    <2> QED BY <1>1, <1>3, <2>2, <2>3, RequestTyped DEF PermitInv
  <1>4. ASSUME NEW s \in Sessions, DecisionCommit(s) PROVE PermitInv'
    <2>1. link' = link /\ permit' = permit /\ \A t \in Sessions : open'[t] = open[t] \/ open'[t] = NoSession
      BY <1>1, <1>4 DEF DecisionCommit, PermitTypeOK
    <2>2. RowsInv' /\ \A p \in Requests : Exists(p) =>
            /\ Exists(p)' /\ request'[p].requested_by = request[p].requested_by
            /\ (Granted(p) => Granted(p)')
      BY <1>4, DecisionKeepsRows
    <2>3. ReadsInv'
      BY <1>1, <1>2, <2>1, <2>2, ReadsStay
    <2> QED BY <1>1, <1>4, <2>2, <2>3, DecisionTyped DEF PermitInv
  <1>5. CASE QuietStep
    <2>1. PermitTypeOK' /\ request' = request /\ ptrail' = ptrail
      BY <1>1, <1>5, QuietTyped
    <2>2. RowsInv'
      BY <1>1, <2>1, QuietKeepsRows
    <2> QED BY <1>5, <2>1, <2>2, QuietKeepsReads DEF PermitInv
  <1>6. CASE UNCHANGED pvars
    <2>1. /\ request' = request /\ ptrail' = ptrail /\ link' = link /\ permit' = permit
          /\ open' = open /\ past' = past
      BY <1>6 DEF pvars
    <2>2. RowsInv' /\ \A q : (Exists(q)' <=> Exists(q)) /\ (Granted(q)' <=> Granted(q))
      BY <1>1, <2>1, QuietKeepsRows
    <2>3. ReadsInv'
      BY <1>1, <1>2, <2>1, <2>2, ReadsStay
    <2>4. PermitTypeOK'
      BY <1>1, <2>1 DEF PermitTypeOK
    <2> QED BY <2>2, <2>3, <2>4 DEF PermitInv
  <1> QED BY <1>3, <1>4, <1>5, <1>6 DEF PermitNext, QuietStep

\* Every column and every session holds a value of its kind.
THEOREM PermitTyped == PermitSpec => []PermitTypeOK
  <1>1. PermitInv => PermitTypeOK
    BY DEF PermitInv
  <1> QED BY <1>1, PermitStarts, PermitSteps, PTL DEF PermitSpec

\* RF-024: no permit is sent but under a request that somebody other than who
\* asked granted with a number (`permit_blocker` and `approve`,
\* outages/service.py; `save_answers`, responses/service.py).
THEOREM PermitAlwaysUnderGrant == PermitSpec => []PermitUnderGrant
  <1>1. PermitInv => PermitUnderGrant
    BY DEF PermitInv, ReadsInv
  <1> QED BY <1>1, PermitStarts, PermitSteps, PTL DEF PermitSpec

\* RF-160: the row of a request is what the events of its trail say, whichever
\* session wrote last (`_decided`, `hand_back` and `expire_due`).
THEOREM TrailAlwaysAccounts == PermitSpec => []TrailAccounts
  <1>1. PermitInv => TrailAccounts
    BY DEF PermitInv, RowsInv
  <1> QED BY <1>1, PermitStarts, PermitSteps, PTL DEF PermitSpec

-----------------------------------------------------------------------------
(****************************************************************************)
(* AUDIT TRAIL: the chain of a unit is unbroken, and tampering breaks it    *)
(****************************************************************************)

\* What `verify` looks for at every place, and finds.
Unbroken(events) ==
  \A i \in DOMAIN events :
    /\ events[i].sequence = i
    /\ events[i].prev_hash = IF i = 1 THEN GENESIS ELSE events[i - 1].hash
    /\ events[i].hash = recompute(events[i])

\* Who appended to a unit holds its lock.
Locked == \A w \in Writers, u \in Units : writing[w][u] # <<>> => holder[u] = w

TrailInv ==
  /\ TrailTypeOK
  /\ Locked
  /\ \A u \in Units : Unbroken(chain[u])
  /\ \A w \in Writers, u \in Units : Unbroken(Visible(w, u))

-----------------------------------------------------------------------------
(* Digests and chains *)

LEMMA GenesisTyped == GENESIS \in Digest
  BY EmptySeq DEF GENESIS, Digest

LEMMA DigestTyped ==
  ASSUME NEW h \in Digest, NEW n \in Nat, NEW f \in Facts
  PROVE  digest(h, canonical(n, f)) \in Digest
  <1>1. <<n, f>> \in Nat \X Facts
    OBVIOUS
  <1> QED BY <1>1, AppendProperties DEF digest, canonical, Digest

\* Two facts never share a digest.
LEMMA DigestTells ==
  ASSUME NEW h \in Digest, NEW n \in Nat, NEW f \in Facts, NEW g \in Facts,
         digest(h, canonical(n, f)) = digest(h, canonical(n, g))
  PROVE  f = g
  <1> DEFINE a == <<n, f>>
             b == <<n, g>>
  <1>1. a \in Nat \X Facts /\ b \in Nat \X Facts
    OBVIOUS
  <1>2. Append(h, a)[Len(h) + 1] = a /\ Append(h, b)[Len(h) + 1] = b
    <2> HIDE DEF a, b
    <2> QED BY <1>1, AppendProperties DEF Digest
  <1>3. Append(h, a) = Append(h, b)
    BY DEF digest, canonical
  <1>4. a = b
    BY <1>2, <1>3
  <1> QED BY <1>4

LEMMA NextTyped ==
  ASSUME NEW seen \in Seq(Event), NEW f \in Facts
  PROVE  NextEvent(seen, f) \in Event
  <1> DEFINE h == IF seen = <<>> THEN GENESIS ELSE seen[Len(seen)].hash
             n == Len(seen) + 1
  <1>1. n \in Nat
    BY LenProperties
  <1>2. h \in Digest
    <2>1. CASE seen = <<>>
      BY <2>1, GenesisTyped
    <2>2. CASE seen # <<>>
      <3>1. Len(seen) \in 1 .. Len(seen)
        BY <2>2, EmptySeq
      <3>2. seen[Len(seen)] \in Event
        BY <3>1, ElementOfSeq
      <3> QED BY <2>2, <3>2 DEF Event
    <2> QED BY <2>1, <2>2
  <1>3. digest(h, canonical(n, f)) \in Digest
    BY <1>1, <1>2, DigestTyped
  <1>4. NextEvent(seen, f) =
          [sequence |-> n, fact |-> f, prev_hash |-> h, hash |-> digest(h, canonical(n, f))]
    BY DEF NextEvent
  <1> HIDE DEF h, n
  <1> QED BY <1>1, <1>2, <1>3, <1>4 DEF Event

\* `record` continues what it sees.
LEMMA NextContinues ==
  ASSUME NEW seen \in Seq(Event), NEW f \in Facts, Unbroken(seen)
  PROVE  Unbroken(Append(seen, NextEvent(seen, f)))
  <1> DEFINE e == NextEvent(seen, f)
             longer == Append(seen, e)
             n == Len(seen) + 1
  <1>1. e \in Event
    BY NextTyped
  <1>2. /\ Len(seen) \in Nat
        /\ DOMAIN longer = 1 .. n
        /\ \A i \in 1 .. Len(seen) : longer[i] = seen[i]
        /\ longer[n] = e
    <2> HIDE DEF e
    <2> QED BY <1>1, AppendProperties, LenProperties
  <1>3. /\ e.sequence = n
        /\ e.prev_hash = IF seen = <<>> THEN GENESIS ELSE seen[Len(seen)].hash
        /\ e.hash = recompute(e)
    BY DEF NextEvent, recompute
  <1>4. ASSUME NEW i \in DOMAIN longer
        PROVE  /\ longer[i].sequence = i
               /\ longer[i].prev_hash = IF i = 1 THEN GENESIS ELSE longer[i - 1].hash
               /\ longer[i].hash = recompute(longer[i])
    <2> HIDE DEF e, longer
    <2>1. CASE i = n
      <3>1. CASE seen = <<>>
        <4>1. n = 1
          BY <3>1, EmptySeq
        <4> QED BY <1>2, <1>3, <2>1, <3>1, <4>1
      <3>2. CASE seen # <<>>
        <4>1. Len(seen) \in 1 .. Len(seen) /\ n # 1 /\ n - 1 = Len(seen)
          BY <1>2, <3>2, EmptySeq
        <4> QED BY <1>2, <1>3, <2>1, <3>2, <4>1
      <3> QED BY <3>1, <3>2
    <2>2. CASE i # n
      <3>1. i \in 1 .. Len(seen) /\ i \in DOMAIN seen
        BY <1>2, <2>2, LenProperties
      <3>2. longer[i] = seen[i] /\ (i # 1 => i - 1 \in 1 .. Len(seen) /\ longer[i - 1] = seen[i - 1])
        BY <1>2, <3>1
      <3> QED BY <3>1, <3>2 DEF Unbroken
    <2> QED BY <2>1, <2>2
  <1> QED BY <1>4 DEF Unbroken

\* `verify` finds nothing in an unbroken chain.
LEMMA UnbrokenVerifies ==
  ASSUME NEW events, Unbroken(events)
  PROVE  broken_at(events) = 0
  <1> DEFINE expected_prev(i) == IF i = 1 THEN GENESIS ELSE events[i - 1].hash
             Breaks(i) == \/ events[i].sequence # i
                          \/ events[i].prev_hash # expected_prev(i)
                          \/ recompute(events[i]) # events[i].hash
  <1>1. {i \in DOMAIN events : Breaks(i)} = {}
    BY DEF Unbroken
  <1> QED BY <1>1 DEF broken_at

\* It reports the first place that is broken.
LEMMA FirstBreak ==
  ASSUME NEW S, NEW events \in Seq(S), NEW i \in DOMAIN events,
         \A j \in DOMAIN events : j < i =>
           /\ events[j].sequence = j
           /\ events[j].prev_hash = IF j = 1 THEN GENESIS ELSE events[j - 1].hash
           /\ events[j].hash = recompute(events[j]),
         \/ events[i].sequence # i
         \/ recompute(events[i]) # events[i].hash
  PROVE  broken_at(events) = events[i].sequence
  <1> DEFINE expected_prev(k) == IF k = 1 THEN GENESIS ELSE events[k - 1].hash
             Breaks(k) == \/ events[k].sequence # k
                          \/ events[k].prev_hash # expected_prev(k)
                          \/ recompute(events[k]) # events[k].hash
             broken == {k \in DOMAIN events : Breaks(k)}
             first == CHOOSE k \in broken : \A j \in broken : k <= j
  <1>1. i \in broken
    OBVIOUS
  <1>2. \A j \in broken : j \in Nat /\ i \in Nat /\ ~(j < i)
    BY LenProperties
  <1>3. \A j \in broken : i <= j
    <2> HIDE DEF broken
    <2> QED BY <1>2
  <1>4. first \in broken /\ \A j \in broken : first <= j
    <2> HIDE DEF broken
    <2> QED BY <1>1, <1>3
  <1>5. first = i
    <2>1. first \in Nat /\ i \in Nat
      <3> HIDE DEF first, broken
      <3> QED BY <1>2, <1>4
    <2>2. first <= i /\ i <= first
      <3> HIDE DEF first, broken
      <3> QED BY <1>1, <1>3, <1>4
    <2> HIDE DEF first
    <2> QED BY <2>1, <2>2
  <1>6. broken # {}
    BY <1>1
  <1>7. broken_at(events) = events[first].sequence
    BY <1>6 DEF broken_at
  <1> QED BY <1>5, <1>7

-----------------------------------------------------------------------------
(* The chain is never broken *)

LEMMA TrailStarts == TrailInit => TrailInv
  <1> SUFFICES ASSUME TrailInit PROVE TrailInv
    OBVIOUS
  <1> USE DEF TrailInit
  <1>1. \A u \in Units : chain[u] = <<>>
    OBVIOUS
  <1>2. \A w \in Writers, u \in Units : writing[w][u] = <<>> /\ Visible(w, u) = <<>>
    BY <1>1, ConcatEmptySeq, EmptySeq DEF Visible
  <1>3. Unbroken(<<>>)
    BY DEF Unbroken
  <1>4. TrailTypeOK
    BY EmptySeq DEF TrailTypeOK
  <1> QED BY <1>1, <1>2, <1>3, <1>4 DEF TrailInv, Locked

LEMMA VisibleTyped ==
  ASSUME TrailTypeOK, NEW w \in Writers, NEW u \in Units
  PROVE  /\ chain[u] \in Seq(Event)
         /\ writing[w][u] \in Seq(Event)
         /\ Visible(w, u) \in Seq(Event)
  <1>1. chain[u] \in Seq(Event) /\ writing[w][u] \in Seq(Event)
    BY DEF TrailTypeOK
  <1> QED BY <1>1, ConcatProperties DEF Visible

LEMMA AppendToConcat ==
  ASSUME NEW S, NEW s \in Seq(S), NEW t \in Seq(S), NEW e \in S
  PROVE  s \o Append(t, e) = Append(s \o t, e)
  <1>1. s \o t \in Seq(S) /\ Append(t, e) \in Seq(S)
    BY ConcatProperties, AppendProperties
  <1>2. /\ Append(t, e) = t \o <<e>>
        /\ Append(s \o t, e) = (s \o t) \o <<e>>
        /\ <<e>> \in Seq(S)
    BY <1>1, AppendIsConcat
  <1>3. (s \o t) \o <<e>> = s \o (t \o <<e>>)
    BY <1>2, ConcatAssociative
  <1> QED BY <1>2, <1>3

LEMMA RecordKeeps ==
  ASSUME TrailInv, NEW w \in Writers, NEW u \in Units, record(w, u)
  PROVE  TrailInv'
  <1>1. TrailTypeOK /\ Locked
    BY DEF TrailInv
  <1>2. PICK f \in Facts :
          writing' = [writing EXCEPT ![w][u] = Append(@, NextEvent(Visible(w, u), f))]
    BY DEF record
  <1> DEFINE e == NextEvent(Visible(w, u), f)
  <1>3. e \in Event
    BY <1>1, VisibleTyped, NextTyped
  <1>4. /\ chain' = chain
        /\ holder' = [holder EXCEPT ![u] = w]
        /\ holder[u] \in {Nobody, w}
    BY DEF record, Locks
  <1>5. /\ writing'[w][u] = Append(writing[w][u], e)
        /\ \A v \in Writers, t \in Units : v # w \/ t # u => writing'[v][t] = writing[v][t]
    BY <1>1, <1>2 DEF TrailTypeOK
  <1>6. Append(writing[w][u], e) \in Seq(Event)
    BY <1>1, <1>3, VisibleTyped, AppendProperties
  <1>7. TrailTypeOK'
    <2> HIDE DEF e
    <2>1. /\ writing \in [Writers -> [Units -> Seq(Event)]]
          /\ writing' = [writing EXCEPT ![w] = [writing[w] EXCEPT ![u] = Append(writing[w][u], e)]]
      BY <1>1, <1>2 DEF TrailTypeOK, e
    <2>2. [writing[w] EXCEPT ![u] = Append(writing[w][u], e)] \in [Units -> Seq(Event)]
      BY <1>6, <2>1
    <2>3. writing' \in [Writers -> [Units -> Seq(Event)]]
      BY <2>1, <2>2
    <2> QED BY <1>1, <1>4, <2>3 DEF TrailTypeOK
  <1>8. Locked'
    <2> SUFFICES ASSUME NEW v \in Writers, NEW t \in Units, writing'[v][t] # <<>>
                 PROVE  holder'[t] = v
      BY DEF Locked
    <2>1. CASE v = w /\ t = u
      BY <1>1, <1>4, <2>1 DEF TrailTypeOK
    <2>2. CASE v # w \/ t # u
      <3>1. holder[t] = v
        BY <1>1, <1>5, <2>2 DEF Locked
      <3>2. t # u
        BY <1>4, <2>2, <3>1, NobodyWrites
      <3> QED BY <1>1, <1>4, <3>1, <3>2 DEF TrailTypeOK
    <2> QED BY <2>1, <2>2
  <1>9. ASSUME NEW v \in Writers, NEW t \in Units
        PROVE  Unbroken(Visible(v, t))'
    <2>1. CASE v = w /\ t = u
      <3>1. Visible(w, u)' = Append(Visible(w, u), e)
        <4>1. chain[u] \o Append(writing[w][u], e) = Append(chain[u] \o writing[w][u], e)
          <5> HIDE DEF e
          <5>1. chain[u] \in Seq(Event) /\ writing[w][u] \in Seq(Event)
            BY <1>1, VisibleTyped
          <5>2. \A p, q \in Seq(Event), d \in Event : p \o Append(q, d) = Append(p \o q, d)
            BY AppendToConcat
          <5> QED BY ONLY <1>3, <5>1, <5>2, Zenon
        <4> HIDE DEF e
        <4> QED BY <1>4, <1>5, <4>1 DEF Visible
      <3>2. Unbroken(Append(Visible(w, u), e))
        BY <1>1, VisibleTyped, NextContinues DEF TrailInv
      <3> HIDE DEF e
      <3> QED BY <2>1, <3>1, <3>2 DEF Unbroken
    <2>2. CASE v # w \/ t # u
      <3>1. Visible(v, t)' = Visible(v, t)
        BY <1>4, <1>5, <2>2 DEF Visible
      <3>2. Unbroken(Visible(v, t))
        BY DEF TrailInv
      <3> QED BY <3>1, <3>2 DEF Unbroken
    <2> QED BY <2>1, <2>2
  <1>10. \A t \in Units : Unbroken(chain[t])'
    BY <1>4 DEF TrailInv, Unbroken
  <1> QED BY <1>7, <1>8, <1>9, <1>10 DEF TrailInv

\* What a transaction that ends leaves to the others.
LEMMA EndKeeps ==
  ASSUME TrailTypeOK, Locked, NEW w \in Writers,
         writing' = [writing EXCEPT ![w] = Empty], holder' = Released(w)
  PROVE  /\ writing' \in [Writers -> [Units -> Seq(Event)]]
         /\ holder' \in [Units -> Writers \cup {Nobody}]
         /\ Locked'
         /\ \A u \in Units : writing'[w][u] = <<>>
         /\ \A v \in Writers \ {w}, u \in Units : writing'[v][u] = writing[v][u]
  <1>1. Empty \in [Units -> Seq(Event)]
    BY EmptySeq DEF Empty
  <1>2. writing' \in [Writers -> [Units -> Seq(Event)]]
    BY <1>1 DEF TrailTypeOK
  <1>3. holder' \in [Units -> Writers \cup {Nobody}]
    BY DEF TrailTypeOK, Released
  <1>4. \A u \in Units : writing'[w][u] = <<>>
    BY DEF TrailTypeOK, Empty
  <1>5. \A v \in Writers \ {w}, u \in Units : writing'[v][u] = writing[v][u]
    BY DEF TrailTypeOK
  <1>6. ASSUME NEW v \in Writers, NEW u \in Units, writing'[v][u] # <<>>
        PROVE  holder'[u] = v
    <2>1. v # w
      BY <1>4, <1>6
    <2>2. holder[u] = v
      BY <1>5, <1>6, <2>1 DEF Locked
    <2> QED BY <2>1, <2>2 DEF Released
  <1>7. Locked'
    BY <1>6 DEF Locked
  <1> QED BY <1>2, <1>3, <1>4, <1>5, <1>7

LEMMA CommitKeeps ==
  ASSUME TrailInv, NEW w \in Writers, TrailCommit(w)
  PROVE  TrailInv'
  <1>1. TrailTypeOK /\ Locked
    BY DEF TrailInv
  <1>2. /\ chain' = [u \in Units |-> Visible(w, u)]
        /\ writing' = [writing EXCEPT ![w] = Empty]
        /\ holder' = Released(w)
    BY DEF TrailCommit
  <1>3. /\ writing' \in [Writers -> [Units -> Seq(Event)]]
        /\ holder' \in [Units -> Writers \cup {Nobody}]
        /\ Locked'
        /\ \A u \in Units : writing'[w][u] = <<>>
        /\ \A v \in Writers \ {w}, u \in Units : writing'[v][u] = writing[v][u]
    BY ONLY <1>1, <1>2, EndKeeps
  <1>4. TrailTypeOK'
    <2>1. chain' \in [Units -> Seq(Event)]
      BY <1>1, <1>2, VisibleTyped
    <2> QED BY <1>3, <2>1 DEF TrailTypeOK
  <1>5. \A u \in Units : Unbroken(chain'[u])
    BY <1>2 DEF TrailInv
  <1>6. ASSUME NEW v \in Writers, NEW u \in Units
        PROVE  Unbroken(Visible(v, u))'
    <2>1. chain[u] \in Seq(Event) /\ chain'[u] \in Seq(Event)
      BY <1>1, <1>2, VisibleTyped
    <2>2. CASE writing'[v][u] = <<>>
      <3>1. Visible(v, u)' = chain'[u]
        BY <2>1, <2>2, ConcatEmptySeq DEF Visible
      <3> QED BY <1>5, <3>1 DEF Unbroken
    <2>3. CASE writing'[v][u] # <<>>
      <3>1. v # w
        BY <1>3, <2>3
      <3>2. writing[v][u] = writing'[v][u] /\ holder[u] = v
        BY <1>1, <1>3, <2>3, <3>1 DEF Locked
      <3>3. writing[w][u] = <<>>
        BY <1>1, <3>1, <3>2 DEF Locked
      <3>4. chain'[u] = chain[u]
        BY <1>2, <2>1, <3>3, ConcatEmptySeq DEF Visible
      <3>5. Visible(v, u)' = Visible(v, u)
        BY <3>2, <3>4 DEF Visible
      <3>6. Unbroken(Visible(v, u))
        BY DEF TrailInv
      <3> QED BY <3>5, <3>6 DEF Unbroken
    <2> QED BY <2>2, <2>3
  <1>7. \A u \in Units : Unbroken(chain[u])'
    BY <1>5 DEF Unbroken
  <1> QED BY <1>3, <1>4, <1>6, <1>7 DEF TrailInv

LEMMA RollbackKeeps ==
  ASSUME TrailInv, NEW w \in Writers, TrailRollback(w)
  PROVE  TrailInv'
  <1>1. TrailTypeOK /\ Locked
    BY DEF TrailInv
  <1>2. /\ chain' = chain
        /\ writing' = [writing EXCEPT ![w] = Empty]
        /\ holder' = Released(w)
    BY DEF TrailRollback
  <1>3. /\ writing' \in [Writers -> [Units -> Seq(Event)]]
        /\ holder' \in [Units -> Writers \cup {Nobody}]
        /\ Locked'
        /\ \A u \in Units : writing'[w][u] = <<>>
        /\ \A v \in Writers \ {w}, u \in Units : writing'[v][u] = writing[v][u]
    BY ONLY <1>1, <1>2, EndKeeps
  <1>4. TrailTypeOK'
    BY <1>1, <1>2, <1>3 DEF TrailTypeOK
  <1>5. ASSUME NEW v \in Writers, NEW u \in Units
        PROVE  Unbroken(Visible(v, u))'
    <2>1. CASE v = w
      <3>1. chain[u] \in Seq(Event)
        BY <1>1, VisibleTyped
      <3>2. Visible(v, u)' = chain[u]
        BY <1>2, <1>3, <2>1, <3>1, ConcatEmptySeq DEF Visible
      <3> QED BY <3>2 DEF TrailInv, Unbroken
    <2>2. CASE v # w
      <3>1. Visible(v, u)' = Visible(v, u)
        BY <1>2, <1>3, <2>2 DEF Visible
      <3>2. Unbroken(Visible(v, u))
        BY DEF TrailInv
      <3> QED BY <3>1, <3>2 DEF Unbroken
    <2> QED BY <2>1, <2>2
  <1>6. \A u \in Units : Unbroken(chain[u])'
    BY <1>2 DEF TrailInv, Unbroken
  <1> QED BY <1>3, <1>4, <1>5, <1>6 DEF TrailInv

LEMMA TrailSteps == TrailInv /\ [TrailNext]_tvars => TrailInv'
  <1> SUFFICES ASSUME TrailInv, [TrailNext]_tvars PROVE TrailInv'
    OBVIOUS
  <1>1. CASE UNCHANGED tvars
    <2>1. chain' = chain /\ holder' = holder /\ writing' = writing
      BY <1>1 DEF tvars
    <2>2. \A v \in Writers, u \in Units : Visible(v, u)' = Visible(v, u)
      BY <2>1 DEF Visible
    <2>3. TrailTypeOK' /\ Locked'
      BY <2>1 DEF TrailInv, TrailTypeOK, Locked
    <2>4. \A u \in Units : Unbroken(chain[u])'
      BY <2>1 DEF TrailInv, Unbroken
    <2>5. \A v \in Writers, u \in Units : Unbroken(Visible(v, u))'
      BY <2>2 DEF TrailInv, Unbroken
    <2> QED BY <2>3, <2>4, <2>5 DEF TrailInv
  <1>2. CASE TrailNext
    <2>1. PICK w \in Writers :
            (\E u \in Units : record(w, u)) \/ TrailCommit(w) \/ TrailRollback(w)
      BY <1>2 DEF TrailNext
    <2>2. ASSUME NEW u \in Units, record(w, u) PROVE TrailInv'
      BY <2>2, RecordKeeps
    <2>3. CASE TrailCommit(w)
      BY <2>3, CommitKeeps
    <2>4. CASE TrailRollback(w)
      BY <2>4, RollbackKeeps
    <2> QED BY <2>1, <2>2, <2>3, <2>4
  <1> QED BY <1>1, <1>2

\* The chain is never broken: whatever transactions append, commit and roll
\* back, the events a transaction is about to commit continue what is
\* committed by then (`record`, audit/service.py).
THEOREM AppendsAlwaysContinue == TrailSpec => []AppendsContinue
  <1>1. TrailInv => AppendsContinue
    BY UnbrokenVerifies DEF TrailInv, AppendsContinue
  <1> QED BY <1>1, TrailStarts, TrailSteps, PTL DEF TrailSpec

-----------------------------------------------------------------------------
(* Tampering *)

\* An event taken out of the middle: those after it are out of their places.
LEMMA RemovalShows ==
  ASSUME NEW events \in Seq(Event), Unbroken(events), NEW i \in DOMAIN events,
         i < Len(events)
  PROVE  broken_at(Without(events, i)) # 0
  <1> DEFINE rest == Without(events, i)
  <1>1. Len(events) \in Nat /\ DOMAIN events = 1 .. Len(events) /\ i \in Nat /\ i >= 1
    BY LenProperties
  <1>2. /\ DOMAIN rest = 1 .. (Len(events) - 1)
        /\ \A j \in DOMAIN rest : rest[j] = events[IF j < i THEN j ELSE j + 1]
    BY DEF Without
  <1>3. rest \in Seq(Event)
    <2>1. \A j \in 1 .. (Len(events) - 1) : events[IF j < i THEN j ELSE j + 1] \in Event
      BY <1>1, ElementOfSeq
    <2>2. Len(events) - 1 \in Nat
      BY <1>1
    <2> QED BY <2>1, <2>2 DEF Without
  <1>4. i \in DOMAIN rest /\ rest[i] = events[i + 1] /\ i + 1 \in DOMAIN events
    BY <1>1, <1>2
  <1>5. rest[i].sequence = i + 1
    BY <1>4 DEF Unbroken
  <1>6. ASSUME NEW j \in DOMAIN rest, j < i
        PROVE  /\ rest[j].sequence = j
               /\ rest[j].prev_hash = IF j = 1 THEN GENESIS ELSE rest[j - 1].hash
               /\ rest[j].hash = recompute(rest[j])
    <2>1. j \in DOMAIN events /\ rest[j] = events[j]
          /\ (j # 1 => j - 1 \in DOMAIN rest /\ rest[j - 1] = events[j - 1])
      BY <1>1, <1>2, <1>6
    <2> HIDE DEF rest
    <2> QED BY <2>1 DEF Unbroken
  <1>7. broken_at(rest) = rest[i].sequence
    <2>1. rest[i].sequence # i
      BY <1>1, <1>5
    <2> HIDE DEF rest
    <2> QED BY <1>3, <1>4, <1>6, <2>1, FirstBreak
  <1> HIDE DEF rest
  <1> QED BY <1>1, <1>5, <1>7 DEF rest

\* An event rewritten in place: its own digest gives it away.
LEMMA RewriteShows ==
  ASSUME NEW events \in Seq(Event), Unbroken(events), NEW i \in DOMAIN events,
         NEW fact \in Facts, fact # events[i].fact
  PROVE  broken_at([events EXCEPT ![i].fact = fact]) = i
  <1> DEFINE e == [events[i] EXCEPT !.fact = fact]
             forged == [events EXCEPT ![i] = e]
  <1>1. Len(events) \in Nat /\ DOMAIN events = 1 .. Len(events) /\ i \in 1 .. Len(events)
    BY LenProperties
  <1>2. events[i] \in Event
    BY <1>1, ElementOfSeq
  <1>3. /\ e \in Event
        /\ e.sequence = events[i].sequence /\ e.prev_hash = events[i].prev_hash
        /\ e.hash = events[i].hash /\ e.fact = fact
    BY <1>2 DEF Event
  <1>4. forged = [events EXCEPT ![i].fact = fact]
    OBVIOUS
  <1>5. /\ forged \in Seq(Event)
        /\ DOMAIN forged = DOMAIN events
        /\ \A j \in DOMAIN events : forged[j] = IF j = i THEN e ELSE events[j]
    <2> HIDE DEF e
    <2> QED BY <1>1, <1>3, ExceptSeq, LenProperties
  <1>6. events[i].sequence = i /\ events[i].hash = recompute(events[i])
    BY DEF Unbroken
  <1>7. recompute(e) # e.hash
    <2>1. events[i].prev_hash \in Digest /\ events[i].sequence \in Nat /\ events[i].fact \in Facts
      BY <1>2 DEF Event
    <2> HIDE DEF e
    <2> QED BY <1>3, <1>6, <2>1, DigestTells DEF recompute
  <1>8. ASSUME NEW j \in DOMAIN forged, j < i
        PROVE  /\ forged[j].sequence = j
               /\ forged[j].prev_hash = IF j = 1 THEN GENESIS ELSE forged[j - 1].hash
               /\ forged[j].hash = recompute(forged[j])
    <2> HIDE DEF forged
    <2>1. forged[j] = events[j] /\ (j # 1 => j - 1 \in DOMAIN events /\ forged[j - 1] = events[j - 1])
      BY <1>1, <1>5, <1>8
    <2> QED BY <1>5, <2>1 DEF Unbroken
  <1>9. broken_at(forged) = forged[i].sequence
    <2> HIDE DEF forged, e
    <2> QED BY <1>5, <1>7, <1>8, FirstBreak
  <1> HIDE DEF e
  <1> QED BY <1>3, <1>4, <1>5, <1>6, <1>9

\* RF-160: what is committed verifies, and an event taken out of the middle or
\* rewritten in place is found where it stood (`verify`, audit/service.py).
THEOREM TamperingAlwaysShows == TrailSpec => []TamperingShows
  <1>1. ASSUME TrailInv PROVE TamperingShows
    <2>1. ASSUME NEW u \in Units
          PROVE  /\ broken_at(chain[u]) = 0
                 /\ \A i \in DOMAIN chain[u] :
                      /\ i < Len(chain[u]) => broken_at(Without(chain[u], i)) # 0
                      /\ \A fact \in Facts \ {chain[u][i].fact} :
                           broken_at([chain[u] EXCEPT ![i].fact = fact]) = i
      <3>1. chain[u] \in Seq(Event) /\ Unbroken(chain[u])
        BY <1>1 DEF TrailInv, TrailTypeOK
      <3> QED BY <3>1, UnbrokenVerifies, RemovalShows, RewriteShows
    <2> QED BY <2>1 DEF TamperingShows
  <1> QED BY <1>1, TrailStarts, TrailSteps, PTL DEF TrailSpec

\* Whatever transactions interleave, every event of a chain names a number, a
\* fact and two digests, and only transactions hold the locks of the units.
THEOREM TrailTyped == TrailSpec => []TrailTypeOK
  <1>1. TrailInv => TrailTypeOK
    BY DEF TrailInv
  <1> QED BY <1>1, TrailStarts, TrailSteps, PTL DEF TrailSpec

\* What is appended continues the chain, and what is altered breaks it.
THEOREM TrailAlwaysHolds == TrailSpec => []TrailHolds
  BY AppendsAlwaysContinue, TamperingAlwaysShows, PTL DEF TrailHolds

-----------------------------------------------------------------------------
(****************************************************************************)
(* WORK PROPOSALS: one open per defect, and no finding is lost              *)
(****************************************************************************)

\* What an open session points at is there.
PointsAt(c) ==
  /\ c.act \in {"join", "aprobada", "rechazada", "fusionada"} => c.on \in DOMAIN tray
  /\ c.act = "fusionada" => c.into \in DOMAIN work

ConnectionsPoint == \A s \in Connections : PointsAt(conn[s])

ProposalInv ==
  ProposalTypeOK /\ ConnectionsPoint /\ OneOpenPerDefect /\ DecisionsOnRecord

-----------------------------------------------------------------------------
(* Rows and sessions *)

LEMMA TrayIndexed ==
  ASSUME ProposalTypeOK
  PROVE  /\ Len(tray) \in Nat /\ DOMAIN tray = 1 .. Len(tray)
         /\ DOMAIN tray \subseteq 1 .. MaxProposals
         /\ \A i \in DOMAIN tray : tray[i] \in ProposalRow
         /\ Len(work) \in Nat /\ DOMAIN work = 1 .. Len(work)
         /\ DOMAIN work \subseteq 1 .. MaxWork
         /\ \A o \in DOMAIN work : work[o] \in WorkRow
  <1>1. Len(tray) \in Nat /\ DOMAIN tray = 1 .. Len(tray) /\ tray \in [1 .. Len(tray) -> ProposalRow]
    BY LenProperties DEF ProposalTypeOK
  <1>2. Len(work) \in Nat /\ DOMAIN work = 1 .. Len(work) /\ work \in [1 .. Len(work) -> WorkRow]
    BY LenProperties DEF ProposalTypeOK
  <1>3. DOMAIN tray \subseteq 1 .. MaxProposals
    BY <1>1, ProposalBounds DEF ProposalTypeOK
  <1>4. DOMAIN work \subseteq 1 .. MaxWork
    BY <1>2, ProposalBounds DEF ProposalTypeOK
  <1> QED BY <1>1, <1>2, <1>3, <1>4

LEMMA ConnectionKinds ==
  ASSUME NEW c
  PROVE  c \in Connection <=>
           \/ c = NotConnected
           \/ \E news \in SUBSET (Assets \X Defects) :
                c \in [act: {"pass"}, first: [news -> Captured]]
           \/ c \in [act: {"raise"}, finding: Seen]
           \/ c \in [act: {"join"}, finding: Seen, on: 1..MaxProposals, read: SUBSET Finding]
           \/ c \in [act: {"aprobada", "rechazada"}, on: 1..MaxProposals]
           \/ c \in [act: {"fusionada"}, on: 1..MaxProposals, into: 1..MaxWork,
                    read: SUBSET (1..MaxProposals)]
  BY DEF Connection

LEMMA ConnectionOfAct ==
  ASSUME NEW c \in Connection
  PROVE  /\ c.act = "pass" => \E news \in SUBSET (Assets \X Defects) :
                                c \in [act: {"pass"}, first: [news -> Captured]]
         /\ c.act = "raise" => c \in [act: {"raise"}, finding: Seen]
         /\ c.act = "join" =>
              c \in [act: {"join"}, finding: Seen, on: 1..MaxProposals, read: SUBSET Finding]
         /\ c.act \in {"aprobada", "rechazada"} =>
              c \in [act: {"aprobada", "rechazada"}, on: 1..MaxProposals]
         /\ c.act = "fusionada" =>
              c \in [act: {"fusionada"}, on: 1..MaxProposals, into: 1..MaxWork,
                     read: SUBSET (1..MaxProposals)]
  <1>1. CASE c = NotConnected
    BY <1>1 DEF NotConnected
  <1>2. CASE \E news \in SUBSET (Assets \X Defects) :
               c \in [act: {"pass"}, first: [news -> Captured]]
    <2>1. c.act = "pass"
      BY <1>2
    <2> QED BY <1>2, <2>1
  <1>3. CASE c \in [act: {"raise"}, finding: Seen]
    BY <1>3
  <1>4. CASE c \in [act: {"join"}, finding: Seen, on: 1..MaxProposals, read: SUBSET Finding]
    BY <1>4
  <1>5. CASE c \in [act: {"aprobada", "rechazada"}, on: 1..MaxProposals]
    BY <1>5
  <1>6. CASE c \in [act: {"fusionada"}, on: 1..MaxProposals, into: 1..MaxWork,
                   read: SUBSET (1..MaxProposals)]
    BY <1>6
  <1> QED BY <1>1, <1>2, <1>3, <1>4, <1>5, <1>6, ConnectionKinds

\* One row of the tray is written over.
LEMMA RowWritten ==
  ASSUME ProposalTypeOK, NEW i \in DOMAIN tray, NEW row \in ProposalRow,
         tray' = [tray EXCEPT ![i] = row]
  PROVE  /\ tray' \in Seq(ProposalRow) /\ Len(tray') = Len(tray) /\ DOMAIN tray' = DOMAIN tray
         /\ \A j \in DOMAIN tray : tray'[j] = IF j = i THEN row ELSE tray[j]
  BY TrayIndexed, ExceptSeq DEF ProposalTypeOK

LEMMA WorkWritten ==
  ASSUME ProposalTypeOK, NEW o \in DOMAIN work, NEW row \in WorkRow,
         work' = [work EXCEPT ![o] = row]
  PROVE  /\ work' \in Seq(WorkRow) /\ Len(work') = Len(work) /\ DOMAIN work' = DOMAIN work
         /\ \A j \in DOMAIN work : work'[j] = IF j = o THEN row ELSE work[j]
  BY TrayIndexed, ExceptSeq DEF ProposalTypeOK

\* A session ends; the others point at what they did, and rows never go.
LEMMA SessionOver ==
  ASSUME ProposalTypeOK, ConnectionsPoint, NEW s \in Connections, Ends(s),
         DOMAIN tray \subseteq DOMAIN tray', DOMAIN work \subseteq DOMAIN work'
  PROVE  conn' \in [Connections -> Connection] /\ ConnectionsPoint'
  <1>1. conn' \in [Connections -> Connection]
    BY DEF ProposalTypeOK, Ends, Connection
  <1>2. \A t \in Connections : conn'[t] = NotConnected \/ conn'[t] = conn[t]
    BY DEF ProposalTypeOK, Ends
  <1> QED BY <1>1, <1>2 DEF ConnectionsPoint, PointsAt, NotConnected

\* A session that opens changes nothing else.
LEMMA SessionOpens ==
  ASSUME ProposalInv, NEW s \in Connections, NEW c \in Connection, Opens(s, c), PointsAt(c),
         UNCHANGED <<tray, work, submitted, accepted, decided>>
  PROVE  ProposalInv'
  <1>1. conn' = [conn EXCEPT ![s] = c]
    BY DEF Opens
  <1>2. ProposalTypeOK'
    BY <1>1 DEF ProposalInv, ProposalTypeOK
  <1>3. ConnectionsPoint'
    BY <1>1 DEF ProposalInv, ProposalTypeOK, ConnectionsPoint, PointsAt
  <1> QED BY <1>2, <1>3 DEF ProposalInv, OneOpenPerDefect, OpenRows, DecisionsOnRecord

LEMMA ProposalsBegin ==
  ASSUME ProposalInv, NEW s \in Connections,
         \/ PassBegin(s) \/ FindingBegin(s)
         \/ ApproveBegin(s) \/ RejectBegin(s) \/ MergeBegin(s)
  PROVE  ProposalInv'
  <1> USE TrayIndexed
  <1>0. ProposalTypeOK
    BY DEF ProposalInv
  <1>1. CASE PassBegin(s)
    <2>1. PICK news \in SUBSET (Assets \X Defects) :
            \E first \in [news -> submitted] : Opens(s, [act |-> "pass", first |-> first])
      BY <1>1, Zenon DEF PassBegin
    <2> PICK first \in [news -> submitted] : Opens(s, [act |-> "pass", first |-> first])
      BY <2>1
    <2>2. first \in [news -> Captured]
      BY <1>0 DEF ProposalTypeOK
    <2> DEFINE c == [act |-> "pass", first |-> first]
    <2>3. c \in [act: {"pass"}, first: [news -> Captured]] /\ c.act = "pass"
      BY <2>2
    <2>4. Opens(s, c) /\ UNCHANGED <<tray, work, submitted, accepted, decided>>
      BY <1>1 DEF PassBegin
    <2> HIDE DEF c
    <2>5. c \in Connection
      BY <2>3, ConnectionKinds, Zenon
    <2> QED BY <2>3, <2>4, <2>5, SessionOpens DEF PointsAt
  <1>2. CASE FindingBegin(s)
    <2>1. PICK f \in Seen :
            \/ Opens(s, [act |-> "raise", finding |-> f])
            \/ \E i \in OpenRows :
                 Opens(s, [act |-> "join", finding |-> f, on |-> i, read |-> tray[i].findings])
      BY <1>2 DEF FindingBegin
    <2>2. UNCHANGED <<tray, work, submitted, accepted, decided>>
      BY <1>2 DEF FindingBegin
    <2>3. CASE Opens(s, [act |-> "raise", finding |-> f])
      <3> DEFINE c == [act |-> "raise", finding |-> f]
      <3>1. c \in [act: {"raise"}, finding: Seen] /\ c.act = "raise"
        OBVIOUS
      <3>2. Opens(s, c)
        BY <2>3
      <3> HIDE DEF c
      <3>3. c \in Connection
        BY <3>1, ConnectionKinds
      <3> QED BY <2>2, <3>1, <3>2, <3>3, SessionOpens DEF PointsAt
    <2>4. ASSUME NEW i \in OpenRows,
                 Opens(s, [act |-> "join", finding |-> f, on |-> i, read |-> tray[i].findings])
          PROVE  ProposalInv'
      <3> DEFINE c == [act |-> "join", finding |-> f, on |-> i, read |-> tray[i].findings]
      <3>1. i \in DOMAIN tray /\ tray[i].findings \in SUBSET Finding
        BY <1>0 DEF OpenRows, ProposalRow
      <3>2. c \in [act: {"join"}, finding: Seen, on: 1..MaxProposals, read: SUBSET Finding]
        BY <1>0, <3>1
      <3>3. c.act = "join" /\ c.on = i /\ Opens(s, c)
        BY <2>4
      <3> HIDE DEF c
      <3>4. c \in Connection
        BY <3>2, ConnectionKinds
      <3> QED BY <2>2, <3>1, <3>3, <3>4, SessionOpens DEF PointsAt
    <2> QED BY <2>1, <2>3, <2>4
  <1>3. CASE ApproveBegin(s) \/ RejectBegin(s)
    <2>1. PICK act \in {"aprobada", "rechazada"}, i \in OpenRows : Opens(s, [act |-> act, on |-> i])
      BY <1>3 DEF ApproveBegin, RejectBegin, DecideBegin
    <2> DEFINE c == [act |-> act, on |-> i]
    <2>2. i \in DOMAIN tray
      BY DEF OpenRows
    <2>3. c \in [act: {"aprobada", "rechazada"}, on: 1..MaxProposals]
      BY <1>0, <2>2
    <2>4. c.act = act /\ c.on = i /\ Opens(s, c)
      BY <2>1
    <2>5. UNCHANGED <<tray, work, submitted, accepted, decided>>
      BY <1>3 DEF ApproveBegin, RejectBegin
    <2> HIDE DEF c
    <2>6. c \in Connection
      BY <2>3, ConnectionKinds, Zenon
    <2> QED BY <2>2, <2>4, <2>5, <2>6, SessionOpens DEF PointsAt
  <1>4. CASE MergeBegin(s)
    <2>1. PICK i \in OpenRows, o \in DOMAIN work :
            Opens(s, [act |-> "fusionada", on |-> i, into |-> o, read |-> work[o].says])
      BY <1>4 DEF MergeBegin
    <2> DEFINE c == [act |-> "fusionada", on |-> i, into |-> o, read |-> work[o].says]
    <2>2. i \in DOMAIN tray /\ work[o].says \in SUBSET (1..MaxProposals)
      BY <1>0 DEF OpenRows, WorkRow
    <2>3. c \in [act: {"fusionada"}, on: 1..MaxProposals, into: 1..MaxWork,
                 read: SUBSET (1..MaxProposals)]
      BY <1>0, <2>2
    <2>4. c.act = "fusionada" /\ c.on = i /\ c.into = o /\ Opens(s, c)
      BY <2>1
    <2>5. UNCHANGED <<tray, work, submitted, accepted, decided>>
      BY <1>4 DEF MergeBegin
    <2> HIDE DEF c
    <2>6. c \in Connection
      BY <2>3, ConnectionKinds, Zenon
    <2> QED BY <2>2, <2>4, <2>5, <2>6, SessionOpens DEF PointsAt
  <1> QED BY <1>1, <1>2, <1>3, <1>4

-----------------------------------------------------------------------------
(* Raising *)

LEMMA NewRowTyped ==
  ASSUME NEW about \in Assets \X Defects, NEW findings \in SUBSET Finding
  PROVE  NewRow(about, findings) \in ProposalRow
  BY ProposalBounds DEF NewRow, ProposalRow, ProposalState

\* Open rows that are appended, of things no open row is about.
LEMMA RowsAppended ==
  ASSUME ProposalInv, NEW s \in Connections, Ends(s), NEW new \in Seq(ProposalRow),
         tray' = tray \o new, Len(tray) + Len(new) <= MaxProposals,
         \A i \in DOMAIN new : new[i].state = "propuesta" /\ new[i].about \notin OpenAbout,
         \A i, j \in DOMAIN new : new[i].about = new[j].about => i = j,
         accepted' \subseteq Seen, UNCHANGED <<work, submitted, decided>>
  PROVE  ProposalInv'
  <1>0. ProposalTypeOK
    BY DEF ProposalInv
  <1>1. /\ tray' \in Seq(ProposalRow) /\ Len(tray') = Len(tray) + Len(new)
        /\ Len(new) \in Nat /\ DOMAIN new = 1 .. Len(new)
        /\ DOMAIN tray' = 1 .. Len(tray')
        /\ \A i \in 1 .. Len(tray) + Len(new) :
             tray'[i] = IF i <= Len(tray) THEN tray[i] ELSE new[i - Len(tray)]
    BY <1>0, ConcatProperties, LenProperties DEF ProposalTypeOK
  <1>2. /\ DOMAIN tray \subseteq DOMAIN tray' /\ \A i \in DOMAIN tray : tray'[i] = tray[i]
        /\ \A i \in DOMAIN tray' \ DOMAIN tray :
             i - Len(tray) \in DOMAIN new /\ tray'[i] = new[i - Len(tray)]
    BY <1>0, <1>1, TrayIndexed
  <1>3. conn' \in [Connections -> Connection] /\ ConnectionsPoint'
    BY <1>0, <1>2, SessionOver DEF ProposalInv
  <1>4. ProposalTypeOK'
    BY <1>0, <1>1, <1>3 DEF ProposalTypeOK
  <1>5. OneOpenPerDefect'
    <2> SUFFICES ASSUME NEW i \in DOMAIN tray', NEW j \in DOMAIN tray',
                        tray'[i].state = "propuesta", tray'[j].state = "propuesta",
                        tray'[i].about = tray'[j].about
                 PROVE  i = j
      BY DEF OneOpenPerDefect, OpenRows
    <2>1. CASE i \in DOMAIN tray /\ j \in DOMAIN tray
      BY <1>2, <2>1 DEF ProposalInv, OneOpenPerDefect, OpenRows
    <2>2. CASE i \in DOMAIN tray /\ j \notin DOMAIN tray
      BY <1>2, <2>2 DEF OpenAbout, OpenRows
    <2>3. CASE i \notin DOMAIN tray /\ j \in DOMAIN tray
      BY <1>2, <2>3 DEF OpenAbout, OpenRows
    <2>4. CASE i \notin DOMAIN tray /\ j \notin DOMAIN tray
      <3>1. i - Len(tray) = j - Len(tray)
        BY <1>2, <2>4
      <3> QED BY <3>1, <1>0, <1>1, TrayIndexed
    <2> QED BY <2>1, <2>2, <2>3, <2>4
  <1>6. DecisionsOnRecord'
    BY <1>2 DEF ProposalInv, DecisionsOnRecord
  <1> QED BY <1>3, <1>4, <1>5, <1>6 DEF ProposalInv

LEMMA PassCommits ==
  ASSUME ProposalInv, NEW p \in Passes, PassCommit(p)
  PROVE  ProposalInv'
  <1> DEFINE first == conn[p].first
  <1>0. ProposalTypeOK /\ p \in Connections
    BY DEF ProposalInv, Connections
  <1>1. PICK news \in SUBSET (Assets \X Defects) : first \in [news -> Captured]
    <2>1. conn[p] \in Connection /\ conn[p].act = "pass"
      BY <1>0 DEF PassCommit, ProposalTypeOK
    <2>2. \E news \in SUBSET (Assets \X Defects) :
            conn[p] \in [act: {"pass"}, first: [news -> Captured]]
      BY <2>1, ConnectionOfAct, Zenon
    <2> QED BY <2>2
  <1>2. Cardinality(news) \in Nat /\ DOMAIN first = news
    BY <1>1, CatalogueIsFinite, FS_Subset, FS_CardinalityType
  <1>3. PICK rows \in [1 .. Cardinality(news) -> news] :
          /\ \A i, j \in DOMAIN rows : rows[i] = rows[j] => i = j
          /\ tray' = tray \o [i \in DOMAIN rows |-> NewRow(rows[i], {first[rows[i]]})]
    BY <1>2 DEF PassCommit
  <1> DEFINE new == [i \in 1 .. Cardinality(news) |-> NewRow(rows[i], {first[rows[i]]})]
  <1>4. tray' = tray \o new
    BY <1>3
  <1>5. \A i \in 1 .. Cardinality(news) : NewRow(rows[i], {first[rows[i]]}) \in ProposalRow
    BY <1>1, <1>3, NewRowTyped DEF Finding
  <1>6. new \in Seq(ProposalRow)
    <2>1. \A i \in 1 .. Cardinality(news) : new[i] \in ProposalRow
      BY <1>5
    <2>2. new = [i \in 1 .. Cardinality(news) |-> new[i]]
      OBVIOUS
    <2> HIDE DEF new
    <2>3. [i \in 1 .. Cardinality(news) |-> new[i]] \in Seq(ProposalRow)
      BY <1>2, <2>1
    <2> QED BY <2>2, <2>3
  <1>7. Len(new) = Cardinality(news) /\ DOMAIN new = 1 .. Cardinality(news)
    BY <1>2
  <1>8. \A i \in DOMAIN new : new[i].state = "propuesta" /\ new[i].about = rows[i]
    BY DEF NewRow
  <1>9. \A i \in DOMAIN new : rows[i] \notin OpenAbout
    BY <1>2, <1>3 DEF PassCommit, Unique
  <1>10. /\ Len(tray) + Cardinality(news) <= MaxProposals /\ Ends(p)
         /\ UNCHANGED <<work, submitted, accepted, decided>>
    BY <1>2 DEF PassCommit
  <1>11. \A i \in DOMAIN new : new[i].state = "propuesta" /\ new[i].about \notin OpenAbout
    BY <1>7, <1>8, <1>9
  <1>12. \A i, j \in DOMAIN new : new[i].about = new[j].about => i = j
    BY <1>3, <1>7, <1>8
  <1>13. Len(tray) + Len(new) <= MaxProposals /\ accepted' \subseteq Seen
    BY <1>0, <1>7, <1>10 DEF ProposalTypeOK
  <1> HIDE DEF new, first
  <1> QED BY <1>0, <1>4, <1>6, <1>10, <1>11, <1>12, <1>13, RowsAppended

LEMMA RaiseCommits ==
  ASSUME ProposalInv, NEW p \in Phones, RaiseCommit(p)
  PROVE  ProposalInv'
  <1> DEFINE f == conn[p].finding
             new == <<NewRow(AboutOf[f], {f})>>
  <1>0. ProposalTypeOK /\ p \in Connections
    BY DEF ProposalInv, Connections
  <1>1. f \in Seen
    BY <1>0, ConnectionOfAct DEF RaiseCommit, ProposalTypeOK
  <1>2. NewRow(AboutOf[f], {f}) \in ProposalRow
    BY <1>1, FindingsTold, NewRowTyped DEF Finding
  <1>3. new \in Seq(ProposalRow) /\ Len(new) = 1 /\ DOMAIN new = {1}
    BY <1>2
  <1>4. tray' = tray \o new
    <2>1. tray \in Seq(ProposalRow) /\ tray' = Append(tray, NewRow(AboutOf[f], {f}))
      BY <1>0 DEF RaiseCommit, ProposalTypeOK
    <2> QED BY <1>2, <2>1, AppendIsConcat
  <1>5. new[1].state = "propuesta" /\ new[1].about = AboutOf[f]
    BY DEF NewRow
  <1>6. AboutOf[f] \notin OpenAbout
    BY DEF RaiseCommit, Unique
  <1>7. Len(tray) + 1 <= MaxProposals
    BY <1>0, TrayIndexed, ProposalBounds DEF RaiseCommit
  <1>8. accepted' \subseteq Seen /\ Ends(p) /\ UNCHANGED <<work, submitted, decided>>
    BY <1>0, <1>1 DEF RaiseCommit, ProposalTypeOK
  <1> HIDE DEF new, f
  <1> QED BY <1>0, <1>3, <1>4, <1>5, <1>6, <1>7, <1>8, RowsAppended

LEMMA JoinCommits ==
  ASSUME ProposalInv, NEW p \in Phones, JoinCommit(p)
  PROVE  ProposalInv'
  <1> DEFINE f == conn[p].finding
             i == conn[p].on
             row == [tray[i] EXCEPT !.findings = conn[p].read \cup {f}]
  <1>0. ProposalTypeOK /\ p \in Connections
    BY DEF ProposalInv, Connections
  <1>1. f \in Seen /\ conn[p].read \in SUBSET Finding
    BY <1>0, ConnectionOfAct DEF JoinCommit, ProposalTypeOK
  <1>2. i \in DOMAIN tray
    BY <1>0 DEF ProposalInv, ConnectionsPoint, PointsAt, JoinCommit
  <1>3. tray[i] \in ProposalRow /\ conn[p].read \cup {f} \in SUBSET Finding
    BY <1>0, <1>1, <1>2, TrayIndexed DEF Finding
  <1>4. /\ row \in ProposalRow /\ row.state = tray[i].state /\ row.about = tray[i].about
        /\ row.work_order = tray[i].work_order /\ row.merged_into = tray[i].merged_into
        /\ row.reason = tray[i].reason
    BY <1>3 DEF ProposalRow
  <1>5. tray' = [tray EXCEPT ![i] = row]
    BY DEF JoinCommit, Joined
  <1>6. accepted' \subseteq Seen /\ Ends(p) /\ UNCHANGED <<work, submitted, decided>>
    BY <1>0, <1>1 DEF JoinCommit, ProposalTypeOK
  <1> HIDE DEF row, i, f
  <1>7. /\ tray' \in Seq(ProposalRow) /\ Len(tray') = Len(tray) /\ DOMAIN tray' = DOMAIN tray
        /\ \A j \in DOMAIN tray : tray'[j] = IF j = i THEN row ELSE tray[j]
    BY <1>0, <1>2, <1>4, <1>5, RowWritten
  <1>8. conn' \in [Connections -> Connection] /\ ConnectionsPoint'
    BY <1>0, <1>6, <1>7, SessionOver DEF ProposalInv
  <1>9. ProposalTypeOK'
    BY <1>0, <1>6, <1>7, <1>8 DEF ProposalTypeOK
  <1>10. OneOpenPerDefect' /\ DecisionsOnRecord'
    BY <1>4, <1>6, <1>7 DEF ProposalInv, OneOpenPerDefect, OpenRows, DecisionsOnRecord
  <1> QED BY <1>8, <1>9, <1>10 DEF ProposalInv

-----------------------------------------------------------------------------
(* Deciding *)

LEMMA ApproveCommits ==
  ASSUME ProposalInv, NEW d \in Deciders, ApproveCommit(d)
  PROVE  ProposalInv'
  <1> DEFINE i == conn[d].on
             o == Len(work) + 1
             row == Approved(tray[i], o)
             order == [asset |-> tray[i].about[1], state |-> "pending", says |-> {i}, from |-> i]
             mark == [on |-> i, to |-> "aprobada", order |-> o]
  <1>0. ProposalTypeOK /\ d \in Connections
    BY DEF ProposalInv, Connections
  <1>1. i \in DOMAIN tray
    BY <1>0 DEF ProposalInv, ConnectionsPoint, PointsAt, ApproveCommit
  <1>2. o \in 1 .. MaxWork /\ o \in 0 .. MaxWork
    BY <1>0, TrayIndexed, ProposalBounds DEF ApproveCommit
  <1>3. tray[i] \in ProposalRow /\ i \in 1 .. MaxProposals /\ i \in 0 .. MaxProposals
    BY <1>0, <1>1, TrayIndexed
  <1>4. /\ row \in ProposalRow /\ row.state = "aprobada" /\ row.work_order = o
        /\ row.about = tray[i].about
    BY <1>2, <1>3 DEF ProposalRow, Approved, ProposalState
  <1>5. tray' = [tray EXCEPT ![i] = row]
    BY DEF ApproveCommit
  <1>6. order \in WorkRow /\ order.from = i
    BY <1>3 DEF WorkRow, ProposalRow
  <1>7. work' = Append(work, order)
    BY DEF ApproveCommit
  <1>8. mark \in Decision /\ decided' = decided \cup {mark}
    BY <1>2, <1>3 DEF ApproveCommit, OnTrail, Decision, ProposalState
  <1>9. Ends(d) /\ UNCHANGED <<submitted, accepted>>
    BY DEF ApproveCommit
  <1>10. mark = [on |-> i, to |-> "aprobada", order |-> o] /\ o = Len(work) + 1
    OBVIOUS
  <1> HIDE DEF row, order, mark, i, o
  <1>11. /\ tray' \in Seq(ProposalRow) /\ Len(tray') = Len(tray) /\ DOMAIN tray' = DOMAIN tray
         /\ \A j \in DOMAIN tray : tray'[j] = IF j = i THEN row ELSE tray[j]
    BY <1>0, <1>1, <1>4, <1>5, RowWritten
  <1>12. /\ work' \in Seq(WorkRow) /\ Len(work') = o /\ DOMAIN work' = 1 .. o
         /\ \A j \in DOMAIN work' : work'[j] = IF j = o THEN order ELSE work[j]
         /\ \A j \in DOMAIN work' : j = o \/ j \in DOMAIN work
    BY <1>0, <1>6, <1>7, <1>10, AppendProperties, TrayIndexed DEF ProposalTypeOK
  <1>13. DOMAIN work \subseteq DOMAIN work'
    BY <1>0, <1>10, <1>12, TrayIndexed
  <1>14. conn' \in [Connections -> Connection] /\ ConnectionsPoint'
    BY <1>0, <1>9, <1>11, <1>13, SessionOver DEF ProposalInv
  <1>15. ProposalTypeOK'
    BY <1>0, <1>2, <1>8, <1>9, <1>11, <1>12, <1>14 DEF ProposalTypeOK
  <1>16. OneOpenPerDefect'
    BY <1>4, <1>11 DEF ProposalInv, OneOpenPerDefect, OpenRows
  <1>17. DecisionsOnRecord'
    <2>1. \A j \in DOMAIN work' : work'[j].from # 0 =>
            [on |-> work'[j].from, to |-> "aprobada", order |-> j] \in decided'
      BY <1>6, <1>8, <1>10, <1>12 DEF ProposalInv, DecisionsOnRecord
    <2>2. ASSUME NEW j \in DOMAIN tray'
          PROVE  /\ tray'[j].state = "aprobada" =>
                      [on |-> j, to |-> "aprobada", order |-> tray'[j].work_order] \in decided'
                 /\ tray'[j].state = "fusionada" =>
                      [on |-> j, to |-> "fusionada", order |-> tray'[j].merged_into] \in decided'
                 /\ tray'[j].state = "rechazada" =>
                      tray'[j].reason /\ [on |-> j, to |-> "rechazada", order |-> 0] \in decided'
      <3>1. CASE j = i
        BY <1>4, <1>8, <1>10, <1>11, <3>1
      <3>2. CASE j # i
        <4>1. tray'[j] = tray[j] /\ j \in DOMAIN tray
          BY <1>11, <3>2
        <4>2. decided \subseteq decided'
          BY <1>8
        <4> QED BY <4>1, <4>2, Zenon DEF ProposalInv, DecisionsOnRecord
      <3> QED BY <3>1, <3>2
    <2> QED BY <2>1, <2>2, Zenon DEF DecisionsOnRecord
  <1> QED BY <1>14, <1>15, <1>16, <1>17 DEF ProposalInv

\* A row that is closed leaves nothing twice open, and its decision on the trail.
LEMMA RowClosed ==
  ASSUME ProposalInv, NEW d \in Connections, Ends(d),
         NEW i \in DOMAIN tray, NEW row \in ProposalRow, tray' = [tray EXCEPT ![i] = row],
         NEW mark \in Decision, decided' = decided \cup {mark}, mark.on = i, mark.to = row.state,
         \/ row.state = "fusionada" /\ mark.order = row.merged_into
         \/ row.state = "rechazada" /\ mark.order = 0 /\ row.reason = TRUE,
         work' \in Seq(WorkRow), Len(work') = Len(work), DOMAIN work' = DOMAIN work,
         \A o \in DOMAIN work : work'[o].from = work[o].from,
         UNCHANGED <<submitted, accepted>>
  PROVE  ProposalInv'
  <1>0. ProposalTypeOK
    BY DEF ProposalInv
  <1>1. /\ tray' \in Seq(ProposalRow) /\ Len(tray') = Len(tray) /\ DOMAIN tray' = DOMAIN tray
        /\ \A j \in DOMAIN tray : tray'[j] = IF j = i THEN row ELSE tray[j]
    BY <1>0, RowWritten
  <1>2. conn' \in [Connections -> Connection] /\ ConnectionsPoint'
    BY <1>0, <1>1, SessionOver DEF ProposalInv
  <1>3. ProposalTypeOK'
    BY <1>0, <1>1, <1>2 DEF ProposalTypeOK
  <1>4. OneOpenPerDefect'
    BY <1>1 DEF ProposalInv, OneOpenPerDefect, OpenRows
  <1>5. mark = [on |-> i, to |-> row.state, order |-> mark.order]
    BY DEF Decision
  <1>6. DecisionsOnRecord'
    <2>1. \A j \in DOMAIN work' : work'[j].from # 0 =>
            [on |-> work'[j].from, to |-> "aprobada", order |-> j] \in decided'
      BY DEF ProposalInv, DecisionsOnRecord
    <2>2. ASSUME NEW j \in DOMAIN tray'
          PROVE  /\ tray'[j].state = "aprobada" =>
                      [on |-> j, to |-> "aprobada", order |-> tray'[j].work_order] \in decided'
                 /\ tray'[j].state = "fusionada" =>
                      [on |-> j, to |-> "fusionada", order |-> tray'[j].merged_into] \in decided'
                 /\ tray'[j].state = "rechazada" =>
                      tray'[j].reason /\ [on |-> j, to |-> "rechazada", order |-> 0] \in decided'
      <3>1. CASE j = i
        <4>1. tray'[j] = row /\ mark \in decided'
          BY <1>1, <3>1
        <4>2. CASE row.state = "fusionada"
          BY <1>5, <3>1, <4>1, <4>2
        <4>3. CASE row.state = "rechazada"
          <5>1. row.reason = TRUE /\ [on |-> j, to |-> "rechazada", order |-> 0] \in decided'
            BY <1>5, <3>1, <4>1, <4>3
          <5>2. row.state # "aprobada" /\ row.state # "fusionada"
            BY <4>3
          <5> QED BY <4>1, <5>1, <5>2, Zenon
        <4> QED BY <4>2, <4>3
      <3>2. CASE j # i
        <4>1. tray'[j] = tray[j] /\ j \in DOMAIN tray
          BY <1>1, <3>2
        <4>2. decided \subseteq decided'
          OBVIOUS
        <4> QED BY <4>1, <4>2, Zenon DEF ProposalInv, DecisionsOnRecord
      <3> QED BY <3>1, <3>2
    <2> QED BY <2>1, <2>2, Zenon DEF DecisionsOnRecord
  <1> QED BY <1>2, <1>3, <1>4, <1>6 DEF ProposalInv

LEMMA RejectCommits ==
  ASSUME ProposalInv, NEW d \in Deciders, RejectCommit(d)
  PROVE  ProposalInv'
  <1> DEFINE i == conn[d].on
             row == [tray[i] EXCEPT !.state = "rechazada", !.reason = TRUE]
             mark == [on |-> i, to |-> "rechazada", order |-> 0]
  <1>0. ProposalTypeOK /\ d \in Connections
    BY DEF ProposalInv, Connections
  <1>1. i \in DOMAIN tray
    BY <1>0 DEF ProposalInv, ConnectionsPoint, PointsAt, RejectCommit
  <1>2. tray[i] \in ProposalRow /\ i \in 1 .. MaxProposals
    BY <1>0, <1>1, TrayIndexed
  <1>3. row \in ProposalRow /\ row.state = "rechazada" /\ row.reason = TRUE
    BY <1>2 DEF ProposalRow, ProposalState
  <1>4. tray' = [tray EXCEPT ![i] = row]
    BY DEF RejectCommit
  <1>5. mark \in Decision /\ decided' = decided \cup {mark}
    BY <1>2, ProposalBounds DEF RejectCommit, OnTrail, Decision, ProposalState
  <1>6. mark.on = i /\ mark.to = "rechazada" /\ mark.order = 0
    OBVIOUS
  <1>7. Ends(d) /\ UNCHANGED <<work, submitted, accepted>>
    BY DEF RejectCommit
  <1>8. work' \in Seq(WorkRow)
    BY <1>0, <1>7 DEF ProposalTypeOK
  <1> HIDE DEF row, mark, i
  <1> QED BY <1>0, <1>1, <1>3, <1>4, <1>5, <1>6, <1>7, <1>8, RowClosed

LEMMA MergeCommits ==
  ASSUME ProposalInv, NEW d \in Deciders, MergeCommit(d)
  PROVE  ProposalInv'
  <1> DEFINE i == conn[d].on
             o == conn[d].into
             row == [tray[i] EXCEPT !.state = "fusionada", !.merged_into = o]
             order == [work[o] EXCEPT !.says = conn[d].read \cup {i}]
             mark == [on |-> i, to |-> "fusionada", order |-> o]
  <1>0. ProposalTypeOK /\ d \in Connections
    BY DEF ProposalInv, Connections
  <1>1. i \in DOMAIN tray /\ o \in DOMAIN work
    BY <1>0 DEF ProposalInv, ConnectionsPoint, PointsAt, MergeCommit
  <1>2. /\ tray[i] \in ProposalRow /\ i \in 1 .. MaxProposals
        /\ work[o] \in WorkRow /\ o \in 1 .. MaxWork /\ o \in 0 .. MaxWork
    BY <1>0, <1>1, TrayIndexed
  <1>3. row \in ProposalRow /\ row.state = "fusionada" /\ row.merged_into = o
    BY <1>2 DEF ProposalRow, ProposalState
  <1>4. tray' = [tray EXCEPT ![i] = row] /\ work' = [work EXCEPT ![o] = order]
    BY DEF MergeCommit
  <1>5. mark \in Decision /\ decided' = decided \cup {mark}
    BY <1>2 DEF MergeCommit, OnTrail, Decision, ProposalState
  <1>6. mark.on = i /\ mark.to = "fusionada" /\ mark.order = o
    OBVIOUS
  <1>7. conn[d].read \in SUBSET (1 .. MaxProposals)
    BY <1>0, ConnectionOfAct DEF MergeCommit, ProposalTypeOK
  <1>8. order \in WorkRow /\ order.from = work[o].from
    BY <1>2, <1>7 DEF WorkRow
  <1>9. Ends(d) /\ UNCHANGED <<submitted, accepted>>
    BY DEF MergeCommit
  <1> HIDE DEF row, order, mark, i, o
  <1>10. /\ work' \in Seq(WorkRow) /\ Len(work') = Len(work) /\ DOMAIN work' = DOMAIN work
         /\ \A j \in DOMAIN work : work'[j].from = work[j].from
    BY <1>0, <1>1, <1>4, <1>8, WorkWritten
  <1> QED BY <1>0, <1>1, <1>3, <1>4, <1>5, <1>6, <1>9, <1>10, RowClosed

LEMMA WorkOver ==
  ASSUME ProposalInv, NEW o \in DOMAIN work, WorkEnds(o)
  PROVE  ProposalInv'
  <1>0. ProposalTypeOK
    BY DEF ProposalInv
  <1>1. PICK state \in {"attended", "cancelled"} : work' = [work EXCEPT ![o].state = state]
    BY DEF WorkEnds
  <1> DEFINE order == [work[o] EXCEPT !.state = state]
  <1>2. order \in WorkRow /\ order.from = work[o].from
    BY <1>0, TrayIndexed DEF WorkRow
  <1>3. work' = [work EXCEPT ![o] = order]
    BY <1>1
  <1>4. UNCHANGED <<tray, submitted, conn, accepted, decided>>
    BY DEF WorkEnds
  <1> HIDE DEF order
  <1>5. /\ work' \in Seq(WorkRow) /\ Len(work') = Len(work) /\ DOMAIN work' = DOMAIN work
        /\ \A j \in DOMAIN work : work'[j].from = work[j].from
    BY <1>0, <1>2, <1>3, WorkWritten
  <1>6. ProposalTypeOK'
    BY <1>0, <1>4, <1>5 DEF ProposalTypeOK
  <1>7. ConnectionsPoint' /\ OneOpenPerDefect' /\ DecisionsOnRecord'
    BY <1>4, <1>5 DEF ProposalInv, ConnectionsPoint, PointsAt, OneOpenPerDefect, OpenRows,
                      DecisionsOnRecord
  <1> QED BY <1>6, <1>7 DEF ProposalInv

LEMMA ProposalStep ==
  ASSUME ProposalInv, [ProposalNext]_prvars
  PROVE  ProposalInv'
  <1>1. ASSUME NEW f \in Captured, CaptureArrives(f)
        PROVE  ProposalInv'
    BY <1>1 DEF CaptureArrives, ProposalInv, ProposalTypeOK, ConnectionsPoint, PointsAt,
                OneOpenPerDefect, OpenRows, DecisionsOnRecord
  <1>2. ASSUME NEW p \in Passes, PassBegin(p) \/ PassCommit(p)
        PROVE  ProposalInv'
    BY <1>2, PassCommits, ProposalsBegin DEF Connections
  <1>3. ASSUME NEW p \in Phones, FindingBegin(p) \/ RaiseCommit(p) \/ JoinCommit(p)
        PROVE  ProposalInv'
    BY <1>3, RaiseCommits, JoinCommits, ProposalsBegin DEF Connections
  <1>4. ASSUME NEW d \in Deciders,
               \/ ApproveBegin(d) \/ RejectBegin(d) \/ MergeBegin(d)
               \/ ApproveCommit(d) \/ RejectCommit(d) \/ MergeCommit(d)
        PROVE  ProposalInv'
    BY <1>4, ApproveCommits, RejectCommits, MergeCommits, ProposalsBegin DEF Connections
  <1>5. ASSUME NEW s \in Connections, SessionFails(s)
        PROVE  ProposalInv'
    <2>1. Ends(s) /\ UNCHANGED <<tray, work, submitted, accepted, decided>>
      BY <1>5 DEF SessionFails
    <2>2. conn' \in [Connections -> Connection] /\ ConnectionsPoint'
      BY <2>1, SessionOver DEF ProposalInv
    <2> QED BY <2>1, <2>2 DEF ProposalInv, ProposalTypeOK, OneOpenPerDefect, OpenRows,
                              DecisionsOnRecord
  <1>6. ASSUME NEW o \in DOMAIN work, WorkEnds(o)
        PROVE  ProposalInv'
    BY <1>6, WorkOver
  <1>7. CASE UNCHANGED prvars
    BY <1>7 DEF prvars, ProposalInv, ProposalTypeOK, ConnectionsPoint, PointsAt,
                OneOpenPerDefect, OpenRows, DecisionsOnRecord
  <1> QED BY <1>1, <1>2, <1>3, <1>4, <1>5, <1>6, <1>7 DEF ProposalNext

\* One open proposal per asset and defect, every decision on record, and what the
\* open sessions point at is there.
THEOREM ProposalAlways == ProposalSpec => []ProposalInv
  <1>1. ProposalInit => ProposalInv
    <2> SUFFICES ASSUME ProposalInit PROVE ProposalInv
      OBVIOUS
    <2>1. tray = <<>> /\ DOMAIN tray = {} /\ Len(tray) = 0
      BY DEF ProposalInit
    <2>2. /\ work \in Seq(WorkRow) /\ Len(work) <= MaxWork
          /\ \A o \in DOMAIN work : work[o].from = 0
      <3>1. CASE work = <<>>
        BY <3>1, ProposalBounds
      <3>2. ASSUME NEW a \in Assets,
                   work = <<[asset |-> a, state |-> "pending", says |-> {}, from |-> 0]>>
            PROVE  /\ work \in Seq(WorkRow) /\ Len(work) <= MaxWork
                   /\ \A o \in DOMAIN work : work[o].from = 0
        <4> DEFINE order == [asset |-> a, state |-> "pending", says |-> {}, from |-> 0]
        <4>1. order \in WorkRow /\ order.from = 0
          BY ProposalBounds DEF WorkRow
        <4> HIDE DEF order
        <4>2. work = <<order>>
          BY <3>2 DEF order
        <4> QED BY <4>1, <4>2, ProposalBounds
      <3> QED BY <3>1, <3>2 DEF ProposalInit
    <2>3. ProposalTypeOK /\ ConnectionsPoint
      BY <2>1, <2>2, ProposalBounds
         DEF ProposalInit, ProposalTypeOK, Connection, ConnectionsPoint, PointsAt, NotConnected
    <2> QED BY <2>1, <2>2, <2>3 DEF ProposalInv, OneOpenPerDefect, OpenRows, DecisionsOnRecord
  <1> QED BY <1>1, ProposalStep, PTL DEF ProposalSpec

-----------------------------------------------------------------------------
(* What phones reported, with one phone *)

\* One phone reports at a time: a report rewrites the list of findings it read.
OnePhone == \A p, q \in Phones : p = q

\* Who joins has read the findings as they stand.
JoinsReadWhatStands ==
  \A p \in Phones : conn[p].act = "join" => conn[p].read = tray[conn[p].on].findings

KeptInv == ProposalInv /\ FindingKept /\ JoinsReadWhatStands

\* A session that opens.
LEMMA KeptOpening ==
  ASSUME KeptInv, NEW s \in Connections, NEW c, Opens(s, c),
         c.act = "join" => c.read = tray[c.on].findings, UNCHANGED <<tray, accepted>>
  PROVE  FindingKept' /\ JoinsReadWhatStands'
  <1>1. \A t \in Connections : conn'[t] = IF t = s THEN c ELSE conn[t]
    BY DEF KeptInv, ProposalInv, ProposalTypeOK, Opens
  <1> QED BY <1>1 DEF KeptInv, FindingKept, JoinsReadWhatStands, Connections

\* A session that ends, over rows that keep their findings.
LEMMA KeptEnding ==
  ASSUME KeptInv, NEW s \in Connections, Ends(s), DOMAIN tray \subseteq DOMAIN tray',
         \A i \in DOMAIN tray : tray'[i].findings = tray[i].findings,
         \A f \in accepted' \ accepted : \E i \in DOMAIN tray' : f \in tray'[i].findings
  PROVE  FindingKept' /\ JoinsReadWhatStands'
  <1>1. \A t \in Connections : conn'[t] = conn[t] \/ conn'[t].act # "join"
    BY DEF KeptInv, ProposalInv, ProposalTypeOK, Ends, NotConnected
  <1>2. FindingKept'
    BY DEF KeptInv, FindingKept
  <1>3. ASSUME NEW p \in Phones, conn'[p].act = "join"
        PROVE  conn'[p].read = tray'[conn'[p].on].findings
    <2>1. conn'[p] = conn[p] /\ conn[p].on \in DOMAIN tray
      BY <1>1, <1>3 DEF KeptInv, ProposalInv, ConnectionsPoint, PointsAt, Connections
    <2> QED BY <1>3, <2>1 DEF KeptInv, JoinsReadWhatStands
  <1> QED BY <1>2, <1>3 DEF JoinsReadWhatStands

LEMMA KeptByPhones ==
  ASSUME OnePhone, KeptInv, NEW p \in Phones, FindingBegin(p) \/ RaiseCommit(p) \/ JoinCommit(p)
  PROVE  FindingKept' /\ JoinsReadWhatStands'
  <1> USE TrayIndexed
  <1>0. ProposalTypeOK /\ p \in Connections
    BY DEF KeptInv, ProposalInv, Connections
  <1>1. CASE FindingBegin(p)
    <2>1. PICK c : Opens(p, c) /\ (c.act = "join" => c.read = tray[c.on].findings)
      <3>1. PICK f \in Seen :
              \/ Opens(p, [act |-> "raise", finding |-> f])
              \/ \E i \in OpenRows :
                   Opens(p, [act |-> "join", finding |-> f, on |-> i, read |-> tray[i].findings])
        BY <1>1 DEF FindingBegin
      <3>2. CASE Opens(p, [act |-> "raise", finding |-> f])
        <4> DEFINE c == [act |-> "raise", finding |-> f]
        <4>1. Opens(p, c) /\ c.act # "join"
          BY <3>2
        <4> QED BY <4>1
      <3>3. ASSUME NEW i \in OpenRows,
                   Opens(p, [act |-> "join", finding |-> f, on |-> i, read |-> tray[i].findings])
            PROVE  \E c : Opens(p, c) /\ (c.act = "join" => c.read = tray[c.on].findings)
        <4> DEFINE c == [act |-> "join", finding |-> f, on |-> i, read |-> tray[i].findings]
        <4>1. Opens(p, c) /\ c.read = tray[c.on].findings
          BY <3>3
        <4> QED BY <4>1
      <3> QED BY <3>1, <3>2, <3>3
    <2> QED BY <1>0, <1>1, <2>1, KeptOpening DEF FindingBegin
  <1>2. CASE RaiseCommit(p)
    <2> DEFINE f == conn[p].finding
               row == NewRow(AboutOf[f], {f})
    <2>1. /\ tray' = Append(tray, row) /\ row.findings = {f} /\ accepted' = accepted \cup {f}
          /\ Ends(p)
      BY <1>2 DEF RaiseCommit, NewRow
    <2> HIDE DEF row, f
    <2>2. /\ DOMAIN tray' = 1 .. Len(tray) + 1 /\ tray'[Len(tray) + 1] = row
          /\ \A i \in DOMAIN tray : tray'[i] = tray[i]
      BY <1>0, <2>1 DEF ProposalTypeOK
    <2>3. DOMAIN tray \subseteq DOMAIN tray' /\ Len(tray) + 1 \in DOMAIN tray'
      BY <1>0, <2>2
    <2> QED BY <1>0, <2>1, <2>2, <2>3, KeptEnding
  <1>3. CASE JoinCommit(p)
    <2> DEFINE f == conn[p].finding
               i == conn[p].on
    <2>1. i \in DOMAIN tray /\ conn[p].read = tray[i].findings
      BY <1>0, <1>3 DEF KeptInv, ProposalInv, ConnectionsPoint, PointsAt, JoinCommit,
                        JoinsReadWhatStands
    <2>2. /\ DOMAIN tray' = DOMAIN tray
          /\ \A j \in DOMAIN tray :
               tray'[j].findings = IF j = i THEN tray[i].findings \cup {f} ELSE tray[j].findings
      BY <1>0, <1>3, <2>1 DEF JoinCommit, Joined, ProposalRow
    <2>3. accepted' = accepted \cup {f} /\ conn' = [conn EXCEPT ![p] = NotConnected]
      BY <1>3 DEF JoinCommit, Ends
    <2> HIDE DEF f, i
    <2>4. FindingKept'
      BY <2>1, <2>2, <2>3 DEF KeptInv, FindingKept
    <2>5. \A q \in Phones : conn'[q].act # "join"
      BY <1>0, <2>3 DEF OnePhone, ProposalTypeOK, NotConnected
    <2> QED BY <2>4, <2>5 DEF JoinsReadWhatStands
  <1> QED BY <1>1, <1>2, <1>3

LEMMA KeptByPasses ==
  ASSUME KeptInv, NEW p \in Passes, PassBegin(p) \/ PassCommit(p)
  PROVE  FindingKept' /\ JoinsReadWhatStands'
  <1>0. ProposalTypeOK /\ p \in Connections
    BY DEF KeptInv, ProposalInv, Connections
  <1>1. CASE PassBegin(p)
    <2>1. PICK first : Opens(p, [act |-> "pass", first |-> first])
      BY <1>1, Zenon DEF PassBegin
    <2>2. [act |-> "pass", first |-> first].act # "join" /\ UNCHANGED <<tray, accepted>>
      BY <1>1 DEF PassBegin
    <2> QED BY <1>0, <2>1, <2>2, KeptOpening
  <1>2. CASE PassCommit(p)
    <2> DEFINE first == conn[p].first
    <2>1. PICK rows \in [1 .. Cardinality(DOMAIN first) -> DOMAIN first] :
            tray' = tray \o [i \in DOMAIN rows |-> NewRow(rows[i], {first[rows[i]]})]
      BY <1>2 DEF PassCommit
    <2> DEFINE new == [i \in DOMAIN rows |-> NewRow(rows[i], {first[rows[i]]})]
    <2>2. conn[p] \in Connection /\ conn[p].act = "pass"
      BY <1>0, <1>2 DEF ProposalTypeOK, PassCommit
    <2>3. PICK news \in SUBSET (Assets \X Defects) : first \in [news -> Captured]
      <3>1. \E news \in SUBSET (Assets \X Defects) :
              conn[p] \in [act: {"pass"}, first: [news -> Captured]]
        BY <2>2, ConnectionOfAct, Zenon
      <3> QED BY <3>1
    <2>4. Cardinality(news) \in Nat /\ DOMAIN first = news
      BY <2>3, CatalogueIsFinite, FS_Subset, FS_CardinalityType
    <2>5. DOMAIN new = 1 .. Cardinality(news)
      BY <2>1, <2>4
    <2>6. Len(new) = Cardinality(news)
      BY <2>4, <2>5
    <2>7. tray' = tray \o new
      BY <2>1
    <2> HIDE DEF new
    <2>8. /\ DOMAIN tray' = 1 .. Len(tray) + Cardinality(news)
          /\ \A i \in 1 .. Len(tray) : tray'[i] = tray[i]
      BY <1>0, <2>4, <2>6, <2>7, TrayIndexed
    <2>9. DOMAIN tray \subseteq DOMAIN tray' /\ \A i \in DOMAIN tray : tray'[i] = tray[i]
      BY <1>0, <2>4, <2>8, TrayIndexed
    <2> QED BY <1>0, <1>2, <2>9, KeptEnding DEF PassCommit
  <1> QED BY <1>1, <1>2

LEMMA KeptByDeciders ==
  ASSUME KeptInv, NEW d \in Deciders,
         \/ ApproveBegin(d) \/ RejectBegin(d) \/ MergeBegin(d)
         \/ ApproveCommit(d) \/ RejectCommit(d) \/ MergeCommit(d)
  PROVE  FindingKept' /\ JoinsReadWhatStands'
  <1>0. ProposalTypeOK /\ d \in Connections
    BY DEF KeptInv, ProposalInv, Connections
  <1>1. CASE ApproveBegin(d) \/ RejectBegin(d)
    <2>1. PICK act \in {"aprobada", "rechazada"}, i \in OpenRows : Opens(d, [act |-> act, on |-> i])
      BY <1>1 DEF ApproveBegin, RejectBegin, DecideBegin
    <2>2. [act |-> act, on |-> i].act # "join" /\ UNCHANGED <<tray, accepted>>
      BY <1>1 DEF ApproveBegin, RejectBegin
    <2> QED BY <1>0, <2>1, <2>2, KeptOpening
  <1>2. CASE MergeBegin(d)
    <2>1. PICK i \in OpenRows, o \in DOMAIN work :
            Opens(d, [act |-> "fusionada", on |-> i, into |-> o, read |-> work[o].says])
      BY <1>2 DEF MergeBegin
    <2> DEFINE c == [act |-> "fusionada", on |-> i, into |-> o, read |-> work[o].says]
    <2>2. c.act # "join" /\ Opens(d, c) /\ UNCHANGED <<tray, accepted>>
      BY <1>2, <2>1 DEF MergeBegin
    <2> HIDE DEF c
    <2> QED BY <1>0, <2>2, KeptOpening
  <1>3. CASE ApproveCommit(d) \/ RejectCommit(d) \/ MergeCommit(d)
    <2>1. conn[d].on \in DOMAIN tray /\ Ends(d) /\ accepted' = accepted
      BY <1>0, <1>3 DEF KeptInv, ProposalInv, ConnectionsPoint, PointsAt,
                        ApproveCommit, RejectCommit, MergeCommit
    <2>2. DOMAIN tray' = DOMAIN tray /\ \A i \in DOMAIN tray : tray'[i].findings = tray[i].findings
      <3>1. tray[conn[d].on] \in ProposalRow
        BY <1>0, <2>1, TrayIndexed
      <3>2. CASE ApproveCommit(d)
        BY <1>0, <2>1, <3>1, <3>2, TrayIndexed DEF ApproveCommit, Approved, ProposalRow
      <3>3. CASE RejectCommit(d)
        BY <1>0, <2>1, <3>1, <3>3, TrayIndexed DEF RejectCommit, ProposalRow
      <3>4. CASE MergeCommit(d)
        BY <1>0, <2>1, <3>1, <3>4, TrayIndexed DEF MergeCommit, ProposalRow
      <3> QED BY <1>3, <3>2, <3>3, <3>4
    <2> QED BY <1>0, <2>1, <2>2, KeptEnding
  <1> QED BY <1>1, <1>2, <1>3

\* What a phone was told was taken is in a proposal, with one phone at a time.
THEOREM FindingsAlwaysKept == OnePhone /\ ProposalSpec => []FindingKept
  <1> SUFFICES ASSUME OnePhone PROVE ProposalSpec => []FindingKept
    OBVIOUS
  <1>1. ProposalInit /\ ProposalInv => KeptInv
    BY DEF ProposalInit, KeptInv, FindingKept, JoinsReadWhatStands, Connections, NotConnected
  <1>2. KeptInv /\ ProposalInv' /\ [ProposalNext]_prvars => KeptInv'
    <2> SUFFICES ASSUME KeptInv, ProposalInv', [ProposalNext]_prvars PROVE KeptInv'
      OBVIOUS
    <2>1. ASSUME NEW s \in Connections, SessionFails(s)
          PROVE  FindingKept' /\ JoinsReadWhatStands'
      BY <2>1, KeptEnding DEF SessionFails
    <2>2. CASE UNCHANGED <<tray, conn, accepted>>
      BY <2>2 DEF KeptInv, FindingKept, JoinsReadWhatStands
    <2>3. CASE ProposalNext
      <3>1. \/ \E s \in Connections : SessionFails(s)
            \/ \E p \in Passes : PassBegin(p) \/ PassCommit(p)
            \/ \E p \in Phones : FindingBegin(p) \/ RaiseCommit(p) \/ JoinCommit(p)
            \/ \E d \in Deciders : \/ ApproveBegin(d) \/ RejectBegin(d) \/ MergeBegin(d)
                                  \/ ApproveCommit(d) \/ RejectCommit(d) \/ MergeCommit(d)
            \/ UNCHANGED <<tray, conn, accepted>>
        BY <2>3 DEF ProposalNext, CaptureArrives, WorkEnds
      <3>2. \/ FindingKept' /\ JoinsReadWhatStands'
            \/ UNCHANGED <<tray, conn, accepted>>
        BY <3>1, <2>1, KeptByPhones, KeptByPasses, KeptByDeciders
      <3> QED BY <3>2, <2>2 DEF KeptInv
    <2>4. CASE UNCHANGED prvars
      BY <2>2, <2>4 DEF prvars
    <2> QED BY <2>3, <2>4
  <1>3. KeptInv => FindingKept
    BY DEF KeptInv
  <1> QED BY <1>1, <1>2, <1>3, ProposalAlways, PTL DEF ProposalSpec

-----------------------------------------------------------------------------
(****************************************************************************)
(* INBOUND IMPORTS: one order per reference, and its row                    *)
(****************************************************************************)

ImportRow ==
  [at: {"look", "publish", "settle", "raised"}, connector: Connector, unit: Boards,
   page: Seq(Refs), left: Seq(Refs), rows: [Key -> InboundRow \cup {Nothing}],
   made: SUBSET Job, known: BOOLEAN]

\* An order of the unit for the reference, among these.
HasJob(these, unit, ref) == \E j \in these : j.unit = unit /\ j.ref = ref

\* The row of a key names an order, among these, of the key's reference.
Explained(these, row, k) == \E j \in these : row.order = <<j.unit, j.ref>> /\ j.ref = k[2]

KeyAt(c) == <<c.connector, Head(c.left)>>

\* What an open import has written and read.
ImportSound(c) ==
  /\ c.at \in {"publish", "settle"} => c.left # <<>>
  /\ c.at = "publish" => IF c.known THEN c.rows[KeyAt(c)] # Nothing \/ inbound[KeyAt(c)] # Nothing
                         ELSE c.rows[KeyAt(c)] = Nothing
  /\ c.at = "settle" =>
       /\ c.rows[KeyAt(c)] # Nothing \/ inbound[KeyAt(c)] # Nothing
       /\ IF c.known THEN HasJob(jobs \cup c.made, c.unit, Head(c.left))
          ELSE ~HasJob(c.made, c.unit, Head(c.left))
  /\ c.at # "raised" => \A k \in Key : c.rows[k] # Nothing =>
       Explained(jobs \cup c.made, c.rows[k], k) \/ (c.at = "settle" /\ k = KeyAt(c))
  /\ \A m \in c.made : m.unit = c.unit /\ c.rows[<<m.from, m.ref>>] # Nothing
  /\ \A m \in c.made : ~HasJob(jobs \cup (c.made \ {m}), m.unit, m.ref)
  /\ \A n \in DOMAIN c.page :
       HasJob(jobs \cup c.made, c.unit, c.page[n]) \/ \E m \in DOMAIN c.left : c.left[m] = c.page[n]

\* No two open imports make the same order.
ImportsApart ==
  \A i, k \in Importers : i # k /\ import[i] # NoImport /\ import[k] # NoImport =>
    \A m \in import[i].made : ~HasJob(import[k].made, m.unit, m.ref)

LedgerSound ==
  /\ \A j \in jobs : ~HasJob(jobs \ {j}, j.unit, j.ref)
  /\ \A j \in jobs : inbound[<<j.from, j.ref>>] # Nothing
  /\ \A k \in ItemKey : inbound[k] # Nothing => Explained(jobs, inbound[k], k)
  /\ \A a \in replied : HasJob(jobs, a.unit, a.ref)

IntakeInv ==
  /\ IntakeTypeOK
  /\ import \in [Importers -> {NoImport} \cup ImportRow]
  /\ \A i \in Importers : import[i] # NoImport => ImportSound(import[i])
  /\ ImportsApart
  /\ LedgerSound

LEMMA ImportOpen ==
  ASSUME NEW c \in ImportRow
  PROVE  c # NoImport
  BY DEF ImportRow, NoImport

LEMMA HeadsAndTails ==
  ASSUME NEW s \in Seq(Refs), s # <<>>
  PROVE  /\ Head(s) \in Refs /\ Tail(s) \in Seq(Refs)
         /\ \A m \in DOMAIN s : s[m] = Head(s) \/ \E n \in DOMAIN Tail(s) : Tail(s)[n] = s[m]
  <1>1. /\ Head(s) \in Refs /\ Tail(s) \in Seq(Refs) /\ Len(s) \in Nat \ {0}
        /\ Len(Tail(s)) = Len(s) - 1 /\ \A n \in 1 .. Len(Tail(s)) : Tail(s)[n] = s[n + 1]
        /\ DOMAIN s = 1 .. Len(s) /\ DOMAIN Tail(s) = 1 .. Len(Tail(s)) /\ Head(s) = s[1]
    BY HeadTailProperties, LenProperties, EmptySeq
  <1>2. ASSUME NEW m \in DOMAIN s, m # 1
        PROVE  m - 1 \in DOMAIN Tail(s) /\ Tail(s)[m - 1] = s[m]
    BY <1>1, <1>2
  <1> QED BY <1>1, <1>2

\* An import takes its next step; nothing is committed.
LEMMA ImportMoves ==
  ASSUME IntakeInv, NEW i \in Importers, NEW c \in ImportRow, ImportSound(c),
         import' = [import EXCEPT ![i] = c], UNCHANGED <<jobs, inbound, replied>>,
         begun' \in 0 .. MaxImports,
         \A k \in Importers \ {i} : import[k] # NoImport =>
           \A m \in c.made : ~HasJob(import[k].made, m.unit, m.ref)
  PROVE  IntakeInv'
  <1>1. IntakeTypeOK'
    BY DEF IntakeInv, IntakeTypeOK
  <1>2. /\ import' \in [Importers -> {NoImport} \cup ImportRow]
        /\ \A k \in Importers : import'[k] = IF k = i THEN c ELSE import[k]
    BY DEF IntakeInv
  <1>3. ASSUME NEW k \in Importers, import'[k] # NoImport
        PROVE  ImportSound(import[k])'
    <2>1. CASE k = i
      <3>1. ImportSound(c)'
        BY DEF ImportSound
      <3>2. import'[k] = c
        BY <1>2, <2>1
      <3> QED BY <3>1, <3>2, Zenon DEF ImportSound, KeyAt
    <2>2. CASE k # i
      <3>1. import'[k] = import[k] /\ jobs' = jobs /\ inbound' = inbound
        BY <1>2, <2>2
      <3>2. ImportSound(import[k])
        BY <1>3, <3>1 DEF IntakeInv
      <3> QED BY <3>1, <3>2, Zenon DEF ImportSound, KeyAt
    <2> QED BY <2>1, <2>2
  <1>4. ImportsApart'
    BY <1>2 DEF IntakeInv, ImportsApart, HasJob
  <1>5. LedgerSound'
    BY DEF IntakeInv, LedgerSound
  <1> QED BY <1>1, <1>2, <1>3, <1>4, <1>5 DEF IntakeInv

\* An import that is open, by what it is at.
LEMMA ImportAt ==
  ASSUME IntakeInv, NEW i \in Importers, import[i].at # "none"
  PROVE  import[i] \in ImportRow /\ import[i] # NoImport /\ ImportSound(import[i])
  BY DEF IntakeInv, NoImport

LEMMA ImportsBegin ==
  ASSUME IntakeInv, NEW i \in Importers, ImportBegin(i)
  PROVE  IntakeInv'
  <1>1. PICK connector \in Connector, unit \in Boards, page \in Pages :
          import' = [import EXCEPT ![i] =
            [at |-> "look", connector |-> connector, unit |-> unit, page |-> page,
             left |-> page, rows |-> [k \in Key |-> Nothing], made |-> {}, known |-> FALSE]]
    BY DEF ImportBegin
  <1> DEFINE c == [at |-> "look", connector |-> connector, unit |-> unit, page |-> page,
             left |-> page, rows |-> [k \in Key |-> Nothing], made |-> {}, known |-> FALSE]
  <1>2. c \in ImportRow
    BY PagesAreOfRefs DEF ImportRow
  <1>3. /\ c.at = "look" /\ c.left = page /\ c.page = page /\ c.made = {}
        /\ \A k \in Key : c.rows[k] = Nothing
    OBVIOUS
  <1>4. import' = [import EXCEPT ![i] = c]
    BY <1>1
  <1> HIDE DEF c
  <1>5. ImportSound(c)
    BY <1>3, SMT DEF ImportSound
  <1>6. begun' \in 0 .. MaxImports /\ UNCHANGED <<jobs, inbound, replied>>
    BY ImportBound DEF ImportBegin, IntakeInv, IntakeTypeOK
  <1> QED BY <1>2, <1>3, <1>4, <1>5, <1>6, ImportMoves

LEMMA ImportsUnreachable ==
  ASSUME IntakeInv, NEW i \in Importers, ImportUnreachable(i)
  PROVE  IntakeInv'
  <1> DEFINE b == import[i]
             row == [unit |-> b.unit, order |-> Nothing]
             c == [b EXCEPT !.at = "raised", !.rows[<<b.connector, Nothing>>] = row]
  <1>1. b \in ImportRow /\ b # NoImport /\ ImportSound(b)
    BY ImportAt DEF ImportUnreachable
  <1>2. row \in InboundRow
    BY <1>1 DEF ImportRow, InboundRow
  <1>3. /\ c \in ImportRow /\ c.at = "raised" /\ c.left = b.left /\ c.page = b.page
        /\ c.made = b.made /\ c.unit = b.unit
    <2> HIDE DEF row
    <2> QED BY <1>1, <1>2 DEF ImportRow
  <1>4. \A k \in Key : b.rows[k] # Nothing => c.rows[k] # Nothing
    <2>1. b.rows \in [Key -> InboundRow \cup {Nothing}] /\ row # Nothing
      BY <1>1, <1>2, NothingIsNothing DEF ImportRow
    <2>2. c.rows = [b.rows EXCEPT ![<<b.connector, Nothing>>] = row]
      BY <1>1 DEF ImportRow
    <2> HIDE DEF c, row
    <2> QED BY <2>1, <2>2
  <1>5. import' = [import EXCEPT ![i] = c]
    BY DEF ImportUnreachable
  <1>6. begun' \in 0 .. MaxImports /\ UNCHANGED <<jobs, inbound, replied>>
    BY DEF ImportUnreachable, IntakeInv, IntakeTypeOK
  <1>7. \A m \in b.made : <<m.from, m.ref>> \in Key
    BY <1>1 DEF ImportRow, Job, Key
  <1> HIDE DEF c
  <1>8. ImportSound(c)
    <2> HIDE DEF b
    <2>1. \A m \in c.made : m.unit = c.unit /\ c.rows[<<m.from, m.ref>>] # Nothing
      <3>1. \A m \in b.made : m.unit = b.unit /\ b.rows[<<m.from, m.ref>>] # Nothing
        BY <1>1, Zenon DEF ImportSound
      <3> QED BY <1>3, <1>4, <1>7, <3>1
    <2>2. \A m \in c.made : ~HasJob(jobs \cup (c.made \ {m}), m.unit, m.ref)
      BY <1>1, <1>3, Zenon DEF ImportSound
    <2>3. \A n \in DOMAIN c.page :
       HasJob(jobs \cup c.made, c.unit, c.page[n]) \/ \E m \in DOMAIN c.left : c.left[m] = c.page[n]
      BY <1>1, <1>3 DEF ImportSound
    <2>4. c.at \notin {"publish", "settle"}
      BY <1>3
    <2> QED BY <1>3, <2>1, <2>2, <2>3, <2>4, SMT DEF ImportSound
  <1>9. \A k \in Importers \ {i} : import[k] # NoImport =>
           \A m \in c.made : ~HasJob(import[k].made, m.unit, m.ref)
    BY <1>1, <1>3 DEF IntakeInv, ImportsApart
  <1> QED BY <1>3, <1>5, <1>6, <1>8, <1>9, ImportMoves

LEMMA PublishesLook ==
  ASSUME IntakeInv, NEW i \in Importers, PublishLook(i)
  PROVE  IntakeInv'
  <1> DEFINE b == import[i]
             c == [b EXCEPT !.at = "publish", !.known = Sees(i, KeyAt(b)) # Nothing]
  <1>1. b \in ImportRow /\ b # NoImport /\ ImportSound(b) /\ b.at = "look" /\ b.left # <<>>
    BY ImportAt DEF PublishLook
  <1>2. /\ c \in ImportRow /\ c.at = "publish" /\ c.left = b.left /\ c.page = b.page
        /\ c.made = b.made /\ c.unit = b.unit /\ c.rows = b.rows /\ c.connector = b.connector
        /\ c.known = (Sees(i, KeyAt(b)) # Nothing)
    BY <1>1 DEF ImportRow
  <1>3. import' = [import EXCEPT ![i] = c]
    BY DEF PublishLook, KeyAt
  <1>4. begun' \in 0 .. MaxImports /\ UNCHANGED <<jobs, inbound, replied>>
    BY DEF PublishLook, IntakeInv, IntakeTypeOK
  <1> HIDE DEF c
  <1>5. KeyAt(c) = KeyAt(b)
    BY <1>2 DEF KeyAt
  <1>6. IF c.known THEN c.rows[KeyAt(c)] # Nothing \/ inbound[KeyAt(c)] # Nothing
        ELSE c.rows[KeyAt(c)] = Nothing
    <2>1. CASE Sees(i, KeyAt(b)) # Nothing
      <3>1. c.known = TRUE
        BY <1>2, <2>1, Zenon
      <3>2. c.rows[KeyAt(c)] # Nothing \/ inbound[KeyAt(c)] # Nothing
        BY <1>2, <1>5, <2>1 DEF Sees
      <3> QED BY <3>1, <3>2
    <2>2. CASE Sees(i, KeyAt(b)) = Nothing
      <3>1. c.known = FALSE
        BY <1>2, <2>2, Zenon
      <3>2. c.rows[KeyAt(c)] = Nothing
        BY <1>2, <1>5, <2>2 DEF Sees
      <3> QED BY <3>1, <3>2
    <2> QED BY <2>1, <2>2
  <1>7. ImportSound(c)
    BY <1>1, <1>2, <1>6, Zenon DEF ImportSound
  <1>8. \A k \in Importers \ {i} : import[k] # NoImport =>
           \A m \in c.made : ~HasJob(import[k].made, m.unit, m.ref)
    BY <1>1, <1>2 DEF IntakeInv, ImportsApart
  <1> QED BY <1>2, <1>3, <1>4, <1>7, <1>8, ImportMoves

LEMMA PublishesFlush ==
  ASSUME IntakeInv, NEW i \in Importers, PublishFlush(i)
  PROVE  IntakeInv'
  <1> DEFINE b == import[i]
             key == KeyAt(b)
             row == IF b.known THEN b.rows[key] ELSE [unit |-> b.unit, order |-> Nothing]
             c == [b EXCEPT !.at = "settle", !.rows[key] = row,
                            !.known = SeesJob(i, b.unit, Head(b.left))]
  <1>1. b \in ImportRow /\ b # NoImport /\ ImportSound(b) /\ b.at = "publish"
    BY ImportAt DEF PublishFlush
  <1>2. b.left # <<>> /\ key \in Key /\ b.rows \in [Key -> InboundRow \cup {Nothing}]
    <2>1. b.left # <<>>
      BY <1>1 DEF ImportSound
    <2> QED BY <1>1, <2>1, HeadsAndTails DEF KeyAt, Key, ImportRow
  <1>3. row \in InboundRow \cup {Nothing}
    BY <1>1, <1>2 DEF ImportRow, InboundRow
  <1>4. SeesJob(i, b.unit, Head(b.left)) = HasJob(jobs \cup b.made, b.unit, Head(b.left))
    BY Zenon DEF SeesJob, HasJob
  <1>5. /\ c \in ImportRow /\ c.at = "settle" /\ c.left = b.left /\ c.page = b.page
        /\ c.made = b.made /\ c.unit = b.unit /\ c.connector = b.connector
        /\ c.rows = [b.rows EXCEPT ![key] = row]
        /\ c.known = SeesJob(i, b.unit, Head(b.left))
    <2>1. SeesJob(i, b.unit, Head(b.left)) \in BOOLEAN
      BY DEF SeesJob
    <2> HIDE DEF row, key
    <2> QED BY <1>1, <1>2, <1>3, <2>1 DEF ImportRow
  <1>6. import' = [import EXCEPT ![i] = c]
    BY DEF PublishFlush, KeyAt
  <1>7. begun' \in 0 .. MaxImports /\ UNCHANGED <<jobs, inbound, replied>>
    BY DEF PublishFlush, IntakeInv, IntakeTypeOK
  <1>8. row # Nothing \/ (inbound[key] # Nothing /\ row = b.rows[key])
    <2>1. CASE b.known
      BY <1>1, <2>1 DEF ImportSound
    <2>2. CASE ~b.known
      <3>1. row \in InboundRow
        BY <1>1, <2>2 DEF ImportRow, InboundRow
      <3> QED BY <3>1, NothingIsNothing
    <2> QED BY <2>1, <2>2
  <1>9. \A m \in b.made : <<m.from, m.ref>> \in Key
    BY <1>1 DEF ImportRow, Job, Key
  <1>10. b.known = FALSE => b.rows[key] = Nothing
    BY <1>1, Zenon DEF ImportSound
  <1>11. b.known \in BOOLEAN
    BY <1>1 DEF ImportRow
  <1>12. \A k \in Key :
           /\ b.rows[k] # Nothing => c.rows[k] # Nothing
           /\ k # key => c.rows[k] = b.rows[k]
    <2> HIDE DEF c, key
    <2> QED BY <1>2, <1>5, <1>8, <1>10, <1>11
  <1> HIDE DEF c
  <1>13. KeyAt(c) = key
    BY <1>5 DEF KeyAt
  <1>14. IF c.known THEN HasJob(jobs \cup c.made, c.unit, Head(c.left))
         ELSE ~HasJob(c.made, c.unit, Head(c.left))
    <2>1. CASE SeesJob(i, b.unit, Head(b.left))
      <3>1. c.known = TRUE
        BY <1>5, <2>1, Zenon
      <3> QED BY <1>4, <1>5, <2>1, <3>1
    <2>2. CASE ~SeesJob(i, b.unit, Head(b.left))
      <3>1. c.known = FALSE
        BY <1>5, <2>2, Zenon DEF SeesJob
      <3>2. ~HasJob(b.made, b.unit, Head(b.left))
        BY <1>4, <2>2 DEF HasJob
      <3> QED BY <1>5, <3>1, <3>2
    <2> QED BY <2>1, <2>2
  <1>15. c.rows[KeyAt(c)] # Nothing \/ inbound[KeyAt(c)] # Nothing
    <2> HIDE DEF key, row
    <2> QED BY <1>2, <1>5, <1>8, <1>13
  <1>16. \A k \in Key : b.rows[k] # Nothing => c.rows[k] # Nothing
    BY <1>12, Zenon
  <1>17. ImportSound(c)
    <2>1. \A k \in Key : c.rows[k] # Nothing =>
            Explained(jobs \cup c.made, c.rows[k], k) \/ (c.at = "settle" /\ k = KeyAt(c))
      <3> HIDE DEF key
      <3>1. \A k \in Key : b.rows[k] # Nothing => Explained(jobs \cup b.made, b.rows[k], k)
        BY <1>1, Zenon DEF ImportSound
      <3> QED BY <1>5, <1>12, <1>13, <3>1
    <2> HIDE DEF b
    <2>2. \A m \in c.made : m.unit = c.unit /\ c.rows[<<m.from, m.ref>>] # Nothing
      <3>1. \A m \in b.made : m.unit = b.unit /\ b.rows[<<m.from, m.ref>>] # Nothing
        BY <1>1, Zenon DEF ImportSound
      <3>2. c.made = b.made /\ c.unit = b.unit
        BY <1>5
      <3> QED BY <1>9, <1>16, <3>1, <3>2
    <2>3. \A m \in c.made : ~HasJob(jobs \cup (c.made \ {m}), m.unit, m.ref)
      BY <1>1, <1>5, Zenon DEF ImportSound
    <2>4. \A n \in DOMAIN c.page :
       HasJob(jobs \cup c.made, c.unit, c.page[n]) \/ \E m \in DOMAIN c.left : c.left[m] = c.page[n]
      <3>1. c.made = b.made /\ c.unit = b.unit /\ c.left = b.left /\ c.page = b.page
        BY <1>5
      <3> QED BY <1>1, <3>1 DEF ImportSound
    <2>5. c.at = "settle" /\ c.left # <<>>
      BY <1>2, <1>5
    <2> QED BY <1>14, <1>15, <2>1, <2>2, <2>3, <2>4, <2>5, Zenon DEF ImportSound
  <1>18. \A k \in Importers \ {i} : import[k] # NoImport =>
           \A m \in c.made : ~HasJob(import[k].made, m.unit, m.ref)
    BY <1>1, <1>5 DEF IntakeInv, ImportsApart
  <1> QED BY <1>5, <1>6, <1>7, <1>17, <1>18, ImportMoves

LEMMA ItemSettles ==
  ASSUME IntakeInv, NEW i \in Importers, Settle(i)
  PROVE  IntakeInv'
  <1> DEFINE b == import[i]
             key == KeyAt(b)
             ref == Head(b.left)
             order == [unit |-> b.unit, ref |-> ref, from |-> b.connector]
             made == IF b.known THEN b.made ELSE b.made \cup {order}
             row == [unit |-> Sees(i, key).unit, order |-> <<b.unit, ref>>]
             c == [b EXCEPT !.at = "look", !.left = Tail(b.left), !.made = made, !.rows[key] = row]
  <1>1. b \in ImportRow /\ b # NoImport /\ ImportSound(b) /\ b.at = "settle"
    BY ImportAt DEF Settle
  <1>2. b.left # <<>> /\ b.left \in Seq(Refs)
    BY <1>1 DEF ImportSound, ImportRow
  <1>3. /\ key \in Key /\ key = <<b.connector, ref>> /\ ref \in Refs /\ Tail(b.left) \in Seq(Refs)
        /\ b.rows \in [Key -> InboundRow \cup {Nothing}] /\ b.unit \in Boards
        /\ b.connector \in Connector /\ b.made \in SUBSET Job /\ b.known \in BOOLEAN
    BY <1>1, <1>2, HeadsAndTails DEF KeyAt, Key, ImportRow
  <1>4. row \in InboundRow /\ row.order = <<b.unit, ref>> /\ row # Nothing
    <2>1. Sees(i, key) \in InboundRow
      <3>1. b.rows[key] # Nothing \/ inbound[key] # Nothing
        BY <1>1, Zenon DEF ImportSound
      <3>2. inbound[key] \in InboundRow \cup {Nothing}
        BY <1>3 DEF IntakeInv, IntakeTypeOK
      <3> QED BY <1>3, <3>1, <3>2 DEF Sees
    <2>2. Sees(i, key).unit \in Boards
      BY <2>1 DEF InboundRow
    <2>3. row \in InboundRow /\ row.order = <<b.unit, ref>>
      <3> HIDE DEF key, ref
      <3> QED BY <1>3, <2>2 DEF InboundRow
    <2> QED BY <2>3, NothingIsNothing
  <1>5. order \in Job /\ order.unit = b.unit /\ order.ref = ref /\ order.from = b.connector
    <2> HIDE DEF ref
    <2> QED BY <1>3 DEF Job
  <1>6. made \in SUBSET Job /\ b.made \subseteq made
    BY <1>3, <1>5
  <1>7. /\ c \in ImportRow /\ c.at = "look" /\ c.left = Tail(b.left) /\ c.page = b.page
        /\ c.made = made /\ c.unit = b.unit /\ c.rows = [b.rows EXCEPT ![key] = row]
    <2> HIDE DEF row, key, made
    <2> QED BY <1>1, <1>3, <1>4, <1>6 DEF ImportRow
  <1>8. import' = [import EXCEPT ![i] = c]
    <2>1. import' = [import EXCEPT
            ![i].at = "look",
            ![i].left = Tail(@),
            ![i].made = IF import[i].known THEN @ ELSE @ \cup {order},
            ![i].rows[key] = row]
      BY Zenon DEF Settle, KeyAt
    <2>2. import \in [Importers -> ImportRow \cup {NoImport}] /\ import[i] \in ImportRow
      BY <1>1 DEF IntakeInv
    <2> HIDE DEF order, row, key, ref
    <2> QED BY <2>1, <2>2 DEF ImportRow
  <1>9. begun' \in 0 .. MaxImports /\ UNCHANGED <<jobs, inbound, replied>>
    BY DEF Settle, IntakeInv, IntakeTypeOK
  <1>10. c.rows[key] = row /\ \A k \in Key : k # key => c.rows[k] = b.rows[k]
    <2> HIDE DEF c, key, row
    <2> QED BY <1>3, <1>7
  <1>11. ~b.known => ~HasJob(jobs \cup b.made, b.unit, ref)
    <2>1. ASSUME ~b.known
          PROVE  ~HasJob(b.made, b.unit, ref)
      BY <1>1, <2>1, Zenon DEF ImportSound
    <2>2. ASSUME ~b.known
          PROVE  MayCreate(i, b.unit, ref)
      BY <2>2 DEF Settle
    <2> QED BY <2>1, <2>2 DEF MayCreate, HasJob
  <1>12. HasJob(jobs \cup made, b.unit, ref)
    <2>1. CASE b.known
      <3>1. HasJob(jobs \cup b.made, b.unit, ref)
        BY <1>1, <2>1, Zenon DEF ImportSound
      <3> QED BY <2>1, <3>1
    <2>2. CASE ~b.known
      <3>1. order \in jobs \cup made
        BY <2>2
      <3> HIDE DEF order, made, ref, b
      <3> QED BY <3>1, <1>5 DEF HasJob
    <2> QED BY <2>1, <2>2
  <1>13. \A m \in made : m \in b.made \/ (~b.known /\ m = order)
    BY <1>3
  <1> HIDE DEF c, row, made, order
  <1>14. ImportSound(c)
    <2>1. \A k \in Key : c.rows[k] # Nothing => Explained(jobs \cup c.made, c.rows[k], k)
      <3> SUFFICES ASSUME NEW k \in Key, c.rows[k] # Nothing
                   PROVE  Explained(jobs \cup c.made, c.rows[k], k)
        OBVIOUS
      <3>1. CASE k = key
        <4>1. PICK j \in jobs \cup made : j.unit = b.unit /\ j.ref = ref
          BY <1>12 DEF HasJob
        <4>2. c.rows[k] = row /\ row.order = <<b.unit, ref>> /\ k[2] = ref
          BY <1>3, <1>4, <1>10, <3>1
        <4> QED BY <1>7, <4>1, <4>2 DEF Explained
      <3>2. CASE k # key
        <4>1. c.rows[k] = b.rows[k]
          BY <1>10, <3>2
        <4>2. Explained(jobs \cup b.made, b.rows[k], k)
          BY <1>1, <3>2, <4>1, Zenon DEF ImportSound
        <4> QED BY <1>6, <1>7, <4>1, <4>2 DEF Explained
      <3> QED BY <3>1, <3>2
    <2>2. \A m \in c.made : m.unit = c.unit /\ c.rows[<<m.from, m.ref>>] # Nothing
      <3> SUFFICES ASSUME NEW m \in made
                   PROVE  m.unit = b.unit /\ c.rows[<<m.from, m.ref>>] # Nothing
        BY <1>7
      <3>1. CASE m \in b.made
        <4>1. m.unit = b.unit /\ b.rows[<<m.from, m.ref>>] # Nothing
          BY <1>1, <3>1, Zenon DEF ImportSound
        <4>2. <<m.from, m.ref>> \in Key
          BY <1>3, <3>1 DEF Job, Key
        <4> QED BY <1>4, <1>10, <4>1, <4>2
      <3>2. CASE m = order
        BY <1>3, <1>4, <1>5, <1>10, <3>2
      <3> QED BY <1>13, <3>1, <3>2
    <2>3. \A m \in c.made : ~HasJob(jobs \cup (c.made \ {m}), m.unit, m.ref)
      <3> SUFFICES ASSUME NEW m \in made, NEW j \in jobs \cup (made \ {m}),
                          j.unit = m.unit, j.ref = m.ref
                   PROVE  FALSE
        BY <1>7 DEF HasJob
      <3>1. CASE m \in b.made /\ j \in jobs \cup (b.made \ {m})
        <4>1. ~HasJob(jobs \cup (b.made \ {m}), m.unit, m.ref)
          BY <1>1, <3>1, Zenon DEF ImportSound
        <4> QED BY <3>1, <4>1 DEF HasJob
      <3>2. CASE ~b.known /\ m = order /\ j \in jobs \cup b.made
        BY <1>5, <1>11, <3>2 DEF HasJob
      <3>3. CASE ~b.known /\ j = order /\ m \in b.made
        BY <1>5, <1>11, <3>3 DEF HasJob
      <3> QED BY <1>13, <3>1, <3>2, <3>3
    <2>4. \A n \in DOMAIN c.page :
       HasJob(jobs \cup c.made, c.unit, c.page[n]) \/ \E m \in DOMAIN c.left : c.left[m] = c.page[n]
      <3> SUFFICES ASSUME NEW n \in DOMAIN b.page
                   PROVE  \/ HasJob(jobs \cup made, b.unit, b.page[n])
                          \/ \E m \in DOMAIN Tail(b.left) : Tail(b.left)[m] = b.page[n]
        BY <1>7
      <3>1. \/ HasJob(jobs \cup b.made, b.unit, b.page[n])
            \/ \E m \in DOMAIN b.left : b.left[m] = b.page[n]
        BY <1>1, Zenon DEF ImportSound
      <3>2. HasJob(jobs \cup b.made, b.unit, b.page[n]) => HasJob(jobs \cup made, b.unit, b.page[n])
        BY <1>6 DEF HasJob
      <3>3. ASSUME NEW m \in DOMAIN b.left, b.left[m] = b.page[n]
            PROVE  \/ b.page[n] = ref
                   \/ \E l \in DOMAIN Tail(b.left) : Tail(b.left)[l] = b.page[n]
        BY <1>2, <3>3, HeadsAndTails
      <3> QED BY <1>12, <3>1, <3>2, <3>3
    <2> QED BY <1>7, <2>1, <2>2, <2>3, <2>4, Zenon DEF ImportSound
  <1>15. ASSUME NEW k \in Importers \ {i}, import[k] # NoImport, NEW m \in c.made
         PROVE  ~HasJob(import[k].made, m.unit, m.ref)
    <2>1. CASE m \in b.made
      BY <1>1, <1>15, <2>1 DEF IntakeInv, ImportsApart
    <2>2. CASE ~b.known /\ m = order
      <3>1. MayCreate(i, b.unit, ref) /\ k \in Others(i)
        BY <1>15, <2>2 DEF Settle, Others
      <3>2. \A j \in import[k].made : ~(j.unit = b.unit /\ j.ref = ref)
        BY <3>1 DEF MayCreate
      <3> QED BY <1>5, <2>2, <3>2 DEF HasJob
    <2> QED BY <1>7, <1>13, <2>1, <2>2
  <1> QED BY <1>7, <1>8, <1>9, <1>14, <1>15, ImportMoves

\* A transaction that ends leaves the others as they were.
LEMMA ImportsCommit ==
  ASSUME IntakeInv, NEW i \in Importers, ImportCommit(i)
  PROVE  IntakeInv'
  <1> DEFINE b == import[i]
  <1>1. b \in ImportRow /\ b # NoImport /\ ImportSound(b) /\ b.at = "look" /\ b.left = <<>>
    BY ImportAt DEF ImportCommit
  <1>2. /\ jobs' = jobs \cup b.made /\ inbound' = Merged(i) /\ begun' = begun
        /\ replied' = replied \cup {[connector |-> b.connector, unit |-> b.unit, ref |-> r] :
                                    r \in {b.page[n] : n \in DOMAIN b.page}}
        /\ \A k \in Importers : import'[k] = IF k = i THEN NoImport ELSE import[k]
        /\ import' \in [Importers -> {NoImport} \cup ImportRow]
    BY DEF ImportCommit, IntakeInv
  <1>3. /\ b.made \in SUBSET Job /\ b.rows \in [Key -> InboundRow \cup {Nothing}]
        /\ b.unit \in Boards /\ b.connector \in Connector /\ b.page \in Seq(Refs)
    BY <1>1 DEF ImportRow
  <1>4. \A k \in Key : inbound'[k] = IF b.rows[k] # Nothing THEN b.rows[k] ELSE inbound[k]
    BY <1>2 DEF Merged
  <1>5. /\ \A k \in Key : b.rows[k] # Nothing => Explained(jobs \cup b.made, b.rows[k], k)
        /\ \A m \in b.made : m.unit = b.unit /\ b.rows[<<m.from, m.ref>>] # Nothing
        /\ \A m \in b.made : ~HasJob(jobs \cup (b.made \ {m}), m.unit, m.ref)
        /\ \A n \in DOMAIN b.page : HasJob(jobs \cup b.made, b.unit, b.page[n])
    <2>1. \A k \in Key : b.rows[k] # Nothing => Explained(jobs \cup b.made, b.rows[k], k)
      BY <1>1, Zenon DEF ImportSound
    <2>2. /\ \A m \in b.made : m.unit = b.unit /\ b.rows[<<m.from, m.ref>>] # Nothing
          /\ \A m \in b.made : ~HasJob(jobs \cup (b.made \ {m}), m.unit, m.ref)
      BY <1>1, Zenon DEF ImportSound
    <2>3. \A n \in DOMAIN b.page : HasJob(jobs \cup b.made, b.unit, b.page[n])
                                 \/ \E m \in DOMAIN b.left : b.left[m] = b.page[n]
      BY <1>1, Zenon DEF ImportSound
    <2>4. DOMAIN b.left = {}
      BY <1>1
    <2> QED BY <2>1, <2>2, <2>3, <2>4
  <1>6. IntakeTypeOK'
    <2>1. inbound' \in [Key -> InboundRow \cup {Nothing}]
      BY <1>2, <1>3 DEF Merged, IntakeInv, IntakeTypeOK
    <2>2. \A n \in DOMAIN b.page : b.page[n] \in Refs
      BY <1>3
    <2>3. \A r \in {b.page[n] : n \in DOMAIN b.page} :
            [connector |-> b.connector, unit |-> b.unit, ref |-> r] \in
              [connector: Connector, unit: Boards, ref: Refs]
      BY <1>3, <2>2
    <2>4. replied' \subseteq [connector: Connector, unit: Boards, ref: Refs]
      <3> HIDE DEF b
      <3> QED BY <1>2, <2>3 DEF IntakeInv, IntakeTypeOK
    <2> QED BY <1>2, <1>3, <2>1, <2>4 DEF IntakeInv, IntakeTypeOK
  <1> HIDE DEF b
  <1>7. LedgerSound'
    <2>1. \A j \in jobs' : ~HasJob(jobs' \ {j}, j.unit, j.ref)
      BY <1>2, <1>5 DEF IntakeInv, LedgerSound, HasJob
    <2>2. ASSUME NEW j \in jobs'
          PROVE  inbound'[<<j.from, j.ref>>] # Nothing
      <3>1. <<j.from, j.ref>> \in Key
        BY <1>2, <1>6 DEF IntakeTypeOK, Job, Key
      <3>2. inbound[<<j.from, j.ref>>] # Nothing \/ b.rows[<<j.from, j.ref>>] # Nothing
        BY <1>2, <1>5 DEF IntakeInv, LedgerSound
      <3> QED BY <1>4, <3>1, <3>2
    <2>3. \A k \in ItemKey : inbound'[k] # Nothing => Explained(jobs', inbound'[k], k)
      <3>1. ItemKey \subseteq Key
        BY DEF ItemKey, Key
      <3> QED BY <1>2, <1>4, <1>5, <3>1 DEF IntakeInv, LedgerSound, Explained
    <2>4. \A a \in replied' : HasJob(jobs', a.unit, a.ref)
      <3> SUFFICES ASSUME NEW a \in replied' PROVE HasJob(jobs', a.unit, a.ref)
        OBVIOUS
      <3>1. CASE a \in replied
        BY <1>2, <3>1 DEF IntakeInv, LedgerSound, HasJob
      <3>2. ASSUME NEW n \in DOMAIN b.page, a.unit = b.unit, a.ref = b.page[n]
            PROVE  HasJob(jobs', a.unit, a.ref)
        BY <1>2, <1>5, <3>2
      <3>3. a \in replied \/ \E n \in DOMAIN b.page : a.unit = b.unit /\ a.ref = b.page[n]
        BY <1>2
      <3> QED BY <3>1, <3>2, <3>3
    <2> QED BY <2>1, <2>2, <2>3, <2>4 DEF LedgerSound
  <1>8. ImportsApart'
    BY <1>2 DEF IntakeInv, ImportsApart
  <1>9. ASSUME NEW k \in Importers, import'[k] # NoImport
        PROVE  ImportSound(import[k])'
    <2> DEFINE c == import[k]
    <2>1. import'[k] = c /\ k # i /\ c # NoImport /\ ImportSound(c)
      BY <1>2, <1>9 DEF IntakeInv
    <2>2. \A m \in c.made : ~HasJob(b.made, m.unit, m.ref)
      BY <1>1, <2>1 DEF IntakeInv, ImportsApart, b
    <2>3. c \in ImportRow
      BY <2>1 DEF IntakeInv
    <2> HIDE DEF c
    <2>4. \A u, r : HasJob(jobs \cup c.made, u, r) => HasJob(jobs' \cup c.made, u, r)
      BY <1>2 DEF HasJob
    <2>5. c.at \in {"publish", "settle"} => c.left # <<>> /\ KeyAt(c) \in Key
      <3>1. c.at \in {"publish", "settle"} => c.left # <<>>
        BY <2>1, Zenon DEF ImportSound
      <3> QED BY <2>3, <3>1, HeadsAndTails DEF KeyAt, Key, ImportRow
    <2>6. \A l \in Key : inbound[l] # Nothing => inbound'[l] # Nothing
      BY <1>4
    <2>7. c.at = "publish" => IF c.known THEN c.rows[KeyAt(c)] # Nothing \/ inbound'[KeyAt(c)] # Nothing
                              ELSE c.rows[KeyAt(c)] = Nothing
      <3> SUFFICES ASSUME c.at = "publish"
                   PROVE  IF c.known THEN c.rows[KeyAt(c)] # Nothing \/ inbound'[KeyAt(c)] # Nothing
                          ELSE c.rows[KeyAt(c)] = Nothing
        OBVIOUS
      <3>1. IF c.known THEN c.rows[KeyAt(c)] # Nothing \/ inbound[KeyAt(c)] # Nothing
            ELSE c.rows[KeyAt(c)] = Nothing
        BY <2>1, Zenon DEF ImportSound
      <3>2. inbound[KeyAt(c)] # Nothing => inbound'[KeyAt(c)] # Nothing
        BY <2>5, <2>6
      <3> QED BY <3>1, <3>2, Zenon
    <2>8. c.at = "settle" =>
            /\ c.rows[KeyAt(c)] # Nothing \/ inbound'[KeyAt(c)] # Nothing
            /\ IF c.known THEN HasJob(jobs' \cup c.made, c.unit, Head(c.left))
               ELSE ~HasJob(c.made, c.unit, Head(c.left))
      <3> SUFFICES ASSUME c.at = "settle"
                   PROVE  /\ c.rows[KeyAt(c)] # Nothing \/ inbound'[KeyAt(c)] # Nothing
                          /\ IF c.known THEN HasJob(jobs' \cup c.made, c.unit, Head(c.left))
                             ELSE ~HasJob(c.made, c.unit, Head(c.left))
        OBVIOUS
      <3>1. /\ c.rows[KeyAt(c)] # Nothing \/ inbound[KeyAt(c)] # Nothing
            /\ IF c.known THEN HasJob(jobs \cup c.made, c.unit, Head(c.left))
               ELSE ~HasJob(c.made, c.unit, Head(c.left))
        BY <2>1, Zenon DEF ImportSound
      <3>2. inbound[KeyAt(c)] # Nothing => inbound'[KeyAt(c)] # Nothing
        BY <2>5, <2>6
      <3> QED BY <2>4, <3>1, <3>2, Zenon
    <2>9. c.at # "raised" => \A l \in Key : c.rows[l] # Nothing =>
            Explained(jobs' \cup c.made, c.rows[l], l) \/ (c.at = "settle" /\ l = KeyAt(c))
      <3>1. c.at # "raised" => \A l \in Key : c.rows[l] # Nothing =>
            Explained(jobs \cup c.made, c.rows[l], l) \/ (c.at = "settle" /\ l = KeyAt(c))
        BY <2>1, Zenon DEF ImportSound
      <3> QED BY <1>2, <3>1 DEF Explained
    <2>10. \A m \in c.made : m.unit = c.unit /\ c.rows[<<m.from, m.ref>>] # Nothing
      BY <2>1, Zenon DEF ImportSound
    <2>11. \A m \in c.made : ~HasJob(jobs' \cup (c.made \ {m}), m.unit, m.ref)
      <3>1. \A m \in c.made : ~HasJob(jobs \cup (c.made \ {m}), m.unit, m.ref)
        BY <2>1, Zenon DEF ImportSound
      <3> QED BY <1>2, <2>2, <3>1 DEF HasJob
    <2>12. \A n \in DOMAIN c.page :
       HasJob(jobs' \cup c.made, c.unit, c.page[n]) \/ \E m \in DOMAIN c.left : c.left[m] = c.page[n]
      <3>1. \A n \in DOMAIN c.page :
       HasJob(jobs \cup c.made, c.unit, c.page[n]) \/ \E m \in DOMAIN c.left : c.left[m] = c.page[n]
        BY <2>1, Zenon DEF ImportSound
      <3> QED BY <2>4, <3>1
    <2>13. c.at \in {"publish", "settle"} => c.left # <<>>
      BY <2>5
    <2> QED BY <2>1, <2>7, <2>8, <2>9, <2>10, <2>11, <2>12, <2>13, Zenon DEF ImportSound, KeyAt
  <1> QED BY <1>2, <1>6, <1>7, <1>8, <1>9 DEF IntakeInv

LEMMA ImportsRollBack ==
  ASSUME IntakeInv, NEW i \in Importers, ImportRollsBack(i)
  PROVE  IntakeInv'
  <1>1. /\ UNCHANGED <<jobs, inbound, begun, replied>>
        /\ \A k \in Importers : import'[k] = IF k = i THEN NoImport ELSE import[k]
        /\ import' \in [Importers -> {NoImport} \cup ImportRow]
    BY DEF ImportRollsBack, IntakeInv
  <1>2. ASSUME NEW k \in Importers, import'[k] # NoImport
        PROVE  ImportSound(import[k])'
    <2>1. import'[k] = import[k] /\ jobs' = jobs /\ inbound' = inbound
      BY <1>1, <1>2
    <2>2. ImportSound(import[k])
      BY <1>2, <2>1 DEF IntakeInv
    <2> QED BY <2>1, <2>2, Zenon DEF ImportSound, KeyAt
  <1>3. IntakeTypeOK' /\ ImportsApart' /\ LedgerSound'
    BY <1>1 DEF IntakeInv, IntakeTypeOK, ImportsApart, LedgerSound
  <1> QED BY <1>1, <1>2, <1>3 DEF IntakeInv

\* One order per reference and unit, each with the row of its item, and the orders
\* an open import made are nobody else's: the invariant of the inbound imports.
THEOREM IntakeAlways == IntakeSpec => []IntakeInv
  <1>1. IntakeInit => IntakeInv
    BY ImportBound DEF IntakeInit, IntakeInv, IntakeTypeOK, ImportsApart, LedgerSound, ItemKey, Key
  <1>2. IntakeInv /\ [IntakeNext]_ivars => IntakeInv'
    <2> SUFFICES ASSUME IntakeInv, [IntakeNext]_ivars PROVE IntakeInv'
      OBVIOUS
    <2>1. CASE UNCHANGED ivars
      <3>1. UNCHANGED <<jobs, inbound, import, begun, replied>>
        BY <2>1 DEF ivars
      <3>2. \A k \in Importers : import'[k] # NoImport => ImportSound(import[k])'
        <4> SUFFICES ASSUME NEW k \in Importers, import'[k] # NoImport PROVE ImportSound(import[k])'
          OBVIOUS
        <4>1. ImportSound(import[k]) /\ import'[k] = import[k]
          BY <3>1 DEF IntakeInv
        <4> QED BY <3>1, <4>1, Zenon DEF ImportSound, KeyAt
      <3> QED BY <3>1, <3>2 DEF IntakeInv, IntakeTypeOK, ImportsApart, LedgerSound
    <2>2. CASE IntakeNext
      BY <2>2, ImportsBegin, ImportsUnreachable, PublishesLook, PublishesFlush, ItemSettles,
         ImportsCommit, ImportsRollBack DEF IntakeNext
    <2> QED BY <2>1, <2>2
  <1> QED BY <1>1, <1>2, PTL DEF IntakeSpec

\* Each order that came from outside has its inbound row, the row of an item has the
\* order of its reference, and an item an import answered for has its order, with any
\* number of imports at once.
THEOREM LedgerAlwaysExplains == IntakeSpec => []LedgerExplains
  <1>1. IntakeInv => LedgerExplains
    <2> SUFFICES ASSUME IntakeInv PROVE LedgerExplains
      OBVIOUS
    <2>1. \A j, k \in jobs : j.unit = k.unit /\ j.ref = k.ref => j = k
      BY DEF IntakeInv, LedgerSound, HasJob
    <2>2. ASSUME NEW j \in jobs
          PROVE  inbound[<<j.from, j.ref>>] # Nothing /\ inbound[<<j.from, j.ref>>].order[2] = j.ref
      <3>1. <<j.from, j.ref>> \in ItemKey
        BY DEF IntakeInv, IntakeTypeOK, Job, ItemKey
      <3>2. inbound[<<j.from, j.ref>>] # Nothing
        BY DEF IntakeInv, LedgerSound
      <3>3. Explained(jobs, inbound[<<j.from, j.ref>>], <<j.from, j.ref>>)
        BY <3>1, <3>2 DEF IntakeInv, LedgerSound
      <3> QED BY <3>2, <3>3 DEF Explained
    <2>3. \A k \in ItemKey : inbound[k] # Nothing =>
            \E j \in jobs : inbound[k].order = <<j.unit, j.ref>> /\ j.ref = k[2]
      BY DEF IntakeInv, LedgerSound, Explained
    <2>4. \A a \in replied : \E j \in jobs : j.unit = a.unit /\ j.ref = a.ref
      BY DEF IntakeInv, LedgerSound, HasJob
    <2> QED BY <2>1, <2>2, <2>3, <2>4 DEF LedgerExplains
  <1> QED BY <1>1, IntakeAlways, PTL

-----------------------------------------------------------------------------
(****************************************************************************)
(* OFFLINE PACKAGES: the version in force serves what it names              *)
(****************************************************************************)

FileRow == Attachment \cup {NoFile}
AttachRow ==
  [act: {"attach"}, order: Works, content: Contents, offline: BOOLEAN, read: FileRow]
WithdrawRow == [act: {"withdraw"}, order: Works, content: Contents]
PackageRow == [manifest: Manifest, superseded: BOOLEAN]
PublisherRow == [act: {"publish"}, manifest: Manifest, previous: Nat]

\* A file a session withdraws is a row, and rows are not deleted.
DrawingSound ==
  /\ drawing \in [Works -> [Contents -> FileRow]]
  /\ clerk \in [Clerks -> AttachRow \cup WithdrawRow \cup {Unopened}]
  /\ \A s \in Clerks : clerk[s] \in WithdrawRow =>
       drawing[clerk[s].order][clerk[s].content] # NoFile

\* The last version, and no other, is in force; a publication read one there was.
VersionsSound ==
  /\ rules \in Rules
  /\ syncable \in SUBSET Works
  /\ package \in Seq(PackageRow)
  /\ publisher \in [Publishers -> PublisherRow \cup {Unopened}]
  /\ \A v \in DOMAIN package : package[v].superseded <=> v # Len(package)
  /\ \A s \in Publishers : publisher[s] # Unopened =>
       publisher[s].previous \in 0 .. Len(package)

PackageInv == DrawingSound /\ VersionsSound

LEMMA PublisherOpen ==
  ASSUME NEW p \in PublisherRow
  PROVE  p # Unopened
  BY DEF PublisherRow, Unopened

LEMMA CurrentIsLast ==
  ASSUME VersionsSound
  PROVE  /\ current = IF package = <<>> THEN {} ELSE {Len(package)}
         /\ Latest(current) = Len(package)
  <1>1. Len(package) \in Nat /\ DOMAIN package = 1 .. Len(package)
    BY DEF VersionsSound
  <1>2. CASE package = <<>>
    <2>1. current = {}
      BY <1>2 DEF current
    <2> QED BY <1>2, <2>1 DEF Latest
  <1>3. CASE package # <<>>
    <2>1. Len(package) \in DOMAIN package
      BY <1>1, <1>3 DEF VersionsSound
    <2>2. current = {Len(package)}
      BY <1>1, <2>1 DEF current, VersionsSound
    <2>3. Max({Len(package)}) = Len(package)
      BY <1>1 DEF Max
    <2> QED BY <1>3, <2>2, <2>3 DEF Latest
  <1> QED BY <1>2, <1>3

LEMMA ManifestTyped ==
  ASSUME VersionsSound
  PROVE  manifest \in Manifest
  <1>1. _package_order_ids \in SUBSET Works
    BY FrontsHaveAWork DEF _package_order_ids, VersionsSound
  <1>2. for_package(_package_order_ids) \in SUBSET (Works \X Contents)
    BY <1>1 DEF for_package
  <1> QED BY <1>2 DEF manifest, Manifest, VersionsSound

LEMMA DrawingTyped == DrawingSound => drawing \in [Works -> [Contents -> Attachment \cup {NoFile}]]
  BY DEF DrawingSound, FileRow

LEMMA AttachesBegin ==
  ASSUME DrawingSound, NEW s \in Clerks, AttachBegin(s)
  PROVE  DrawingSound'
  <1>1. PICK o \in Works, c \in Contents, offline \in BOOLEAN :
          clerk' = [clerk EXCEPT ![s] =
            [act |-> "attach", order |-> o, content |-> c, offline |-> offline,
             read |-> drawing[o][c]]]
    BY DEF AttachBegin
  <1> DEFINE row == [act |-> "attach", order |-> o, content |-> c, offline |-> offline,
                     read |-> drawing[o][c]]
  <1>2. row \in AttachRow /\ row.act = "attach"
    BY DEF DrawingSound, AttachRow
  <1>3. row \notin WithdrawRow
    BY <1>2 DEF WithdrawRow
  <1>4. clerk' = [clerk EXCEPT ![s] = row] /\ drawing' = drawing
    BY <1>1 DEF AttachBegin
  <1> HIDE DEF row
  <1> QED BY <1>2, <1>3, <1>4 DEF DrawingSound

LEMMA AttachesCommit ==
  ASSUME DrawingSound, NEW s \in Clerks, AttachCommit(s)
  PROVE  DrawingSound'
  <1> DEFINE o == clerk[s].order
             c == clerk[s].content
             was == drawing[o][c]
             new == IF clerk[s].read = NoFile
                    THEN IF was # NoFile THEN was
                         ELSE [there |-> TRUE, offline |-> clerk[s].offline, withdrawn |-> FALSE]
                    ELSE [there |-> TRUE,
                          offline |-> IF clerk[s].offline # clerk[s].read.offline
                                      THEN clerk[s].offline ELSE was.offline,
                          withdrawn |-> IF clerk[s].read.withdrawn THEN FALSE ELSE was.withdrawn]
  <1>1. clerk[s] \in AttachRow
    BY DEF AttachCommit, DrawingSound, WithdrawRow, Unopened
  <1>2. o \in Works /\ c \in Contents /\ was \in FileRow /\ clerk[s].offline \in BOOLEAN
    BY <1>1 DEF AttachRow, DrawingSound
  <1>3. was.offline \in BOOLEAN /\ was.withdrawn \in BOOLEAN
    <2> HIDE DEF was
    <2>1. CASE was \in Attachment
      BY <2>1 DEF Attachment
    <2>2. CASE was = NoFile
      BY <2>2 DEF NoFile
    <2> QED BY <1>2, <2>1, <2>2 DEF FileRow
  <1>4. new \in FileRow /\ new # NoFile
    <2>1. CASE clerk[s].read = NoFile /\ was # NoFile
      BY <1>2, <2>1
    <2>2. CASE clerk[s].read = NoFile /\ was = NoFile
      <3>1. new = [there |-> TRUE, offline |-> clerk[s].offline, withdrawn |-> FALSE]
        BY <2>2
      <3> HIDE DEF new
      <3>2. new \in Attachment /\ new.there = TRUE
        BY <1>2, <3>1, Zenon DEF Attachment
      <3> QED BY <3>2 DEF FileRow, NoFile
    <2>3. CASE clerk[s].read # NoFile
      <3> DEFINE off == IF clerk[s].offline # clerk[s].read.offline
                        THEN clerk[s].offline ELSE was.offline
                 gone == IF clerk[s].read.withdrawn THEN FALSE ELSE was.withdrawn
      <3>1. new = [there |-> TRUE, offline |-> off, withdrawn |-> gone]
        BY <2>3, Zenon
      <3>2. off \in BOOLEAN /\ gone \in BOOLEAN
        <4> HIDE DEF was
        <4> QED BY <1>2, <1>3, Zenon
      <3> HIDE DEF new, off, gone
      <3>3. new \in Attachment /\ new.there = TRUE
        BY <3>1, <3>2, Zenon DEF Attachment
      <3> QED BY <3>3 DEF FileRow, NoFile
    <2> QED BY <2>1, <2>2, <2>3
  <1>5. drawing' = [drawing EXCEPT ![o][c] = new] /\ clerk' = [clerk EXCEPT ![s] = Unopened]
    <2>1. CASE clerk[s].read = NoFile /\ was # NoFile
      BY <1>2, <2>1 DEF AttachCommit, DrawingSound
    <2>2. CASE clerk[s].read = NoFile /\ was = NoFile
      BY <2>2 DEF AttachCommit
    <2>3. CASE clerk[s].read # NoFile
      BY <2>3 DEF AttachCommit
    <2> QED BY <2>1, <2>2, <2>3
  <1>6. Unopened \notin WithdrawRow
    BY DEF Unopened, WithdrawRow
  <1> HIDE DEF new, was, o, c
  <1> QED BY <1>2, <1>4, <1>5, <1>6 DEF DrawingSound, WithdrawRow

LEMMA WithdrawsBegin ==
  ASSUME DrawingSound, NEW s \in Clerks, WithdrawBegin(s)
  PROVE  DrawingSound'
  <1>1. PICK o \in Works, c \in Contents :
          /\ is_active(o, c)
          /\ clerk' = [clerk EXCEPT ![s] = [act |-> "withdraw", order |-> o, content |-> c]]
    BY DEF WithdrawBegin
  <1>2. drawing[o][c] # NoFile
    BY <1>1 DEF is_active, NoFile
  <1>3. drawing' = drawing
    BY DEF WithdrawBegin
  <1> QED BY <1>1, <1>2, <1>3 DEF DrawingSound, WithdrawRow

LEMMA WithdrawsCommit ==
  ASSUME DrawingSound, NEW s \in Clerks, WithdrawCommit(s)
  PROVE  DrawingSound'
  <1> DEFINE o == clerk[s].order
             c == clerk[s].content
             new == [drawing[o][c] EXCEPT !.withdrawn = TRUE]
  <1>1. clerk[s] \in WithdrawRow
    BY DEF WithdrawCommit, DrawingSound, AttachRow, Unopened
  <1>2. o \in Works /\ c \in Contents /\ drawing[o][c] \in Attachment
    BY <1>1 DEF WithdrawRow, DrawingSound, FileRow
  <1>3. new \in FileRow /\ new # NoFile
    <2>1. new \in Attachment /\ new.there = TRUE
      BY <1>2 DEF Attachment
    <2> HIDE DEF new
    <2> QED BY <2>1 DEF FileRow, NoFile
  <1>4. drawing' = [drawing EXCEPT ![o][c] = new] /\ clerk' = [clerk EXCEPT ![s] = Unopened]
    BY DEF WithdrawCommit
  <1>5. Unopened \notin WithdrawRow
    BY DEF Unopened, WithdrawRow
  <1> HIDE DEF new, o, c
  <1> QED BY <1>2, <1>3, <1>4, <1>5 DEF DrawingSound, WithdrawRow

LEMMA PackagesBegin ==
  ASSUME VersionsSound, NEW s \in Publishers, PublishBegin(s)
  PROVE  VersionsSound'
  <1> DEFINE row == [act |-> "publish", manifest |-> manifest, previous |-> Latest(current)]
  <1>1. Len(package) \in Nat
    BY DEF VersionsSound
  <1>2. row \in PublisherRow /\ row.previous \in 0 .. Len(package)
    BY <1>1, ManifestTyped, CurrentIsLast DEF PublisherRow
  <1>3. publisher' = [publisher EXCEPT ![s] = row] /\ UNCHANGED <<rules, syncable, package>>
    BY DEF PublishBegin
  <1> HIDE DEF row
  <1> QED BY <1>2, <1>3 DEF VersionsSound

LEMMA PackagesCommit ==
  ASSUME VersionsSound, NEW s \in Publishers, PublishCommit(s)
  PROVE  VersionsSound'
  <1> DEFINE call == publisher[s]
             n == Len(package)
             superseded == [v \in DOMAIN package |->
               IF v = call.previous THEN [package[v] EXCEPT !.superseded = TRUE] ELSE package[v]]
             row == [manifest |-> call.manifest, superseded |-> FALSE]
  <1>1. call \in PublisherRow /\ call # Unopened
    BY DEF PublishCommit, VersionsSound, Unopened
  <1>2. n \in Nat /\ DOMAIN package = 1 .. n /\ call.previous \in 0 .. n
    BY <1>1 DEF VersionsSound
  <1>3. publisher' = [publisher EXCEPT ![s] = Unopened] /\ UNCHANGED <<rules, syncable>>
    BY DEF PublishCommit
  <1>4. CASE package' = package
    BY <1>3, <1>4 DEF VersionsSound
  <1>5. CASE package' # package
    <2>1. package' = Append(superseded, row) /\ call.previous + 1 \notin DOMAIN package
      BY <1>5 DEF PublishCommit, VersionTaken
    <2>2. call.previous = n
      BY <1>2, <2>1
    <2>3. row \in PackageRow
      BY <1>1 DEF PublisherRow, PackageRow
    <2>4. superseded \in Seq(PackageRow) /\ Len(superseded) = n
      <3>1. \A v \in 1 .. n : superseded[v] \in PackageRow
        <4> SUFFICES ASSUME NEW v \in 1 .. n PROVE superseded[v] \in PackageRow
          OBVIOUS
        <4>1. package[v] \in PackageRow
          BY <1>2 DEF VersionsSound
        <4>2. [package[v] EXCEPT !.superseded = TRUE] \in PackageRow
          BY <4>1 DEF PackageRow
        <4> QED BY <1>2, <4>1, <4>2
      <3>2. DOMAIN superseded = 1 .. n
        BY <1>2
      <3>3. superseded \in [1 .. n -> PackageRow]
        BY <3>1, <3>2
      <3> HIDE DEF superseded, n
      <3>4. superseded \in Seq(PackageRow)
        BY <1>2, <3>3, IsASeq
      <3> QED BY <1>2, <3>2, <3>4, LenProperties
    <2>5. \A v \in 1 .. n : superseded[v].superseded = TRUE
      <3> SUFFICES ASSUME NEW v \in 1 .. n PROVE superseded[v].superseded = TRUE
        OBVIOUS
      <3>1. package[v] \in PackageRow
        BY <1>2 DEF VersionsSound
      <3>2. CASE v = n
        BY <1>2, <2>2, <3>1, <3>2 DEF PackageRow
      <3>3. CASE v # n
        BY <1>2, <2>2, <3>1, <3>3 DEF PackageRow, VersionsSound
      <3> QED BY <3>2, <3>3
    <2>6. row.superseded = FALSE
      OBVIOUS
    <2> HIDE DEF superseded, row, n
    <2>7. /\ package' \in Seq(PackageRow) /\ Len(package') = n + 1
          /\ \A v \in 1 .. n : package'[v] = superseded[v]
          /\ package'[n + 1] = row
      BY <1>2, <2>1, <2>3, <2>4, AppendProperties
    <2>8. \A v \in DOMAIN package' : package'[v].superseded <=> v # Len(package')
      <3> SUFFICES ASSUME NEW v \in 1 .. n + 1 PROVE package'[v].superseded <=> v # n + 1
        BY <1>2, <2>7
      <3>1. CASE v \in 1 .. n
        <4>1. package'[v].superseded = TRUE /\ v # n + 1
          BY <1>2, <2>5, <2>7, <3>1
        <4> QED BY <4>1
      <3>2. CASE v = n + 1
        <4>1. package'[v].superseded = FALSE
          BY <2>6, <2>7, <3>2
        <4> QED BY <3>2, <4>1
      <3> QED BY <1>2, <3>1, <3>2
    <2>9. \A p \in Publishers : publisher'[p] # Unopened => publisher'[p].previous \in 0 .. Len(package')
      <3> SUFFICES ASSUME NEW p \in Publishers, publisher'[p] # Unopened
                   PROVE  publisher'[p].previous \in 0 .. n + 1
        BY <2>7
      <3>1. publisher'[p] = publisher[p]
        BY <1>3 DEF VersionsSound
      <3>2. publisher[p].previous \in 0 .. n
        BY <3>1 DEF VersionsSound, n
      <3> QED BY <1>2, <3>1, <3>2
    <2> QED BY <1>3, <2>7, <2>8, <2>9 DEF VersionsSound
  <1> QED BY <1>4, <1>5

\* Versions are numbered in order and only the last is in force, and a file a
\* session means to withdraw is a row.
THEOREM PackageAlways == PackagesSpec => []PackageInv
  <1>1. PackagesInit => PackageInv
    BY DEF PackagesInit, PackageInv, DrawingSound, VersionsSound, FileRow, WithdrawRow, Unopened
  <1>2. PackageInv /\ [PackagesNext]_gvars => PackageInv'
    <2> SUFFICES ASSUME PackageInv, [PackagesNext]_gvars PROVE PackageInv'
      OBVIOUS
    <2> USE DEF PackageInv
    <2>1. CASE UNCHANGED gvars
      BY <2>1 DEF gvars, DrawingSound, VersionsSound, current
    <2>2. CASE PolicyChanges
      BY <2>2 DEF PolicyChanges, DrawingSound, VersionsSound
    <2>3. ASSUME NEW o \in Works, OrderMoves(o)
          PROVE  PackageInv'
      BY <2>3 DEF OrderMoves, DrawingSound, VersionsSound
    <2>4. ASSUME NEW s \in Clerks,
                 AttachBegin(s) \/ AttachCommit(s) \/ WithdrawBegin(s) \/ WithdrawCommit(s)
          PROVE  PackageInv'
      <3>1. DrawingSound'
        BY <2>4, AttachesBegin, AttachesCommit, WithdrawsBegin, WithdrawsCommit
      <3>2. UNCHANGED <<syncable, rules, package, publisher>>
        BY <2>4 DEF AttachBegin, AttachCommit, WithdrawBegin, WithdrawCommit
      <3> QED BY <3>1, <3>2 DEF VersionsSound
    <2>5. ASSUME NEW s \in Publishers, PublishBegin(s) \/ PublishCommit(s)
          PROVE  PackageInv'
      <3>1. VersionsSound'
        BY <2>5, PackagesBegin, PackagesCommit
      <3>2. UNCHANGED <<drawing, clerk>>
        BY <2>5 DEF PublishBegin, PublishCommit
      <3> QED BY <3>1, <3>2 DEF DrawingSound
    <2> QED BY <2>1, <2>2, <2>3, <2>4, <2>5 DEF PackagesNext
  <1> QED BY <1>1, <1>2, PTL DEF PackagesSpec

\* The package in force serves every drawing an order is to have offline that the
\* manifest named, with clerks and publications interleaved.
THEOREM PackageAlwaysServes == PackagesSpec => []PackageServes
  <1>1. PackageInv => PackageServes
    <2> SUFFICES ASSUME PackageInv PROVE PackageServes
      OBVIOUS
    <2>1. OnePackageInForce
      BY CurrentIsLast DEF PackageInv, OnePackageInForce
    <2>2. ASSUME NEW o \in syncable, NEW row \in attachments_of(o),
                 drawing[row[1]][row[2]].offline
          PROVE  row \in manifest.items
      <3>1. row \in ({o, ParentOf[o]} \cap Works) \X Contents /\ is_active(row[1], row[2])
        BY <2>2 DEF attachments_of
      <3>2. row[1] \in _package_order_ids /\ row = <<row[1], row[2]>> /\ row[2] \in Contents
        BY <2>2, <3>1, FrontsHaveAWork DEF _package_order_ids
      <3>3. row \in for_package(_package_order_ids)
        BY <2>2, <3>1, <3>2 DEF for_package
      <3> QED BY <3>3 DEF manifest
    <2> QED BY <2>1, <2>2 DEF PackageServes, PackageOpensWhatScreensList
  <1> QED BY <1>1, PackageAlways, PTL

-----------------------------------------------------------------------------
(****************************************************************************)
(* TIMES OF THE WORK: the server's are those the phone noted                *)
(****************************************************************************)

LogRow == [device: Int, corrected: Int]
Operation == [kind: {"transition", "time_correction"}, milestone: Moments, time: Int, made: Nat]
TrailEntry == [milestone: Moments, from: Int, to: Nat, by: Handhelds \cup Supervisors, made: Nat]
FormRow == [milestone: Moments, time: Nat, made: Nat, from: Int]

TimeLogTyped ==
  /\ hour \in Nat
  /\ logs \in [Handhelds -> [Moments -> LogRow \cup {NotReached}]]
  /\ outbox \in [Handhelds -> Seq(Operation)]
  /\ times \in [Moments -> LogRow \cup {NotReached}]
  /\ timeTrail \in Seq(TrailEntry)
  /\ forms \in [Supervisors -> FormRow \cup {NoForm}]
  /\ answered \in [Handhelds -> [applied: Nat, refused: Nat]]

\* What the row says is what the last entry of the trail says, if there is one.
RowSaysTrail ==
  \A m \in Moments :
    /\ times[m] = NotReached => Noted(m) = {}
    /\ times[m] # NotReached =>
         IF Noted(m) = {} THEN times[m].corrected = NoTime
         ELSE \E i \in Noted(m) : LastNoted(m, i) /\ times[m].corrected = timeTrail[i].to

FormsReached == \A s \in Supervisors : forms[s] # NoForm => times[forms[s].milestone] # NotReached

\* What leaves the phone is of its log, and not earlier.
LogsBehind ==
  \A p \in Handhelds, m \in Moments : logs[p][m] # NotReached => logs[p][m].device <= Clock(p)
FromTheLog(p, op) ==
  /\ logs[p][op.milestone] # NotReached
  /\ op.kind = "transition" => logs[p][op.milestone].device <= op.time
  /\ op.kind = "time_correction" => op.time \in Nat
OutboxFromLog ==
  \A p \in Handhelds : \A i \in DOMAIN outbox[p] : FromTheLog(p, outbox[p][i])
TimesFromLog ==
  \A m \in Moments : times[m] # NotReached =>
    \E p \in Handhelds : logs[p][m] # NotReached /\ times[m].device >= logs[p][m].device

\* What a phone that works alone noted is on the row, or on its way.
PassesBy(op, m) == op.kind = "transition" /\ op.milestone = m
Corrects(op, m) == op.kind = "time_correction" /\ op.milestone = m
OnItsOwn(p) == WorkedAlone(p) /\ answered[p].refused = 0

PassesFirst(ops, m, time) ==
  \E i \in DOMAIN ops : /\ PassesBy(ops[i], m) /\ ops[i].time = time
                        /\ \A j \in DOMAIN ops : j < i => ~PassesBy(ops[j], m)
CorrectsLast(ops, m, time) ==
  \E i \in DOMAIN ops : /\ Corrects(ops[i], m) /\ ops[i].time = time
                        /\ \A j \in DOMAIN ops : j > i => ~Corrects(ops[j], m)
NoCorrection(ops, m) == \A i \in DOMAIN ops : ~Corrects(ops[i], m)

AsNoted(p, m) ==
  /\ logs[p][m] = NotReached => times[m] = NotReached
  /\ times[m] # NotReached => times[m].device = logs[p][m].device
  /\ logs[p][m] # NotReached /\ times[m] = NotReached =>
       PassesFirst(outbox[p], m, logs[p][m].device)
  /\ logs[p][m] # NotReached =>
       IF NoCorrection(outbox[p], m)
       THEN /\ times[m] = NotReached => logs[p][m].corrected = NoTime
            /\ times[m] # NotReached /\ (\A i \in Noted(m) : timeTrail[i].by = p) =>
                 times[m].corrected = logs[p][m].corrected
       ELSE CorrectsLast(outbox[p], m, logs[p][m].corrected)

AloneOnRecord == \A p \in Handhelds : OnItsOwn(p) => \A m \in Moments : AsNoted(p, m)

TimeLogInv ==
  /\ TimeLogTyped /\ RowSaysTrail /\ FormsReached /\ LogsBehind
  /\ OutboxFromLog /\ TimesFromLog /\ AloneOnRecord

-----------------------------------------------------------------------------
(* Rows, queues and the trail *)

\* A row of the log or a form is never taken for none.
LEMMA RowsThere ==
  /\ \A row \in LogRow : row # NotReached
  /\ \A row \in FormRow : row # NoForm
  <1>1. ASSUME NEW row \in LogRow PROVE row # NotReached
    BY DEF LogRow, NotReached
  <1>2. ASSUME NEW row \in FormRow PROVE row # NoForm
    BY DEF FormRow, NoForm
  <1> QED BY <1>1, <1>2

\* An operation that joins the outbox comes after the others.
LEMMA OutboxAppended ==
  ASSUME NEW ops \in Seq(Operation), NEW op \in Operation, NEW m, NEW time
  PROVE  /\ \A i \in DOMAIN Append(ops, op) : \/ Append(ops, op)[i] = op
                                              \/ (i \in DOMAIN ops /\ Append(ops, op)[i] = ops[i])
         /\ PassesFirst(ops, m, time) => PassesFirst(Append(ops, op), m, time)
         /\ (\A i \in DOMAIN ops : ~PassesBy(ops[i], m)) /\ PassesBy(op, m) =>
              PassesFirst(Append(ops, op), m, op.time)
         /\ Corrects(op, m) =>
              ~NoCorrection(Append(ops, op), m) /\ CorrectsLast(Append(ops, op), m, op.time)
         /\ ~Corrects(op, m) =>
              /\ NoCorrection(Append(ops, op), m) <=> NoCorrection(ops, m)
              /\ CorrectsLast(ops, m, time) => CorrectsLast(Append(ops, op), m, time)
  <1> DEFINE all == Append(ops, op)
             n == Len(ops)
  <1>1. /\ n \in Nat /\ DOMAIN ops = 1 .. n /\ DOMAIN all = 1 .. n + 1
        /\ all[n + 1] = op /\ \A i \in 1 .. n : all[i] = ops[i]
    OBVIOUS
  <1> HIDE DEF all, n
  <1>2. \A i \in DOMAIN all : all[i] = op \/ (i \in DOMAIN ops /\ all[i] = ops[i])
    BY <1>1
  <1>3. PassesFirst(ops, m, time) => PassesFirst(all, m, time)
    BY <1>1 DEF PassesFirst
  <1>4. (\A i \in DOMAIN ops : ~PassesBy(ops[i], m)) /\ PassesBy(op, m) => PassesFirst(all, m, op.time)
    <2> SUFFICES ASSUME \A i \in DOMAIN ops : ~PassesBy(ops[i], m), PassesBy(op, m)
                 PROVE  PassesFirst(all, m, op.time)
      OBVIOUS
    <2>1. n + 1 \in DOMAIN all /\ all[n + 1] = op /\ \A j \in DOMAIN all : j < n + 1 => ~PassesBy(all[j], m)
      BY <1>1
    <2> QED BY <2>1 DEF PassesFirst
  <1>5. Corrects(op, m) => ~NoCorrection(all, m) /\ CorrectsLast(all, m, op.time)
    <2> SUFFICES ASSUME Corrects(op, m) PROVE ~NoCorrection(all, m) /\ CorrectsLast(all, m, op.time)
      OBVIOUS
    <2>1. n + 1 \in DOMAIN all /\ all[n + 1] = op /\ \A j \in DOMAIN all : ~(j > n + 1)
      BY <1>1
    <2> QED BY <2>1 DEF CorrectsLast, NoCorrection
  <1>6. ~Corrects(op, m) => /\ NoCorrection(all, m) <=> NoCorrection(ops, m)
                            /\ CorrectsLast(ops, m, time) => CorrectsLast(all, m, time)
    BY <1>1 DEF NoCorrection, CorrectsLast
  <1> QED BY <1>2, <1>3, <1>4, <1>5, <1>6 DEF all

\* One that leaves it was the first.
LEMMA OutboxTaken ==
  ASSUME NEW ops \in Seq(Operation), ops # <<>>, NEW m, NEW time
  PROVE  /\ Head(ops) \in Operation /\ Tail(ops) \in Seq(Operation)
         /\ 1 \in DOMAIN ops /\ ops[1] = Head(ops)
         /\ \A i \in DOMAIN Tail(ops) : i + 1 \in DOMAIN ops /\ Tail(ops)[i] = ops[i + 1]
         /\ PassesFirst(ops, m, time) =>
              IF PassesBy(Head(ops), m) THEN Head(ops).time = time ELSE PassesFirst(Tail(ops), m, time)
         /\ NoCorrection(ops, m) => NoCorrection(Tail(ops), m) /\ ~Corrects(Head(ops), m)
         /\ CorrectsLast(ops, m, time) =>
              IF NoCorrection(Tail(ops), m) THEN Corrects(Head(ops), m) /\ Head(ops).time = time
              ELSE CorrectsLast(Tail(ops), m, time)
  <1> DEFINE rest == Tail(ops)
             n == Len(ops)
             op == Head(ops)
  <1>1. /\ n \in Nat \ {0} /\ DOMAIN ops = 1 .. n /\ DOMAIN rest = 1 .. n - 1
        /\ op = ops[1] /\ op \in Operation /\ rest \in Seq(Operation)
        /\ \A i \in 1 .. n - 1 : rest[i] = ops[i + 1]
    OBVIOUS
  <1> HIDE DEF rest, n, op
  <1>2. 1 \in DOMAIN ops /\ \A i \in DOMAIN rest : i + 1 \in DOMAIN ops /\ rest[i] = ops[i + 1]
    BY <1>1
  <1>3. \A i \in DOMAIN ops : i = 1 \/ (i - 1 \in DOMAIN rest /\ rest[i - 1] = ops[i])
    BY <1>1
  <1>4. ASSUME PassesFirst(ops, m, time)
        PROVE  IF PassesBy(op, m) THEN op.time = time ELSE PassesFirst(rest, m, time)
    <2>1. PICK i \in DOMAIN ops : /\ PassesBy(ops[i], m) /\ ops[i].time = time
                                  /\ \A j \in DOMAIN ops : j < i => ~PassesBy(ops[j], m)
      BY <1>4 DEF PassesFirst
    <2>2. CASE i = 1
      BY <2>1, <2>2, <1>1
    <2>3. CASE i # 1
      <3>1. i - 1 \in DOMAIN rest /\ rest[i - 1] = ops[i]
        BY <1>3, <2>3
      <3>2. \A j \in DOMAIN rest : j < i - 1 => ~PassesBy(rest[j], m)
        BY <1>1, <1>2, <2>1
      <3>3. ~PassesBy(op, m)
        BY <1>1, <2>1, <2>3
      <3> QED BY <3>1, <3>2, <3>3, <2>1 DEF PassesFirst
    <2> QED BY <2>2, <2>3
  <1>5. NoCorrection(ops, m) => NoCorrection(rest, m) /\ ~Corrects(op, m)
    BY <1>1, <1>2 DEF NoCorrection
  <1>6. ASSUME CorrectsLast(ops, m, time)
        PROVE  IF NoCorrection(rest, m) THEN Corrects(op, m) /\ op.time = time
               ELSE CorrectsLast(rest, m, time)
    <2>1. PICK i \in DOMAIN ops : /\ Corrects(ops[i], m) /\ ops[i].time = time
                                  /\ \A j \in DOMAIN ops : j > i => ~Corrects(ops[j], m)
      BY <1>6 DEF CorrectsLast
    <2>2. CASE i = 1
      <3>1. NoCorrection(rest, m)
        BY <2>1, <2>2, <1>1, <1>2 DEF NoCorrection
      <3> QED BY <3>1, <2>1, <2>2, <1>1
    <2>3. CASE i # 1
      <3>1. i - 1 \in DOMAIN rest /\ rest[i - 1] = ops[i]
        BY <1>3, <2>3
      <3>2. \A j \in DOMAIN rest : j > i - 1 => ~Corrects(rest[j], m)
        BY <1>1, <1>2, <2>1
      <3> QED BY <3>1, <3>2, <2>1 DEF CorrectsLast, NoCorrection
    <2> QED BY <2>2, <2>3
  <1> QED BY <1>1, <1>2, <1>4, <1>5, <1>6 DEF rest, op

\* A correction that is written is the last entry of the trail, and stands on the row.
LEMMA CorrectionWritten ==
  ASSUME TimeLogTyped, RowSaysTrail, NEW e \in TrailEntry, times[e.milestone] # NotReached,
         times' = Corrected(e.milestone, e.to), timeTrail' = Append(timeTrail, e)
  PROVE  /\ times' \in [Moments -> LogRow \cup {NotReached}] /\ timeTrail' \in Seq(TrailEntry)
         /\ RowSaysTrail'
         /\ \A m \in Moments :
              /\ times'[m] = NotReached <=> times[m] = NotReached
              /\ times[m] # NotReached => times'[m].device = times[m].device
              /\ m # e.milestone => times'[m] = times[m] /\ Noted(m)' = Noted(m)
              /\ \A i \in Noted(m) : i \in Noted(m)' /\ timeTrail'[i] = timeTrail[i]
         /\ times'[e.milestone].corrected = e.to
         /\ \E i \in Noted(e.milestone)' : timeTrail'[i] = e
  <1> DEFINE at == e.milestone
  <1>1. PICK n \in Nat :
        /\ DOMAIN timeTrail = 1 .. n /\ DOMAIN timeTrail' = 1 .. n + 1
        /\ timeTrail'[n + 1] = e /\ \A i \in 1 .. n : timeTrail'[i] = timeTrail[i]
        /\ timeTrail' \in Seq(TrailEntry)
    <2>1. timeTrail \in Seq(TrailEntry) /\ Len(timeTrail) \in Nat
      BY DEF TimeLogTyped
    <2>2. /\ DOMAIN timeTrail = 1 .. Len(timeTrail)
          /\ DOMAIN Append(timeTrail, e) = 1 .. Len(timeTrail) + 1
          /\ Append(timeTrail, e)[Len(timeTrail) + 1] = e
          /\ \A i \in 1 .. Len(timeTrail) : Append(timeTrail, e)[i] = timeTrail[i]
          /\ Append(timeTrail, e) \in Seq(TrailEntry)
      BY <2>1
    <2> QED BY <2>1, <2>2
  <1>2. at \in Moments /\ e.to \in Nat /\ times[at] \in LogRow
    BY DEF TimeLogTyped, TrailEntry
  <1> HIDE DEF at
  <1>3. times' = [times EXCEPT ![at] = [times[at] EXCEPT !.corrected = e.to]]
    BY DEF Corrected, at
  <1>4. [times[at] EXCEPT !.corrected = e.to] = [device |-> times[at].device, corrected |-> e.to]
    BY <1>2 DEF LogRow
  <1>5. [times[at] EXCEPT !.corrected = e.to] \in LogRow
    BY <1>4, <1>2 DEF LogRow
  <1>6. \A m \in Moments : /\ times'[m] = IF m = at THEN [times[at] EXCEPT !.corrected = e.to] ELSE times[m]
                           /\ m = at => times'[m] \in LogRow /\ times'[m].device = times[m].device
                                        /\ times'[m].corrected = e.to
    BY <1>2, <1>3, <1>4, <1>5 DEF TimeLogTyped
  <1>7. times' \in [Moments -> LogRow \cup {NotReached}]
    BY <1>2, <1>3, <1>5 DEF TimeLogTyped
  <1>8. \A m \in Moments : Noted(m)' = IF m = at THEN Noted(m) \cup {n + 1} ELSE Noted(m)
    BY <1>1, <1>2 DEF Noted, at
  <1>9. \A m \in Moments : /\ times'[m] = NotReached <=> times[m] = NotReached
                           /\ times[m] # NotReached => times'[m].device = times[m].device
                           /\ m # at => times'[m] = times[m] /\ Noted(m)' = Noted(m)
                           /\ \A i \in Noted(m) : i \in Noted(m)' /\ timeTrail'[i] = timeTrail[i]
    <2>1. \A m \in Moments : \A i \in Noted(m) : i \in Noted(m)' /\ timeTrail'[i] = timeTrail[i]
      BY <1>1, <1>8 DEF Noted
    <2> QED BY <1>2, <1>6, <1>8, <2>1, RowsThere DEF at
  <1>10. LastNoted(at, n + 1)' /\ n + 1 \in Noted(at)'
    BY <1>1, <1>2, <1>8 DEF LastNoted, Noted
  <1>11. RowSaysTrail'
    <2> SUFFICES ASSUME NEW m \in Moments
                 PROVE  /\ times'[m] = NotReached => Noted(m)' = {}
                        /\ times'[m] # NotReached =>
                             IF Noted(m)' = {} THEN times'[m].corrected = NoTime
                             ELSE \E i \in Noted(m)' : LastNoted(m, i)' /\ times'[m].corrected = timeTrail'[i].to
      BY DEF RowSaysTrail
    <2>1. CASE m = at
      <3>1. times'[m] # NotReached /\ times'[m].corrected = e.to
        BY <1>2, <1>6, <2>1, RowsThere
      <3> QED BY <3>1, <2>1, <1>1, <1>10
    <2>2. CASE m # at
      <3>1. times'[m] = times[m] /\ Noted(m)' = Noted(m)
        BY <2>2, <1>9
      <3>2. \A i \in Noted(m) : timeTrail'[i] = timeTrail[i] /\ (LastNoted(m, i) => LastNoted(m, i)')
        BY <3>1, <1>9 DEF LastNoted
      <3> QED BY <3>1, <3>2 DEF RowSaysTrail
    <2> QED BY <2>1, <2>2
  <1> QED BY <1>1, <1>2, <1>6, <1>7, <1>9, <1>10, <1>11 DEF at

-----------------------------------------------------------------------------
(* The phone *)

\* What the phone notes it also sends, and what it noted first it keeps.
LEMMA PhoneNotes ==
  ASSUME TimeLogInv, NEW p \in Handhelds, NEW op \in Operation,
         NEW log \in [Moments -> LogRow \cup {NotReached}],
         logs' = [logs EXCEPT ![p] = log],
         outbox' = [outbox EXCEPT ![p] = Append(outbox[p], op)],
         UNCHANGED <<hour, times, timeTrail, forms, answered>>,
         \A m \in Moments : logs[p][m] # NotReached =>
           /\ log[m] # NotReached /\ log[m].device = logs[p][m].device
           /\ ~Corrects(op, m) => log[m].corrected = logs[p][m].corrected,
         \A m \in Moments : log[m] # NotReached /\ logs[p][m] = NotReached =>
           log[m].device = op.time /\ log[m].corrected = NoTime /\ PassesBy(op, m),
         \A m \in Moments : log[m] # NotReached => log[m].device <= Clock(p),
         log[op.milestone] # NotReached,
         op.kind = "transition" => log[op.milestone].device <= op.time,
         op.kind = "time_correction" => op.time \in Nat /\ log[op.milestone].corrected = op.time
  PROVE  TimeLogInv'
  <1>1. \A q \in Handhelds : /\ logs'[q] = IF q = p THEN log ELSE logs[q]
                             /\ outbox'[q] = IF q = p THEN Append(outbox[p], op) ELSE outbox[q]
    BY DEF TimeLogInv, TimeLogTyped
  <1>2. outbox[p] \in Seq(Operation) /\ Append(outbox[p], op) \in Seq(Operation)
    BY DEF TimeLogInv, TimeLogTyped
  <1>3. TimeLogTyped'
    BY <1>2 DEF TimeLogInv, TimeLogTyped
  <1>4. RowSaysTrail' /\ FormsReached'
    BY DEF TimeLogInv, RowSaysTrail, FormsReached, Noted, LastNoted
  <1>5. LogsBehind'
    BY <1>1 DEF TimeLogInv, LogsBehind, Clock
  <1>6. OutboxFromLog'
    <2> SUFFICES ASSUME NEW q \in Handhelds, NEW x, \E i \in DOMAIN outbox'[q] : outbox'[q][i] = x
                 PROVE  FromTheLog(q, x)'
      BY DEF OutboxFromLog, FromTheLog
    <2>1. CASE \E i \in DOMAIN outbox[q] : outbox[q][i] = x
      <3>1. x \in Operation /\ FromTheLog(q, x)
        BY <2>1 DEF TimeLogInv, OutboxFromLog, TimeLogTyped
      <3> QED BY <3>1, <1>1 DEF FromTheLog, Operation
    <2>2. CASE q = p /\ x = op
      BY <2>2, <1>1 DEF FromTheLog
    <2>3. q # p => outbox'[q] = outbox[q]
      BY <1>1
    <2>4. q = p => \A i \in DOMAIN outbox'[q] : \/ outbox'[q][i] = op
                                                \/ (i \in DOMAIN outbox[p] /\ outbox'[q][i] = outbox[p][i])
      BY <1>1, <1>2, OutboxAppended
    <2> QED BY <2>1, <2>2, <2>3, <2>4
  <1>7. TimesFromLog'
    BY <1>1 DEF TimeLogInv, TimesFromLog
  <1>8. AloneOnRecord'
    <2> SUFFICES ASSUME NEW q \in Handhelds, OnItsOwn(q)', NEW m \in Moments
                 PROVE  AsNoted(q, m)'
      BY DEF AloneOnRecord
    <2>1. OnItsOwn(q) /\ AsNoted(q, m)
      BY DEF OnItsOwn, WorkedAlone, TimeLogInv, AloneOnRecord
    <2>2. Noted(m)' = Noted(m)
      BY DEF Noted
    <2>3. CASE q # p
      BY <2>1, <2>2, <2>3, <1>1 DEF AsNoted
    <2>4. CASE q = p
      <3> DEFINE ops == outbox[p]
                 all == Append(outbox[p], op)
                 old == logs[p][m]
                 new == log[m]
      <3>1. /\ \A time : PassesFirst(ops, m, time) => PassesFirst(all, m, time)
            /\ (\A i \in DOMAIN ops : ~PassesBy(ops[i], m)) /\ PassesBy(op, m) => PassesFirst(all, m, op.time)
            /\ Corrects(op, m) => ~NoCorrection(all, m) /\ CorrectsLast(all, m, op.time)
            /\ ~Corrects(op, m) =>
                 /\ NoCorrection(all, m) <=> NoCorrection(ops, m)
                 /\ \A time : CorrectsLast(ops, m, time) => CorrectsLast(all, m, time)
        BY <1>2, OutboxAppended
      <3>2. logs'[q][m] = new /\ outbox'[q] = all /\ times'[m] = times[m]
        BY <2>4, <1>1
      <3>3. old = NotReached => NoCorrection(ops, m) /\ \A i \in DOMAIN ops : ~PassesBy(ops[i], m)
        BY DEF TimeLogInv, OutboxFromLog, FromTheLog, NoCorrection, Corrects, PassesBy
      <3>4. /\ old = NotReached => times[m] = NotReached
            /\ times[m] # NotReached => times[m].device = old.device
            /\ old # NotReached /\ times[m] = NotReached => PassesFirst(ops, m, old.device)
            /\ old # NotReached =>
                 IF NoCorrection(ops, m)
                 THEN /\ times[m] = NotReached => old.corrected = NoTime
                      /\ times[m] # NotReached /\ (\A i \in Noted(m) : timeTrail[i].by = p) =>
                           times[m].corrected = old.corrected
                 ELSE CorrectsLast(ops, m, old.corrected)
        BY <2>1, <2>4 DEF AsNoted
      <3>5. /\ old # NotReached => /\ new # NotReached /\ new.device = old.device
                                   /\ ~Corrects(op, m) => new.corrected = old.corrected
            /\ new # NotReached /\ old = NotReached =>
                 new.device = op.time /\ new.corrected = NoTime /\ PassesBy(op, m)
            /\ Corrects(op, m) => new.corrected = op.time
        BY DEF Corrects
      <3>6. PassesBy(op, m) => ~Corrects(op, m)
        BY DEF PassesBy, Corrects
      <3> HIDE DEF ops, all, old, new
      <3>7. /\ new = NotReached => times[m] = NotReached
            /\ times[m] # NotReached => times[m].device = new.device
        BY <3>4, <3>5
      <3>8. new # NotReached /\ times[m] = NotReached => PassesFirst(all, m, new.device)
        <4>1. CASE old = NotReached
          BY <4>1, <3>1, <3>3, <3>5
        <4>2. CASE old # NotReached
          BY <4>2, <3>1, <3>4, <3>5
        <4> QED BY <4>1, <4>2
      <3>9. new # NotReached =>
              IF NoCorrection(all, m)
              THEN /\ times[m] = NotReached => new.corrected = NoTime
                   /\ times[m] # NotReached /\ (\A i \in Noted(m) : timeTrail[i].by = p) =>
                        times[m].corrected = new.corrected
              ELSE CorrectsLast(all, m, new.corrected)
        <4>1. CASE Corrects(op, m)
          BY <4>1, <3>1, <3>5
        <4>2. CASE ~Corrects(op, m) /\ old = NotReached
          BY <4>2, <3>1, <3>3, <3>4, <3>5
        <4>3. CASE ~Corrects(op, m) /\ old # NotReached
          BY <4>3, <3>1, <3>4, <3>5
        <4> QED BY <4>1, <4>2, <4>3
      <3> QED BY <3>2, <3>7, <3>8, <3>9, <2>2, <2>4 DEF AsNoted
    <2> QED BY <2>3, <2>4
  <1> QED BY <1>3, <1>4, <1>5, <1>6, <1>7, <1>8 DEF TimeLogInv

\* The first time a milestone is reached is its own; later ones change nothing.
LEMMA PhoneMovesOn ==
  ASSUME TimeLogInv, NEW p \in Handhelds, NEW m \in Moments, PhoneMoves(p, m)
  PROVE  TimeLogInv'
  <1> DEFINE log == onTransition(logs[p], m, Clock(p))
             op == [kind |-> "transition", milestone |-> m, time |-> Clock(p), made |-> hour]
             fresh == [device |-> Clock(p), corrected |-> NoTime]
  <1>1. Clock(p) \in Int /\ fresh \in LogRow /\ op \in Operation /\ fresh # NotReached
    BY ClocksGiven, RowsThere DEF Clock, TimeLogInv, TimeLogTyped, LogRow, Operation, NoTime
  <1>2. logs[p] \in [Moments -> LogRow \cup {NotReached}]
    BY DEF TimeLogInv, TimeLogTyped
  <1>3. /\ log \in [Moments -> LogRow \cup {NotReached}]
        /\ \A n \in Moments :
             log[n] = IF n = m /\ logs[p][m] = NotReached THEN fresh ELSE logs[p][n]
    BY <1>1, <1>2 DEF onTransition
  <1>4. /\ logs' = [logs EXCEPT ![p] = log] /\ outbox' = [outbox EXCEPT ![p] = Append(outbox[p], op)]
        /\ UNCHANGED <<hour, times, timeTrail, forms, answered>>
    BY DEF PhoneMoves, TimeLogInv, TimeLogTyped
  <1>5. op.kind = "transition" /\ op.milestone = m /\ op.time = Clock(p) /\ \A n : ~Corrects(op, n)
    BY DEF Corrects
  <1>6. fresh.device = Clock(p) /\ fresh.corrected = NoTime
    OBVIOUS
  <1>7. \A n \in Moments : logs[p][n] # NotReached => logs[p][n].device <= Clock(p)
    BY DEF TimeLogInv, LogsBehind
  <1> HIDE DEF log, op, fresh
  <1>8. \A n \in Moments : log[n] # NotReached => log[n].device <= Clock(p)
    BY <1>1, <1>3, <1>6, <1>7
  <1>9. \A n \in Moments : log[n] # NotReached /\ logs[p][n] = NotReached =>
          log[n].device = op.time /\ log[n].corrected = NoTime /\ PassesBy(op, n)
    BY <1>1, <1>3, <1>5, <1>6 DEF PassesBy
  <1>10. \A n \in Moments : logs[p][n] # NotReached => log[n] = logs[p][n]
    BY <1>3
  <1>11. log[op.milestone] # NotReached /\ log[op.milestone].device <= op.time
    BY <1>1, <1>3, <1>5, <1>8
  <1> QED BY <1>1, <1>3, <1>4, <1>5, <1>8, <1>9, <1>10, <1>11, PhoneNotes

\* A correction keeps the time of the phone beside it.
LEMMA PhoneCorrects ==
  ASSUME TimeLogInv, NEW p \in Handhelds, NEW m \in Moments, NEW time \in Slots, correct(p, m, time)
  PROVE  TimeLogInv'
  <1> DEFINE row == logs[p][m]
             put == [row EXCEPT !.corrected = time]
             log == [logs[p] EXCEPT ![m] = put]
             op == [kind |-> "time_correction", milestone |-> m, time |-> time, made |-> hour]
  <1>1. time \in Nat /\ op \in Operation
    BY ClocksGiven DEF TimeLogInv, TimeLogTyped, Operation
  <1>2. logs[p] \in [Moments -> LogRow \cup {NotReached}] /\ row \in LogRow
    BY DEF TimeLogInv, TimeLogTyped, correct
  <1>3. put \in LogRow /\ put # NotReached /\ put.device = row.device /\ put.corrected = time
    BY <1>1, <1>2, RowsThere DEF LogRow
  <1>4. /\ logs' = [logs EXCEPT ![p] = log] /\ outbox' = [outbox EXCEPT ![p] = Append(outbox[p], op)]
        /\ UNCHANGED <<hour, times, timeTrail, forms, answered>>
    BY DEF correct, TimeLogInv, TimeLogTyped
  <1>5. op.kind = "time_correction" /\ op.milestone = m /\ op.time = time
        /\ Corrects(op, m)
    BY DEF Corrects
  <1>6. row # NotReached /\ \A n \in Moments : logs[p][n] # NotReached => logs[p][n].device <= Clock(p)
    BY DEF TimeLogInv, LogsBehind, correct
  <1> HIDE DEF put
  <1>7. /\ log \in [Moments -> LogRow \cup {NotReached}]
        /\ \A n \in Moments : log[n] = IF n = m THEN put ELSE logs[p][n]
    BY <1>2, <1>3
  <1> HIDE DEF log, op
  <1>8. \A n \in Moments : log[n] # NotReached => log[n].device <= Clock(p)
    BY <1>3, <1>6, <1>7
  <1>9. \A n \in Moments : log[n] # NotReached <=> logs[p][n] # NotReached
    BY <1>3, <1>6, <1>7
  <1>10. \A n \in Moments : logs[p][n] # NotReached =>
           /\ log[n].device = logs[p][n].device
           /\ ~Corrects(op, n) => log[n].corrected = logs[p][n].corrected
    BY <1>3, <1>5, <1>6, <1>7
  <1>11. log[op.milestone].corrected = op.time
    BY <1>3, <1>5, <1>7
  <1> QED BY <1>1, <1>4, <1>5, <1>6, <1>7, <1>8, <1>9, <1>10, <1>11, PhoneNotes

-----------------------------------------------------------------------------
(* The server *)

\* Steps that leave the phones alone and correct what is on record.
LEMMA DeskWrites ==
  ASSUME TimeLogInv, TimeLogTyped', RowSaysTrail', FormsReached',
         UNCHANGED <<logs, outbox, answered>>, hour' >= hour,
         \A m \in Moments :
           /\ times'[m] = NotReached <=> times[m] = NotReached
           /\ times[m] # NotReached => times'[m].device = times[m].device
           /\ \A i \in Noted(m) : i \in Noted(m)' /\ timeTrail'[i] = timeTrail[i]
           /\ times'[m] # times[m] =>
                \E i \in Noted(m)' : timeTrail'[i].by \notin Handhelds
  PROVE  TimeLogInv'
  <1>1. LogsBehind'
    <2> SUFFICES ASSUME NEW p \in Handhelds, NEW m \in Moments, logs[p][m] # NotReached
                 PROVE  logs[p][m].device <= Clock(p)'
      BY DEF LogsBehind
    <2>1. logs[p][m].device <= Clock(p) /\ logs[p][m] \in LogRow
      BY DEF TimeLogInv, TimeLogTyped, LogsBehind
    <2>2. Clock(p) \in Int /\ Clock(p)' \in Int /\ Clock(p) <= Clock(p)'
      BY ClocksGiven DEF Clock, TimeLogInv, TimeLogTyped
    <2> QED BY <2>1, <2>2 DEF LogRow
  <1>2. OutboxFromLog' /\ TimesFromLog'
    <2>1. OutboxFromLog'
      BY DEF TimeLogInv, OutboxFromLog, FromTheLog
    <2>2. TimesFromLog'
      BY DEF TimeLogInv, TimesFromLog
    <2> QED BY <2>1, <2>2
  <1>3. AloneOnRecord'
    <2> SUFFICES ASSUME NEW q \in Handhelds, OnItsOwn(q)', NEW m \in Moments
                 PROVE  AsNoted(q, m)'
      BY DEF AloneOnRecord
    <2>1. OnItsOwn(q) /\ AsNoted(q, m)
      BY DEF OnItsOwn, WorkedAlone, TimeLogInv, AloneOnRecord
    <2>2. (\A i \in Noted(m)' : timeTrail'[i].by = q) =>
            times'[m] = times[m] /\ \A i \in Noted(m) : timeTrail[i].by = q
      OBVIOUS
    <2> QED BY <2>1, <2>2 DEF AsNoted
  <1> QED BY <1>1, <1>2, <1>3 DEF TimeLogInv

\* An operation that arrives is applied or refused, and leaves the outbox.
LEMMA OperationArrives ==
  ASSUME TimeLogInv, NEW p \in Handhelds, outbox[p] # <<>>, NEW yes \in BOOLEAN, Applied(p, yes),
         times' \in [Moments -> LogRow \cup {NotReached}], timeTrail' \in Seq(TrailEntry), RowSaysTrail',
         ~yes => UNCHANGED <<times, timeTrail>>,
         \A m \in Moments :
           /\ times[m] # NotReached => /\ times'[m] # NotReached /\ times'[m].device = times[m].device
                                       /\ ~Corrects(Head(outbox[p]), m) =>
                                            times'[m].corrected = times[m].corrected
           /\ times[m] = NotReached /\ times'[m] # NotReached =>
                /\ PassesBy(Head(outbox[p]), m)
                /\ times'[m].device = Head(outbox[p]).time /\ times'[m].corrected = NoTime
           /\ yes /\ PassesBy(Head(outbox[p]), m) => times'[m] # NotReached
           /\ yes /\ Corrects(Head(outbox[p]), m) =>
                times[m] # NotReached /\ times'[m].corrected = Head(outbox[p]).time
           /\ \A i \in Noted(m) : i \in Noted(m)' /\ timeTrail'[i] = timeTrail[i]
  PROVE  TimeLogInv'
  <1>1. /\ \A q \in Handhelds : outbox'[q] = IF q = p THEN Tail(outbox[p]) ELSE outbox[q]
        /\ UNCHANGED <<hour, logs, forms>>
    BY DEF Applied, TimeLogInv, TimeLogTyped
  <1> DEFINE count == IF yes THEN [answered[p] EXCEPT !.applied = answered[p].applied + 1]
                      ELSE [answered[p] EXCEPT !.refused = answered[p].refused + 1]
  <1>2. answered' = [answered EXCEPT ![p] = count]
    BY DEF Applied, TimeLogInv, TimeLogTyped
  <1>3. answered[p] \in [applied: Nat, refused: Nat]
    BY DEF TimeLogInv, TimeLogTyped
  <1>4. /\ count \in [applied: Nat, refused: Nat]
        /\ yes => count.applied # 0 /\ count.refused = answered[p].refused
        /\ ~yes => count.refused # 0 /\ count.applied = answered[p].applied
    BY <1>3
  <1> HIDE DEF count
  <1>5. /\ answered' \in [Handhelds -> [applied: Nat, refused: Nat]]
        /\ answered'[p] = count /\ \A q \in Handhelds : q # p => answered'[q] = answered[q]
        /\ yes => answered'[p].applied # 0 /\ answered'[p].refused = answered[p].refused
        /\ ~yes => answered'[p].refused # 0 /\ answered'[p].applied = answered[p].applied
    BY <1>2, <1>4 DEF TimeLogInv, TimeLogTyped
  <1>6. outbox[p] \in Seq(Operation)
    BY DEF TimeLogInv, TimeLogTyped
  <1> DEFINE ops == outbox[p]
             rest == Tail(outbox[p])
             op == Head(outbox[p])
  <1>7. /\ op \in Operation /\ rest \in Seq(Operation) /\ 1 \in DOMAIN ops /\ ops[1] = op
        /\ \A i \in DOMAIN rest : i + 1 \in DOMAIN ops /\ rest[i] = ops[i + 1]
        /\ \A m, time : PassesFirst(ops, m, time) =>
             IF PassesBy(op, m) THEN op.time = time ELSE PassesFirst(rest, m, time)
        /\ \A m : NoCorrection(ops, m) => NoCorrection(rest, m) /\ ~Corrects(op, m)
        /\ \A m, time : CorrectsLast(ops, m, time) =>
             IF NoCorrection(rest, m) THEN Corrects(op, m) /\ op.time = time
             ELSE CorrectsLast(rest, m, time)
    BY <1>6, OutboxTaken
  <1>8. TimeLogTyped'
    <2>1. outbox' \in [Handhelds -> Seq(Operation)]
      BY <1>6, <1>7 DEF Applied, TimeLogInv, TimeLogTyped
    <2> QED BY <1>1, <1>5, <2>1 DEF TimeLogInv, TimeLogTyped
  <1>9. FormsReached'
    <2>1. \A s \in Supervisors : forms[s] # NoForm => forms[s].milestone \in Moments
      BY DEF TimeLogInv, TimeLogTyped, FormRow
    <2> QED BY <2>1, <1>1 DEF TimeLogInv, FormsReached
  <1>10. LogsBehind'
    BY <1>1 DEF TimeLogInv, LogsBehind, Clock
  <1>11. OutboxFromLog'
    <2> SUFFICES ASSUME NEW q \in Handhelds, NEW x, \E i \in DOMAIN outbox'[q] : outbox'[q][i] = x
                 PROVE  FromTheLog(q, x)'
      BY DEF OutboxFromLog, FromTheLog
    <2>1. \E i \in DOMAIN outbox[q] : outbox[q][i] = x
      <3>1. CASE q # p
        BY <3>1, <1>1
      <3>2. CASE q = p
        <4>1. PICK i \in DOMAIN rest : rest[i] = x
          BY <3>2, <1>1
        <4> QED BY <4>1, <3>2, <1>7
      <3> QED BY <3>1, <3>2
    <2> QED BY <2>1, <1>1 DEF TimeLogInv, OutboxFromLog, FromTheLog
  <1>12. FromTheLog(p, op)
    BY <1>7 DEF TimeLogInv, OutboxFromLog
  <1>13. TimesFromLog'
    <2> SUFFICES ASSUME NEW m \in Moments, times'[m] # NotReached
                 PROVE  \E q \in Handhelds : logs[q][m] # NotReached
                                             /\ times'[m].device >= logs[q][m].device
      BY <1>1 DEF TimesFromLog
    <2>1. CASE times[m] # NotReached
      BY <2>1 DEF TimeLogInv, TimesFromLog
    <2>2. CASE times[m] = NotReached
      <3>1. op.kind = "transition" /\ op.milestone = m /\ times'[m].device = op.time
        BY <2>2 DEF PassesBy
      <3>2. logs[p][m] # NotReached /\ logs[p][m].device <= op.time
        BY <3>1, <1>12 DEF FromTheLog
      <3>3. logs[p][m] \in LogRow /\ op.time \in Int
        BY <3>2, <1>7 DEF TimeLogInv, TimeLogTyped, Operation
      <3> QED BY <3>1, <3>2, <3>3 DEF LogRow
    <2> QED BY <2>1, <2>2
  <1>14. AloneOnRecord'
    <2> SUFFICES ASSUME NEW q \in Handhelds, OnItsOwn(q)', NEW m \in Moments
                 PROVE  AsNoted(q, m)'
      BY DEF AloneOnRecord
    <2>1. CASE q # p
      <3>1. ~yes
        BY <2>1, <1>5 DEF OnItsOwn, WorkedAlone
      <3>2. OnItsOwn(q)
        BY <2>1, <3>1, <1>5 DEF OnItsOwn, WorkedAlone
      <3> QED BY <2>1, <3>1, <3>2, <1>1 DEF AsNoted, Noted, TimeLogInv, AloneOnRecord
    <2>2. CASE q = p
      <3>1. yes
        BY <2>2, <1>5 DEF OnItsOwn
      <3>2. OnItsOwn(p)
        BY <2>2, <3>1, <1>5 DEF OnItsOwn, WorkedAlone
      <3> DEFINE log == logs[p][m]
                 was == times[m]
                 is == times'[m]
                 mine == \A i \in Noted(m) : timeTrail[i].by = p
                 now == \A i \in Noted(m)' : timeTrail'[i].by = p
      <3>3. /\ log = NotReached => was = NotReached
            /\ was # NotReached => was.device = log.device
            /\ log # NotReached /\ was = NotReached => PassesFirst(ops, m, log.device)
            /\ log # NotReached =>
                 IF NoCorrection(ops, m)
                 THEN /\ was = NotReached => log.corrected = NoTime
                      /\ was # NotReached /\ mine => was.corrected = log.corrected
                 ELSE CorrectsLast(ops, m, log.corrected)
        BY <3>2 DEF TimeLogInv, AloneOnRecord, AsNoted
      <3>4. /\ was # NotReached => is # NotReached /\ is.device = was.device
            /\ was # NotReached /\ ~Corrects(op, m) => is.corrected = was.corrected
            /\ was = NotReached /\ is # NotReached =>
                 PassesBy(op, m) /\ is.device = op.time /\ is.corrected = NoTime
            /\ PassesBy(op, m) => is # NotReached
            /\ Corrects(op, m) => was # NotReached /\ is.corrected = op.time
            /\ now => mine
        BY <3>1
      <3>5. PassesBy(op, m) => log # NotReached
        BY <1>12 DEF FromTheLog, PassesBy
      <3>6. logs'[q][m] = log /\ outbox'[q] = rest /\ (q = p)
        BY <2>2, <1>1
      <3> HIDE DEF ops, rest, op, log, was, is, mine, now
      <3>7. /\ log = NotReached => is = NotReached
            /\ is # NotReached => is.device = log.device
        BY <3>3, <3>4, <3>5, <1>7
      <3>8. log # NotReached /\ is = NotReached => PassesFirst(rest, m, log.device)
        BY <3>3, <3>4, <1>7
      <3>9. log # NotReached =>
              IF NoCorrection(rest, m)
              THEN /\ is = NotReached => log.corrected = NoTime
                   /\ is # NotReached /\ now => is.corrected = log.corrected
              ELSE CorrectsLast(rest, m, log.corrected)
        <4>1. CASE NoCorrection(ops, m)
          BY <4>1, <3>3, <3>4, <1>7
        <4>2. CASE ~NoCorrection(ops, m)
          BY <4>2, <3>3, <3>4, <1>7
        <4> QED BY <4>1, <4>2
      <3> QED BY <3>6, <3>7, <3>8, <3>9 DEF AsNoted, is, now
    <2> QED BY <2>1, <2>2
  <1> QED BY <1>8, <1>9, <1>10, <1>11, <1>13, <1>14 DEF TimeLogInv

\* A transition puts its time on the row if there is none.
LEMMA TransitionArrives ==
  ASSUME TimeLogInv, NEW p \in Handhelds, DeliverTransition(p)
  PROVE  TimeLogInv'
  <1> DEFINE op == Head(outbox[p])
             m == op.milestone
             fresh == [device |-> op.time, corrected |-> NoTime]
  <1>1. outbox[p] # <<>> /\ op.kind = "transition" /\ timeTrail' = timeTrail
    BY DEF DeliverTransition
  <1>2. PICK yes \in BOOLEAN :
        Applied(p, yes) /\ times' = IF yes THEN _record_milestone(m, op.time) ELSE times
    BY DEF DeliverTransition
  <1>3. op \in Operation
    BY <1>1, OutboxTaken DEF TimeLogInv, TimeLogTyped
  <1>4. /\ m \in Moments /\ fresh \in LogRow /\ fresh # NotReached
        /\ fresh.device = op.time /\ fresh.corrected = NoTime
    BY <1>3, RowsThere DEF Operation, LogRow, NoTime
  <1>5. \A n : ~Corrects(op, n) /\ (PassesBy(op, n) <=> n = m)
    BY <1>1 DEF PassesBy, Corrects
  <1>6. times \in [Moments -> LogRow \cup {NotReached}] /\ timeTrail \in Seq(TrailEntry)
    BY DEF TimeLogInv, TimeLogTyped
  <1>7. ASSUME yes, times[m] = NotReached PROVE times' = [times EXCEPT ![m] = fresh]
    BY <1>2, <1>7 DEF _record_milestone
  <1>8. ~(yes /\ times[m] = NotReached) => times' = times
    BY <1>2 DEF _record_milestone
  <1>9. \A n : Noted(n)' = Noted(n)
    BY <1>1 DEF Noted
  <1> HIDE DEF op, m, fresh
  <1>10. /\ times' \in [Moments -> LogRow \cup {NotReached}]
         /\ \A n \in Moments :
              /\ times[n] # NotReached => times'[n] = times[n]
              /\ times[n] = NotReached /\ times'[n] # NotReached => n = m /\ times'[n] = fresh
    BY <1>4, <1>6, <1>7, <1>8
  <1>11. yes => times'[m] # NotReached
    BY <1>4, <1>6, <1>7, <1>8
  <1>12. RowSaysTrail'
    <2> SUFFICES ASSUME NEW n \in Moments
                 PROVE  /\ times'[n] = NotReached => Noted(n) = {}
                        /\ times'[n] # NotReached =>
                             IF Noted(n) = {} THEN times'[n].corrected = NoTime
                             ELSE \E i \in Noted(n) : LastNoted(n, i) /\ times'[n].corrected = timeTrail[i].to
      BY <1>1, <1>9 DEF RowSaysTrail, LastNoted
    <2> QED BY <1>4, <1>10 DEF TimeLogInv, RowSaysTrail
  <1> HIDE DEF Applied
  <1>13. ~yes => UNCHANGED <<times, timeTrail>>
    BY <1>1, <1>8
  <1>14. \A n \in Moments : \A i \in Noted(n) : i \in Noted(n)' /\ timeTrail'[i] = timeTrail[i]
    BY <1>1, <1>9
  <1>15. \A n \in Moments :
           /\ times[n] # NotReached => /\ times'[n] # NotReached /\ times'[n].device = times[n].device
                                       /\ ~Corrects(op, n) => times'[n].corrected = times[n].corrected
           /\ times[n] = NotReached /\ times'[n] # NotReached =>
                /\ PassesBy(op, n) /\ times'[n].device = op.time /\ times'[n].corrected = NoTime
           /\ yes /\ PassesBy(op, n) => times'[n] # NotReached
           /\ ~Corrects(op, n)
    BY <1>4, <1>5, <1>10, <1>11
  <1> QED BY <1>1, <1>2, <1>6, <1>10, <1>12, <1>13, <1>14, <1>15, OperationArrives DEF op

\* A correction of the phone goes to the row and, with its author, to the trail.
LEMMA CorrectionArrives ==
  ASSUME TimeLogInv, NEW p \in Handhelds, _apply_time_correction(p)
  PROVE  TimeLogInv'
  <1> DEFINE op == Head(outbox[p])
             m == op.milestone
             yes == Correctable(m, op.time)
             e == Entry(m, effective_time(times[m]), op.time, p, op.made)
  <1>1. /\ outbox[p] # <<>> /\ op.kind = "time_correction" /\ Applied(p, yes)
        /\ times' = IF yes THEN Corrected(m, op.time) ELSE times
        /\ timeTrail' = IF yes THEN Append(timeTrail, e) ELSE timeTrail
    BY DEF _apply_time_correction
  <1>2. op \in Operation /\ 1 \in DOMAIN outbox[p] /\ outbox[p][1] = op
    BY <1>1, OutboxTaken DEF TimeLogInv, TimeLogTyped
  <1>3. m \in Moments /\ op.time \in Nat /\ op.made \in Nat
    BY <1>1, <1>2 DEF Operation, TimeLogInv, OutboxFromLog, FromTheLog
  <1>4. \A n : ~PassesBy(op, n) /\ (Corrects(op, n) <=> n = m)
    BY <1>1 DEF PassesBy, Corrects
  <1>5. /\ times \in [Moments -> LogRow \cup {NotReached}] /\ timeTrail \in Seq(TrailEntry)
        /\ TimeLogTyped /\ RowSaysTrail
    BY DEF TimeLogInv, TimeLogTyped
  <1>6. yes \in BOOLEAN /\ (yes => times[m] # NotReached)
    BY DEF Correctable
  <1>7. e.milestone = m /\ e.to = op.time /\ e.by = p
    BY DEF Entry
  <1>8. yes => e \in TrailEntry
    <2> SUFFICES ASSUME yes PROVE e \in TrailEntry
      OBVIOUS
    <2>1. times[m] \in LogRow
      BY <1>3, <1>5, <1>6
    <2>2. effective_time(times[m]) \in Int
      BY <2>1 DEF effective_time, LogRow
    <2> QED BY <2>2, <1>3 DEF Entry, TrailEntry
  <1> HIDE DEF op, m, yes, e
  <1>9. CASE yes
    <2>1. times' = Corrected(e.milestone, e.to) /\ timeTrail' = Append(timeTrail, e)
      BY <1>1, <1>7, <1>9
    <2>2. e \in TrailEntry /\ times[e.milestone] # NotReached
      BY <1>6, <1>7, <1>8, <1>9
    <2>3. /\ times' \in [Moments -> LogRow \cup {NotReached}] /\ timeTrail' \in Seq(TrailEntry)
          /\ RowSaysTrail'
          /\ \A n \in Moments :
               /\ times'[n] = NotReached <=> times[n] = NotReached
               /\ times[n] # NotReached => times'[n].device = times[n].device
               /\ n # m => times'[n] = times[n]
               /\ \A i \in Noted(n) : i \in Noted(n)' /\ timeTrail'[i] = timeTrail[i]
          /\ times'[m].corrected = op.time
      BY <1>5, <1>7, <2>1, <2>2, CorrectionWritten
    <2>4. \A n \in Moments :
           /\ times[n] # NotReached => /\ times'[n] # NotReached /\ times'[n].device = times[n].device
                                       /\ ~Corrects(op, n) => times'[n].corrected = times[n].corrected
           /\ ~(times[n] = NotReached /\ times'[n] # NotReached)
           /\ ~PassesBy(op, n)
           /\ Corrects(op, n) => times[n] # NotReached /\ times'[n].corrected = op.time
           /\ \A i \in Noted(n) : i \in Noted(n)' /\ timeTrail'[i] = timeTrail[i]
      BY <1>4, <1>6, <1>9, <2>3
    <2> QED BY <1>1, <1>6, <1>9, <2>3, <2>4, OperationArrives DEF op
  <1>10. CASE ~yes
    <2>1. times' = times /\ timeTrail' = timeTrail
      BY <1>1, <1>10
    <2>2. RowSaysTrail' /\ \A n : Noted(n)' = Noted(n)
      BY <1>5, <2>1 DEF RowSaysTrail, Noted, LastNoted
    <2>3. times' \in [Moments -> LogRow \cup {NotReached}] /\ timeTrail' \in Seq(TrailEntry)
      BY <1>5, <2>1
    <2> QED BY <1>1, <1>4, <1>6, <1>10, <2>1, <2>2, <2>3, OperationArrives DEF op
  <1> QED BY <1>9, <1>10

\* The desk reads, and later writes only the correction.
LEMMA DeskReads ==
  ASSUME TimeLogInv, NEW s \in Supervisors, NEW m \in Moments, NEW time \in Slots,
         PutMilestone(s, m, time)
  PROVE  TimeLogInv'
  <1> DEFINE form == [milestone |-> m, time |-> time, made |-> hour, from |-> effective_time(times[m])]
  <1>1. /\ times[m] # NotReached /\ forms' = [forms EXCEPT ![s] = form]
        /\ UNCHANGED <<hour, logs, outbox, times, timeTrail, answered>>
    BY DEF PutMilestone, Correctable
  <1>2. times[m] \in LogRow
    BY <1>1 DEF TimeLogInv, TimeLogTyped
  <1>3. effective_time(times[m]) \in Int
    BY <1>2 DEF effective_time, LogRow
  <1>4. form \in FormRow /\ form.milestone = m
    BY <1>3, ClocksGiven DEF FormRow, TimeLogInv, TimeLogTyped
  <1> HIDE DEF form
  <1>5. TimeLogTyped'
    BY <1>1, <1>4 DEF TimeLogInv, TimeLogTyped
  <1>6. FormsReached'
    BY <1>1, <1>4 DEF TimeLogInv, TimeLogTyped, FormsReached
  <1>7. RowSaysTrail' /\ \A n : Noted(n)' = Noted(n)
    BY <1>1 DEF TimeLogInv, RowSaysTrail, Noted, LastNoted
  <1>8. hour' >= hour
    BY <1>1 DEF TimeLogInv, TimeLogTyped
  <1> QED BY <1>1, <1>5, <1>6, <1>7, <1>8, DeskWrites

\* What it writes is of nobody's phone.
LEMMA DeskCommits ==
  ASSUME TimeLogInv, NEW s \in Supervisors, PutCommit(s)
  PROVE  TimeLogInv'
  <1> DEFINE form == forms[s]
             entry == Entry(form.milestone, form.from, form.time, s, form.made)
  <1>1. /\ form # NoForm /\ times' = Corrected(form.milestone, form.time)
        /\ timeTrail' = Append(timeTrail, entry) /\ forms' = [forms EXCEPT ![s] = NoForm]
        /\ UNCHANGED <<hour, logs, outbox, answered>>
    BY DEF PutCommit
  <1>2. form \in FormRow /\ times[form.milestone] # NotReached
    BY <1>1 DEF TimeLogInv, TimeLogTyped, FormsReached
  <1>3. /\ entry \in TrailEntry /\ entry.milestone = form.milestone /\ entry.to = form.time
        /\ entry.by \notin Handhelds
    BY <1>2, NobodyIsAPhone DEF Entry, TrailEntry, FormRow
  <1>4. TimeLogTyped /\ RowSaysTrail
    BY DEF TimeLogInv
  <1> HIDE DEF form, entry
  <1>5. PICK e \in TrailEntry : e = entry /\ e.milestone = form.milestone /\ e.to = form.time
                                /\ e.by \notin Handhelds
    BY <1>3
  <1>6. times[e.milestone] # NotReached /\ times' = Corrected(e.milestone, e.to)
    BY <1>1, <1>2, <1>5
  <1>7. /\ times' \in [Moments -> LogRow \cup {NotReached}] /\ timeTrail' \in Seq(TrailEntry)
        /\ RowSaysTrail'
        /\ \A m \in Moments :
             /\ times'[m] = NotReached <=> times[m] = NotReached
             /\ times[m] # NotReached => times'[m].device = times[m].device
             /\ m # e.milestone => times'[m] = times[m]
             /\ \A i \in Noted(m) : i \in Noted(m)' /\ timeTrail'[i] = timeTrail[i]
        /\ \E i \in Noted(e.milestone)' : timeTrail'[i] = e
    BY <1>1, <1>5, <1>4, <1>6, CorrectionWritten
  <1>8. TimeLogTyped'
    BY <1>1, <1>7 DEF TimeLogInv, TimeLogTyped
  <1>9. FormsReached'
    <2> SUFFICES ASSUME NEW t \in Supervisors, forms'[t] # NoForm
                 PROVE  times'[forms'[t].milestone] # NotReached
      BY DEF FormsReached
    <2>1. forms'[t] = forms[t] /\ forms[t] \in FormRow
      BY <1>1 DEF TimeLogInv, TimeLogTyped
    <2>2. forms[t].milestone \in Moments /\ times[forms[t].milestone] # NotReached
      BY <2>1 DEF FormRow, TimeLogInv, FormsReached
    <2> QED BY <2>1, <2>2, <1>7
  <1>10. hour' >= hour
    BY <1>1 DEF TimeLogInv, TimeLogTyped
  <1>11. \A m \in Moments : times'[m] # times[m] => \E i \in Noted(m)' : timeTrail'[i].by \notin Handhelds
    <2> SUFFICES ASSUME NEW m \in Moments, times'[m] # times[m]
                 PROVE  \E i \in Noted(m)' : timeTrail'[i].by \notin Handhelds
      OBVIOUS
    <2>1. m = e.milestone
      BY <1>7
    <2>2. PICK i \in Noted(e.milestone)' : timeTrail'[i] = e
      BY <1>7
    <2> QED BY <1>5, <2>1, <2>2
  <1> QED BY <1>1, <1>7, <1>8, <1>9, <1>10, <1>11, DeskWrites

\* The clocks go on together.
LEMMA HourPasses ==
  ASSUME TimeLogInv, Tick
  PROVE  TimeLogInv'
  <1>1. hour' \in Nat /\ hour' >= hour /\ UNCHANGED <<logs, outbox, times, timeTrail, forms, answered>>
    BY DEF Tick, TimeLogInv, TimeLogTyped
  <1>2. RowSaysTrail' /\ FormsReached' /\ \A n : Noted(n)' = Noted(n)
    BY <1>1 DEF TimeLogInv, RowSaysTrail, FormsReached, Noted, LastNoted
  <1>3. TimeLogTyped'
    BY <1>1 DEF TimeLogInv, TimeLogTyped
  <1> QED BY <1>1, <1>2, <1>3, DeskWrites

-----------------------------------------------------------------------------
(* The invariant *)

\* Nothing is noted, sent or on record before the first transition.
LEMMA TimeLogStarts == TimeLogInit => TimeLogInv
  <1> SUFFICES ASSUME TimeLogInit PROVE TimeLogInv
    OBVIOUS
  <1>1. TimeLogTyped
    BY DEF TimeLogInit, TimeLogTyped
  <1>2. /\ \A p \in Handhelds : outbox[p] = <<>> /\ \A m \in Moments : logs[p][m] = NotReached
        /\ \A m \in Moments : times[m] = NotReached /\ Noted(m) = {}
        /\ \A s \in Supervisors : forms[s] = NoForm
    BY DEF TimeLogInit, Noted
  <1>3. RowSaysTrail /\ FormsReached /\ LogsBehind /\ OutboxFromLog /\ TimesFromLog
    BY <1>2 DEF RowSaysTrail, FormsReached, LogsBehind, OutboxFromLog, TimesFromLog
  <1>4. AloneOnRecord
    BY <1>2 DEF AloneOnRecord, AsNoted
  <1> QED BY <1>1, <1>3, <1>4 DEF TimeLogInv

\* One step of TimeLogNext, an action at a time.
LEMMA TimeLogStep == TimeLogInv /\ [TimeLogNext]_tlvars => TimeLogInv'
  <1> SUFFICES ASSUME TimeLogInv, [TimeLogNext]_tlvars PROVE TimeLogInv'
    OBVIOUS
  <1>1. CASE Tick
    BY <1>1, HourPasses
  <1>2. ASSUME NEW p \in Handhelds, NEW m \in Moments, PhoneMoves(p, m) PROVE TimeLogInv'
    BY <1>2, PhoneMovesOn
  <1>3. ASSUME NEW p \in Handhelds, NEW m \in Moments, NEW time \in Slots, correct(p, m, time)
        PROVE  TimeLogInv'
    BY <1>3, PhoneCorrects
  <1>4. ASSUME NEW p \in Handhelds, DeliverTransition(p) PROVE TimeLogInv'
    BY <1>4, TransitionArrives
  <1>5. ASSUME NEW p \in Handhelds, _apply_time_correction(p) PROVE TimeLogInv'
    BY <1>5, CorrectionArrives
  <1>6. ASSUME NEW s \in Supervisors, NEW m \in Moments, NEW time \in Slots, PutMilestone(s, m, time)
        PROVE  TimeLogInv'
    BY <1>6, DeskReads
  <1>7. ASSUME NEW s \in Supervisors, PutCommit(s) PROVE TimeLogInv'
    BY <1>7, DeskCommits
  <1>8. CASE UNCHANGED tlvars
    <2>1. UNCHANGED <<hour, logs, outbox, times, timeTrail, forms, answered>>
      BY <1>8 DEF tlvars
    <2>2. RowSaysTrail' /\ FormsReached' /\ \A m : Noted(m)' = Noted(m)
      BY <2>1 DEF TimeLogInv, RowSaysTrail, FormsReached, Noted, LastNoted
    <2>3. TimeLogTyped' /\ hour' >= hour
      BY <2>1 DEF TimeLogInv, TimeLogTyped
    <2> QED BY <2>1, <2>2, <2>3, DeskWrites
  <1> QED BY <1>1, <1>2, <1>3, <1>4, <1>5, <1>6, <1>7, <1>8 DEF TimeLogNext

\* With nothing left to send, what was on its way is on the row.
LEMMA TimesAreThePhones == TimeLogInv => PhoneTimesStand
  <1> SUFFICES ASSUME TimeLogInv PROVE PhoneTimesStand
    OBVIOUS
  <1>1. ASSUME NEW m \in Moments, times[m] # NotReached
        PROVE  /\ IF Noted(m) = {} THEN effective_time(times[m]) = times[m].device
                  ELSE \E i \in Noted(m) : LastNoted(m, i) /\ effective_time(times[m]) = timeTrail[i].to
               /\ \E p \in Handhelds : logs[p][m] # NotReached /\ times[m].device >= logs[p][m].device
               /\ Noted(m) # {} => times[m].corrected # NoTime
    <2>1. ASSUME NEW i \in Noted(m) PROVE timeTrail[i].to # NoTime
      <3>1. timeTrail \in Seq(TrailEntry) /\ i \in DOMAIN timeTrail
        BY DEF Noted, TimeLogInv, TimeLogTyped
      <3>2. timeTrail[i] \in TrailEntry
        BY <3>1
      <3> QED BY <3>2 DEF TrailEntry, NoTime
    <2>2. IF Noted(m) = {} THEN times[m].corrected = NoTime
          ELSE \E i \in Noted(m) : LastNoted(m, i) /\ times[m].corrected = timeTrail[i].to
      BY <1>1 DEF TimeLogInv, RowSaysTrail
    <2>3. \E p \in Handhelds : logs[p][m] # NotReached /\ times[m].device >= logs[p][m].device
      BY <1>1 DEF TimeLogInv, TimesFromLog
    <2> QED BY <2>1, <2>2, <2>3 DEF effective_time
  <1>2. ASSUME NEW p \in Handhelds, WorkedAlone(p), outbox[p] = <<>>, answered[p].refused = 0,
               NEW m \in Moments
        PROVE  /\ (logs[p][m] = NotReached) = (times[m] = NotReached)
               /\ times[m] # NotReached =>
                    /\ times[m].device = logs[p][m].device
                    /\ (\A i \in Noted(m) : timeTrail[i].by = p) => times[m] = logs[p][m]
    <2>1. AsNoted(p, m)
      BY <1>2 DEF TimeLogInv, AloneOnRecord, OnItsOwn
    <2>2. NoCorrection(outbox[p], m) /\ \A time : ~PassesFirst(outbox[p], m, time)
      BY <1>2 DEF NoCorrection, PassesFirst
    <2>3. logs[p][m] = NotReached <=> times[m] = NotReached
      BY <2>1, <2>2 DEF AsNoted
    <2>4. ASSUME times[m] # NotReached, \A i \in Noted(m) : timeTrail[i].by = p
          PROVE  times[m] = logs[p][m]
      <3>1. times[m] \in LogRow /\ logs[p][m] \in LogRow
        BY <2>3, <2>4 DEF TimeLogInv, TimeLogTyped
      <3>2. times[m].device = logs[p][m].device /\ times[m].corrected = logs[p][m].corrected
        BY <2>1, <2>2, <2>3, <2>4 DEF AsNoted
      <3> QED BY <3>1, <3>2 DEF LogRow
    <2> QED BY <2>1, <2>3, <2>4 DEF AsNoted
  <1> QED BY <1>1, <1>2 DEF PhoneTimesStand

\* In every state a row says what the last entry of the trail says, what leaves a phone
\* is of its log, and what a phone that works alone noted is on the row or on its way
\* (onTransition and correct of TimeLog.kt, _record_milestone, _apply_time_correction,
\* correct_milestone).
THEOREM TimesAlways == TimeLogSpec => []TimeLogInv
  <1> QED BY TimeLogStarts, TimeLogStep, PTL DEF TimeLogSpec

\* The times of the server are those the phone noted and its corrections, whenever they
\* arrive and whoever corrects them meanwhile, and the trail says where each is from
\* (_record_milestone and correct_milestone of workorders/service.py).
THEOREM PhoneTimesAlwaysStand == TimeLogSpec => []PhoneTimesStand
  <1> QED BY TimesAlways, TimesAreThePhones, PTL

-----------------------------------------------------------------------------
(****************************************************************************)
(* FILES: the object a close leaves is the file                             *)
(****************************************************************************)

\* What holds of zero, and of a number whenever of the one before, holds up to any bound.
LEMMA UpTo ==
  ASSUME NEW n \in Nat, NEW S, 0 \in S, \A k \in 0 .. n - 1 : k \in S => k + 1 \in S
  PROVE  \A k \in 0 .. n : k \in S
  <1> SUFFICES ASSUME NEW b \in 0 .. n, b \notin S PROVE FALSE
    OBVIOUS
  <1> DEFINE T == {k \in 0 .. n : k \notin S}
             Less == OpToRel(<, Nat)
  <1>1. T \subseteq Nat /\ T # {}
    OBVIOUS
  <1>2. IsWellFoundedOn(Less, Nat)
    BY NatLessThanWellFounded
  <1>3. \A a, c \in Nat : a < c => <<a, c>> \in Less
    BY DEF OpToRel
  <1> HIDE DEF Less, T
  <1>4. PICK x \in T : \A y \in T : ~(<<y, x>> \in Less)
    BY <1>1, <1>2, WFMin
  <1>5. x \in 0 .. n /\ x \notin S /\ x # 0
    BY <1>4 DEF T
  <1>6. x - 1 \in 0 .. n - 1 /\ x - 1 \in Nat /\ x \in Nat /\ x - 1 < x /\ x - 1 + 1 = x
    BY <1>5
  <1>7. x - 1 \notin T
    BY <1>3, <1>4, <1>6
  <1> QED BY <1>5, <1>6, <1>7 DEF T

-----------------------------------------------------------------------------
(* Parts *)

\* Parts of one size keep the order of their numbers.
LEMMA Multiples ==
  ASSUME NEW a \in Int, NEW b \in Int, NEW p \in Nat \ {0}
  PROVE  /\ a * p \in Int /\ (a - 1) * p = a * p - p
         /\ a <= b => a * p <= b * p
         /\ a * p < b * p => a < b
  <1>1. /\ a * p \in Int /\ (a - 1) * p = a * p - p
    OBVIOUS
  <1>2. ASSUME NEW x \in Int, NEW y \in Int, x <= y PROVE x * p <= y * p
    BY <1>2
  <1>3. b <= a => b * p <= a * p
    BY <1>2
  <1>4. a * p \in Int /\ b * p \in Int
    OBVIOUS
  <1> QED BY <1>1, <1>2, <1>3, <1>4

\* The server and the phone count the same parts: as many as it takes, and no more.
LEMMA PartsCounted ==
  ASSUME NEW bytes \in Nat \ {0}
  PROVE  /\ part_count(bytes) \in Nat \ {0}
         /\ (part_count(bytes) - 1) * PART_SIZE < bytes
         /\ bytes <= part_count(bytes) * PART_SIZE
         /\ (bytes + PART_SIZE - 1) \div PART_SIZE = part_count(bytes)
  <1> DEFINE p == PART_SIZE
             q == bytes \div p
             r == bytes % p
             n == part_count(bytes)
             d == (bytes + p - 1) \div p
             e == (bytes + p - 1) % p
  <1>1. p \in Nat \ {0}
    BY PartsHoldSomething
  <1>2. q \in Nat /\ r \in 0 .. p - 1 /\ bytes = q * p + r
    BY <1>1
  <1>3. d \in Nat /\ e \in 0 .. p - 1 /\ bytes + p - 1 = d * p + e
    BY <1>1
  <1>4. n = IF (IF r = 0 THEN q ELSE q + 1) < 1 THEN 1 ELSE IF r = 0 THEN q ELSE q + 1
    BY DEF part_count
  <1> HIDE DEF p, q, r, n, d, e
  <1>5. r = 0 => q # 0
    <2> SUFFICES ASSUME r = 0, q = 0 PROVE FALSE
      OBVIOUS
    <2>1. q * p = 0
      BY <1>1
    <2> QED BY <1>2, <2>1
  <1>6. n = IF r = 0 THEN q ELSE q + 1
    BY <1>2, <1>4, <1>5
  <1>7. n \in Nat \ {0}
    BY <1>2, <1>5, <1>6
  <1>8. q * p \in Int /\ (q + 1) * p = q * p + p /\ (q - 1) * p = q * p - p
        /\ q + 1 - 1 = q
    BY <1>1, <1>2
  <1>9. (n - 1) * p < bytes /\ bytes <= n * p
    <2>1. CASE r = 0
      <3>1. n = q
        BY <2>1, <1>6
      <3>2. bytes = q * p
        BY <2>1, <1>2, <1>8
      <3> QED BY <3>1, <3>2, <1>1, <1>8
    <2>2. CASE r # 0
      <3>1. n = q + 1 /\ n - 1 = q
        BY <2>2, <1>2, <1>6
      <3>2. q * p < bytes /\ bytes <= q * p + p
        BY <2>2, <1>1, <1>2, <1>8
      <3> QED BY <3>1, <3>2, <1>8
    <2> QED BY <2>1, <2>2
  <1>10. d * p \in Int /\ (d - 1) * p = d * p - p /\ n * p \in Int /\ (n - 1) * p = n * p - p
    BY <1>1, <1>3, <1>7, Multiples
  <1>11. (d - 1) * p < bytes /\ bytes <= d * p
    BY <1>1, <1>3, <1>10
  <1>12. (d - 1) * p < n * p /\ (n - 1) * p < d * p
    <2>1. \A x, y \in Int : x < bytes /\ bytes <= y => x < y
      OBVIOUS
    <2>2. (d - 1) * p \in Int /\ (n - 1) * p \in Int /\ d * p \in Int /\ n * p \in Int
      BY <1>1, <1>10
    <2> QED BY <2>1, <2>2, <1>9, <1>11
  <1>13. d - 1 < n /\ n - 1 < d
    <2>1. d - 1 \in Int /\ n - 1 \in Int /\ d \in Int /\ n \in Int
      BY <1>3, <1>7
    <2>2. d - 1 < n
      BY <2>1, <1>1, <1>12, Multiples
    <2>3. n - 1 < d
      BY <2>1, <1>1, <1>12, Multiples
    <2> QED BY <2>2, <2>3
  <1>14. d = n
    BY <1>3, <1>7, <1>13
  <1> QED BY <1>7, <1>9, <1>14 DEF n, p, d

\* The parts of a file, as its upload announces them.
PartsOf(f) == part_count(BytesOf[f])

\* The parts of a file, one after another, are the file.
LEMMA PartsMakeTheFile ==
  ASSUME NEW f \in Files, BytesOf[f] # 0
  PROVE  Assembled(f, 1 .. PartsOf(f)) = File(f)
  <1> DEFINE p == PART_SIZE
             bytes == BytesOf[f]
             n == PartsOf(f)
             file == File(f)
             reach == [k \in 0 .. n |-> IF k * p < bytes THEN k * p ELSE bytes]
             wholes == [k \in 0 .. n |-> SubSeq(file, 1, reach[k])]
             Follows(g) == g = [k \in 0 .. n |->
                IF k = 0 THEN <<>>
                ELSE IF k \in 1 .. n THEN g[k - 1] \o Bytes(f, PartRange(bytes, k)) ELSE g[k - 1]]
             chosen == CHOOSE g : Follows(g)
  <1>1. p \in Nat \ {0} /\ bytes \in Nat \ {0} /\ n \in Nat \ {0}
        /\ (n - 1) * p < bytes /\ bytes <= n * p
    BY PartsHoldSomething, FilesHaveSizes, PartsCounted DEF PartsOf
  <1>2. file \in Seq({f} \X Nat) /\ Len(file) = bytes
    BY <1>1 DEF File
  <1>3. Assembled(f, 1 .. n) = chosen[n]
    BY DEF Assembled, PartsOf
  <1>4. \A k \in 1 .. n : Bytes(f, PartRange(bytes, k)) =
          SubSeq(file, (k - 1) * p + 1, (k - 1) * p + (IF bytes - (k - 1) * p < p THEN bytes - (k - 1) * p ELSE p))
    BY DEF Bytes, PartRange
  <1> HIDE DEF n, file, bytes, p
  <1>5. \A k \in 1 .. n :
          /\ k * p \in Nat /\ (k - 1) * p = k * p - p /\ (k - 1) * p \in Nat
          /\ (k - 1) * p < bytes
    <2> SUFFICES ASSUME NEW k \in 1 .. n
                 PROVE  k * p \in Nat /\ (k - 1) * p = k * p - p /\ (k - 1) * p \in Nat
                        /\ (k - 1) * p < bytes
      OBVIOUS
    <2>1. k * p \in Nat /\ (k - 1) * p = k * p - p /\ (k - 1) * p \in Nat
      BY <1>1
    <2>2. (k - 1) * p <= (n - 1) * p
      <3>1. k - 1 \in Int /\ n - 1 \in Int /\ k - 1 <= n - 1
        BY <1>1
      <3> QED BY <3>1, <1>1, Multiples
    <2>3. (n - 1) * p \in Int
      BY <1>1
    <2> QED BY <2>1, <2>2, <2>3, <1>1
  <1>6. /\ reach[0] = 0 /\ reach[n] = bytes
        /\ \A k \in 1 .. n : /\ reach[k - 1] = (k - 1) * p
                             /\ reach[k] = (k - 1) * p + (IF bytes - (k - 1) * p < p
                                                          THEN bytes - (k - 1) * p ELSE p)
                             /\ reach[k - 1] \in 0 .. bytes /\ reach[k] \in reach[k - 1] .. bytes
    <2>1. 0 * p = 0 /\ 0 \in 0 .. n /\ n \in 0 .. n /\ n * p \in Nat
      BY <1>1
    <2>2. reach[0] = 0 /\ reach[n] = bytes
      BY <1>1, <2>1
    <2>3. ASSUME NEW k \in 1 .. n
          PROVE  /\ reach[k - 1] = (k - 1) * p
                 /\ reach[k] = (k - 1) * p + (IF bytes - (k - 1) * p < p
                                              THEN bytes - (k - 1) * p ELSE p)
                 /\ reach[k - 1] \in 0 .. bytes /\ reach[k] \in reach[k - 1] .. bytes
      <3>1. k - 1 \in 0 .. n /\ k \in 0 .. n
        BY <1>1
      <3>2. reach[k - 1] = (k - 1) * p
        BY <3>1, <1>5
      <3>3. reach[k] = IF k * p < bytes THEN k * p ELSE bytes
        BY <3>1
      <3> HIDE DEF reach
      <3> QED BY <3>2, <3>3, <1>1, <1>5
    <2> QED BY <2>2, <2>3
  <1>7. \A k \in 1 .. n : Bytes(f, PartRange(bytes, k)) = SubSeq(file, reach[k - 1] + 1, reach[k])
    BY <1>4, <1>6
  <1> HIDE DEF reach
  <1>8. \A k \in 1 .. n : wholes[k] = wholes[k - 1] \o Bytes(f, PartRange(bytes, k))
    <2> SUFFICES ASSUME NEW k \in 1 .. n
                 PROVE  wholes[k] = wholes[k - 1] \o Bytes(f, PartRange(bytes, k))
      OBVIOUS
    <2>1. /\ reach[k - 1] \in 0 .. Len(file) /\ reach[k] \in reach[k - 1] .. Len(file)
          /\ 1 \in 1 .. Len(file) + 1 /\ 1 - 1 = 0
      BY <1>1, <1>2, <1>6
    <2>2. SubSeq(file, 1, reach[k - 1]) \o SubSeq(file, reach[k - 1] + 1, reach[k]) = SubSeq(file, 1, reach[k])
      BY <2>1, <1>2, ConcatAdjacentSubSeq
    <2>3. k \in 0 .. n /\ k - 1 \in 0 .. n
      BY <1>1
    <2> QED BY <2>2, <2>3, <1>7
  <1>9. wholes[0] = <<>> /\ wholes[n] = file
    <2>1. wholes[0] = SubSeq(file, 1, 0) /\ wholes[n] = SubSeq(file, 1, Len(file))
      BY <1>1, <1>2, <1>6
    <2>2. SubSeq(file, 1, 0) = <<>>
      BY SubSeqEmpty
    <2>3. SubSeq(file, 1, Len(file)) = file
      BY <1>2, SubSeqFull
    <2> QED BY <2>1, <2>2, <2>3
  <1>10. Follows(wholes)
    <2> DEFINE again == [k \in 0 .. n |->
                IF k = 0 THEN <<>>
                ELSE IF k \in 1 .. n THEN wholes[k - 1] \o Bytes(f, PartRange(bytes, k)) ELSE wholes[k - 1]]
    <2>1. \A k \in 0 .. n : k = 0 \/ k \in 1 .. n
      BY <1>1
    <2>2. \A k \in 0 .. n : wholes[k] = again[k]
      <3> HIDE DEF wholes
      <3> QED BY <2>1, <1>8, <1>9
    <2> QED BY <2>2
  <1>11. Follows(chosen)
    BY <1>10
  <1> DEFINE Same == {k \in 0 .. n : chosen[k] = wholes[k]}
  <1> HIDE DEF chosen, wholes
  <1>12. chosen[0] = <<>> /\ \A k \in 1 .. n : chosen[k] = chosen[k - 1] \o Bytes(f, PartRange(bytes, k))
    <2>1. \A k \in 0 .. n : chosen[k] = 
            IF k = 0 THEN <<>>
            ELSE IF k \in 1 .. n THEN chosen[k - 1] \o Bytes(f, PartRange(bytes, k)) ELSE chosen[k - 1]
      BY <1>11
    <2>2. 0 \in 0 .. n /\ \A k \in 1 .. n : k \in 0 .. n /\ k # 0
      BY <1>1
    <2>3. chosen[0] = <<>>
      BY <2>1, <2>2
    <2>4. ASSUME NEW k \in 1 .. n PROVE chosen[k] = chosen[k - 1] \o Bytes(f, PartRange(bytes, k))
      <3>1. k \in 0 .. n /\ k # 0
        BY <2>2
      <3> QED BY <2>1, <3>1, Zenon
    <2> QED BY <2>3, <2>4
  <1> HIDE DEF Follows
  <1>13. 0 \in Same
    BY <1>1, <1>9, <1>12
  <1>14. \A k \in 0 .. n - 1 : k \in Same => k + 1 \in Same
    <2> SUFFICES ASSUME NEW k \in 0 .. n - 1, k \in Same PROVE k + 1 \in Same
      OBVIOUS
    <2>1. k + 1 \in 1 .. n /\ k + 1 - 1 = k /\ k + 1 \in 0 .. n
      BY <1>1
    <2>2. ASSUME NEW j \in 1 .. n, j - 1 = k PROVE chosen[j] = wholes[j]
      <3>1. chosen[j - 1] = wholes[j - 1]
        BY <2>2
      <3>2. chosen[j] = chosen[j - 1] \o Bytes(f, PartRange(bytes, j))
        BY <1>12
      <3>3. wholes[j] = wholes[j - 1] \o Bytes(f, PartRange(bytes, j))
        BY <1>8
      <3> QED BY <3>1, <3>2, <3>3
    <2> QED BY <2>1, <2>2
  <1>15. \A k \in 0 .. n : k \in Same
    <2> HIDE DEF Same
    <2> QED BY <1>1, <1>13, <1>14, UpTo
  <1> QED BY <1>1, <1>3, <1>9, <1>15 DEF n, file

-----------------------------------------------------------------------------
(* What the store holds and what the phone believes *)

\* Their numbers.
PlanParts(f) == 1 .. PartsOf(f)
Content == Seq(Files \X Nat)
UploadRow == [file: Files, parts: SUBSET Nat, open: BOOLEAN, part_count: Nat]
SenderRow == [upload: Nat, held: SUBSET Nat, asked: BOOLEAN, closed: BOOLEAN]
PieceRow == [content_hash: Content, storage_key: Nat,
             integrity_status: {"pendiente", "verificada", "alterada"}]

UploadsTyped ==
  /\ uploads \in Seq(UploadRow) /\ objects \in Seq(Content) /\ Len(objects) = Len(uploads)
  /\ sender \in [Files -> SenderRow]
  /\ pieces \in [Files -> PieceRow \cup {Missing}]

\* An upload holds parts of its file; one that left an object was closed with all of them.
StoreHonest ==
  \A u \in DOMAIN uploads :
    /\ BytesOf[uploads[u].file] # 0
    /\ uploads[u].part_count = PartsOf(uploads[u].file)
    /\ uploads[u].parts \subseteq PlanParts(uploads[u].file)
    /\ objects[u] # Missing => /\ ~uploads[u].open
                               /\ uploads[u].parts = PlanParts(uploads[u].file)
                               /\ objects[u] = File(uploads[u].file)

\* What a phone believes was held by the store when it last asked, and is still while the
\* upload is open.
SenderHonest ==
  \A f \in Files : Knows(f) =>
    /\ sender[f].upload \in DOMAIN uploads /\ UploadOf(f).file = f
    /\ sender[f].held \subseteq PlanParts(f)
    /\ sender[f].asked /\ UploadOf(f).open => sender[f].held \subseteq UploadOf(f).parts

\* The evidence names an upload of its own file.
PiecesHonest ==
  \A f \in Files : pieces[f] # Missing =>
    /\ pieces[f].content_hash = File(f) /\ pieces[f].storage_key \in DOMAIN uploads
    /\ uploads[pieces[f].storage_key].file = f
    /\ pieces[f].integrity_status # "alterada"

UploadsInv == UploadsTyped /\ StoreHonest /\ SenderHonest /\ PiecesHonest

\* A file that is not empty has a part, and its bytes are no missing object.
LEMMA FileTyped ==
  ASSUME NEW f \in Files
  PROVE  /\ BytesOf[f] \in Nat /\ File(f) \in Content
         /\ BytesOf[f] # 0 => PartsOf(f) \in Nat \ {0}
                             /\ plan(BytesOf[f], {}) = {PartRange(BytesOf[f], n) : n \in PlanParts(f)}
  <1>1. BytesOf[f] \in Nat
    BY FilesHaveSizes
  <1>2. File(f) \in Content
    BY <1>1 DEF File, Content
  <1>3. BytesOf[f] # 0 => PartsOf(f) \in Nat \ {0} /\ (BytesOf[f] + PART_SIZE - 1) \div PART_SIZE = PartsOf(f)
    BY <1>1, PartsCounted DEF PartsOf
  <1>4. BytesOf[f] # 0 => plan(BytesOf[f], {}) = {PartRange(BytesOf[f], n) : n \in PlanParts(f)}
    BY <1>3 DEF plan, PlanParts
  <1> QED BY <1>1, <1>2, <1>3, <1>4

\* What is still to be sent is what the phone does not know to be held.
LEMMA Planned ==
  ASSUME NEW f \in Files, BytesOf[f] # 0, NEW held
  PROVE  /\ \A range \in plan(BytesOf[f], held) : range.number \in PlanParts(f)
         /\ plan(BytesOf[f], held) = {} => PlanParts(f) \subseteq held
  <1>1. BytesOf[f] \in Nat \ {0}
    BY FilesHaveSizes
  <1>2. (BytesOf[f] + PART_SIZE - 1) \div PART_SIZE = PartsOf(f)
    BY <1>1, PartsCounted DEF PartsOf
  <1>3. plan(BytesOf[f], held) = {PartRange(BytesOf[f], n) : n \in PlanParts(f) \ held}
    BY <1>2 DEF plan, PlanParts
  <1>4. \A n : PartRange(BytesOf[f], n).number = n
    BY DEF PartRange
  <1>5. \A range \in plan(BytesOf[f], held) : range.number \in PlanParts(f)
    BY <1>3, <1>4
  <1>6. plan(BytesOf[f], held) = {} => PlanParts(f) \subseteq held
    BY <1>3
  <1> QED BY <1>5, <1>6

\* A request about an upload touches its row, its object and what its phone believes.
LEMMA UploadTouched ==
  ASSUME UploadsInv, NEW f \in Files, Knows(f), NEW row \in UploadRow, NEW what \in SenderRow,
         NEW object \in Content,
         row.file = f, row.part_count = PartsOf(f), row.parts \subseteq PlanParts(f),
         object # Missing => ~row.open /\ row.parts = PlanParts(f) /\ object = File(f),
         what.upload \in {0, sender[f].upload}, what.held \subseteq PlanParts(f),
         what.asked /\ row.open => what.held \subseteq row.parts,
         uploads' = [uploads EXCEPT ![sender[f].upload] = row],
         objects' = [objects EXCEPT ![sender[f].upload] = object],
         sender' = [sender EXCEPT ![f] = what], pieces' = pieces
  PROVE  UploadsInv'
  <1> DEFINE u == sender[f].upload
  <1>1. u \in DOMAIN uploads /\ uploads[u].file = f /\ BytesOf[f] # 0
    BY DEF UploadsInv, SenderHonest, StoreHonest, UploadOf
  <1>2. /\ uploads \in Seq(UploadRow) /\ objects \in Seq(Content) /\ Len(objects) = Len(uploads)
        /\ DOMAIN uploads = 1 .. Len(uploads) /\ DOMAIN objects = 1 .. Len(uploads)
    BY DEF UploadsInv, UploadsTyped
  <1>3. /\ uploads' \in Seq(UploadRow) /\ objects' \in Seq(Content) /\ Len(objects') = Len(uploads')
        /\ DOMAIN uploads' = DOMAIN uploads
    BY <1>1, <1>2, ExceptSeq
  <1>4. UploadsTyped'
    BY <1>3 DEF UploadsInv, UploadsTyped
  <1>5. \A w \in DOMAIN uploads : /\ uploads'[w] = IF w = u THEN row ELSE uploads[w]
                                  /\ objects'[w] = IF w = u THEN object ELSE objects[w]
                                  /\ uploads'[w].file = uploads[w].file
    <2>1. uploads \in [1 .. Len(uploads) -> UploadRow] /\ objects \in [1 .. Len(uploads) -> Content]
      BY <1>2, LenProperties
    <2> SUFFICES ASSUME NEW w \in DOMAIN uploads
                 PROVE  /\ uploads'[w] = IF w = u THEN row ELSE uploads[w]
                        /\ objects'[w] = IF w = u THEN object ELSE objects[w]
                        /\ uploads'[w].file = uploads[w].file
      OBVIOUS
    <2>2. uploads'[w] = IF w = u THEN row ELSE uploads[w]
      BY <1>2, <2>1
    <2>3. objects'[w] = IF w = u THEN object ELSE objects[w]
      BY <1>2, <2>1
    <2> QED BY <1>1, <2>2, <2>3
  <1> HIDE DEF u
  <1>6. StoreHonest'
    <2> SUFFICES ASSUME NEW w \in DOMAIN uploads
                 PROVE  /\ BytesOf[uploads'[w].file] # 0
                        /\ uploads'[w].part_count = PartsOf(uploads'[w].file)
                        /\ uploads'[w].parts \subseteq PlanParts(uploads'[w].file)
                        /\ objects'[w] # Missing => /\ ~uploads'[w].open
                                                    /\ uploads'[w].parts = PlanParts(uploads'[w].file)
                                                    /\ objects'[w] = File(uploads'[w].file)
      BY <1>3 DEF StoreHonest, PartsOf, PlanParts, File, part_count, Missing
    <2>1. CASE w = u
      <3>1. uploads'[w] = row /\ objects'[w] = object
        BY <2>1, <1>5
      <3> QED BY <3>1, <1>1, Zenon
    <2>2. CASE w # u
      <3>1. uploads'[w] = uploads[w] /\ objects'[w] = objects[w]
        BY <2>2, <1>5
      <3> QED BY <3>1, Zenon DEF UploadsInv, StoreHonest
    <2> QED BY <2>1, <2>2
  <1>7. SenderHonest'
    <2> SUFFICES ASSUME NEW g \in Files, sender'[g].upload # 0
                 PROVE  /\ sender'[g].upload \in DOMAIN uploads
                        /\ uploads'[sender'[g].upload].file = g
                        /\ sender'[g].held \subseteq PlanParts(g)
                        /\ sender'[g].asked /\ uploads'[sender'[g].upload].open =>
                             sender'[g].held \subseteq uploads'[sender'[g].upload].parts
      BY <1>3 DEF SenderHonest, Knows, UploadOf, PlanParts, PartsOf, part_count
    <2>1. CASE g = f
      <3>1. sender'[g] = what
        BY <2>1 DEF UploadsInv, UploadsTyped
      <3> QED BY <2>1, <3>1, <1>1, <1>5 DEF u
    <2>2. CASE g # f
      <3>1. sender'[g] = sender[g]
        BY <2>2 DEF UploadsInv, UploadsTyped
      <3>2. /\ sender[g].upload \in DOMAIN uploads /\ uploads[sender[g].upload].file = g
            /\ sender[g].held \subseteq PlanParts(g)
            /\ sender[g].asked /\ uploads[sender[g].upload].open =>
                 sender[g].held \subseteq uploads[sender[g].upload].parts
        BY <3>1 DEF UploadsInv, SenderHonest, Knows, UploadOf
      <3>3. sender[g].upload # u
        BY <2>2, <3>2, <1>1
      <3>4. uploads'[sender[g].upload] = uploads[sender[g].upload]
        BY <3>2, <3>3, <1>5
      <3> QED BY <3>1, <3>2, <3>4
    <2> QED BY <2>1, <2>2
  <1>8. PiecesHonest'
    <2> SUFFICES ASSUME NEW g \in Files, pieces[g] # Missing
                 PROVE  /\ pieces[g].content_hash = File(g) /\ pieces[g].storage_key \in DOMAIN uploads
                        /\ uploads'[pieces[g].storage_key].file = g
                        /\ pieces[g].integrity_status # "alterada"
      BY <1>3 DEF PiecesHonest, File, Missing
    <2> QED BY <1>5 DEF UploadsInv, PiecesHonest
  <1> QED BY <1>4, <1>6, <1>7, <1>8 DEF UploadsInv

\* What the invariant says of the upload a phone is about.
LEMMA OwnUpload ==
  ASSUME UploadsInv, NEW f \in Files, Knows(f)
  PROVE  /\ UploadOf(f) \in UploadRow /\ UploadOf(f).file = f /\ UploadOf(f).part_count = PartsOf(f)
         /\ UploadOf(f).parts \subseteq PlanParts(f) /\ BytesOf[f] # 0
         /\ sender[f] \in SenderRow /\ sender[f].held \subseteq PlanParts(f)
         /\ sender[f].asked /\ UploadOf(f).open => sender[f].held \subseteq UploadOf(f).parts
         /\ objects[sender[f].upload] \in Content
         /\ objects[sender[f].upload] # Missing =>
              ~UploadOf(f).open /\ UploadOf(f).parts = PlanParts(f)
              /\ objects[sender[f].upload] = File(f)
         /\ uploads = [uploads EXCEPT ![sender[f].upload] = UploadOf(f)]
         /\ objects = [objects EXCEPT ![sender[f].upload] = objects[sender[f].upload]]
  <1> DEFINE u == sender[f].upload
             row == uploads[u]
  <1>1. /\ u \in DOMAIN uploads /\ row.file = f /\ sender[f].held \subseteq PlanParts(f)
        /\ sender[f].asked /\ row.open => sender[f].held \subseteq row.parts
    BY DEF UploadsInv, SenderHonest, UploadOf
  <1>2. /\ BytesOf[f] # 0 /\ row.part_count = PartsOf(f) /\ row.parts \subseteq PlanParts(f)
        /\ objects[u] # Missing => ~row.open /\ row.parts = PlanParts(f) /\ objects[u] = File(f)
    <2> HIDE DEF u
    <2> QED BY <1>1, Zenon DEF UploadsInv, StoreHonest
  <1>3. /\ uploads \in [1 .. Len(uploads) -> UploadRow] /\ objects \in [1 .. Len(uploads) -> Content]
        /\ DOMAIN uploads = 1 .. Len(uploads) /\ sender[f] \in SenderRow
    BY LenProperties DEF UploadsInv, UploadsTyped
  <1>4. row \in UploadRow /\ objects[u] \in Content
    <2> HIDE DEF u
    <2> QED BY <1>1, <1>3
  <1>5. uploads = [uploads EXCEPT ![u] = row] /\ objects = [objects EXCEPT ![u] = objects[u]]
    <2> HIDE DEF u
    <2> QED BY <1>3
  <1> QED BY <1>1, <1>2, <1>3, <1>4, <1>5 DEF UploadOf

\* A phone that knows of no upload holds nothing of it.
LEMMA NotOpenedTyped ==
  NotOpened \in SenderRow /\ NotOpened.upload = 0 /\ NotOpened.held = {} /\ ~NotOpened.asked
  BY DEF NotOpened, SenderRow

\* What it is told is what the store holds.
LEMMA AsksParts ==
  ASSUME UploadsInv, NEW f \in Files, AskParts(f)
  PROVE  UploadsInv'
  <1> DEFINE row == UploadOf(f)
             object == objects[sender[f].upload]
             told == [sender[f] EXCEPT !.held = row.parts, !.asked = TRUE]
             what == IF row.open THEN told ELSE NotOpened
  <1>1. Knows(f) /\ sender' = [sender EXCEPT ![f] = what]
        /\ uploads' = uploads /\ objects' = objects /\ pieces' = pieces
    BY DEF AskParts, Sending, Learns
  <1>2. row \in UploadRow /\ row.file = f /\ row.part_count = PartsOf(f) /\ row.parts \subseteq PlanParts(f)
        /\ object \in Content
        /\ (object # Missing => ~row.open /\ row.parts = PlanParts(f) /\ object = File(f))
        /\ sender[f] \in SenderRow
        /\ uploads = [uploads EXCEPT ![sender[f].upload] = row]
        /\ objects = [objects EXCEPT ![sender[f].upload] = object]
    BY <1>1, OwnUpload
  <1>3. told \in SenderRow /\ told.upload = sender[f].upload /\ told.held = row.parts
    BY <1>2 DEF SenderRow, UploadRow
  <1> HIDE DEF row, object, told
  <1>4. /\ what \in SenderRow /\ what.upload \in {0, sender[f].upload}
        /\ what.held \subseteq PlanParts(f) /\ what.held \subseteq row.parts
    BY <1>2, <1>3, NotOpenedTyped
  <1> HIDE DEF what
  <1> QED BY <1>1, <1>2, <1>4, UploadTouched

\* A part reaches the row of the upload; the phone hears of it or does not.
LEMMA PutsPart ==
  ASSUME UploadsInv, NEW f \in Files, PutPart(f)
  PROVE  UploadsInv'
  <1> DEFINE old == UploadOf(f)
             object == objects[sender[f].upload]
  <1>1. Knows(f) /\ sender[f].asked /\ old.open
    BY DEF PutPart, Sending
  <1>2. old \in UploadRow /\ old.file = f /\ old.part_count = PartsOf(f) /\ old.parts \subseteq PlanParts(f)
        /\ object \in Content /\ object = Missing
        /\ sender[f] \in SenderRow /\ sender[f].held \subseteq old.parts
        /\ objects = [objects EXCEPT ![sender[f].upload] = object] /\ BytesOf[f] # 0
    BY <1>1, OwnUpload
  <1>3. PICK range \in plan(BytesOf[f], sender[f].held) :
        /\ uploads' = Stored(sender[f].upload, range.number)
        /\ Learns(f, Confirmed(f, range.number)) \/ Learns(f, Unanswered(f))
    BY DEF PutPart
  <1>10. objects' = objects /\ pieces' = pieces
    BY DEF PutPart
  <1> DEFINE n == range.number
             row == [old EXCEPT !.parts = old.parts \cup {n}]
             knows == [sender[f] EXCEPT !.held = sender[f].held \cup {n}]
             lost == [sender[f] EXCEPT !.asked = FALSE]
  <1>11. PICK what \in {knows, lost} : sender' = [sender EXCEPT ![f] = what]
    BY <1>3 DEF Learns, Confirmed, Unanswered
  <1>4. n \in PlanParts(f) /\ n \in Nat
    <2>1. n \in PlanParts(f)
      BY <1>2, Planned
    <2> QED BY <2>1 DEF PlanParts
  <1>5. uploads' = [uploads EXCEPT ![sender[f].upload] = row]
    BY <1>3 DEF UploadOf, Stored
  <1> HIDE DEF n, old, object
  <1>6. /\ row \in UploadRow /\ row.file = f /\ row.part_count = PartsOf(f)
        /\ row.parts = old.parts \cup {n}
    BY <1>2, <1>4 DEF UploadRow
  <1>7. /\ knows \in SenderRow /\ knows.upload = sender[f].upload /\ knows.held = sender[f].held \cup {n}
        /\ lost \in SenderRow /\ lost.upload = sender[f].upload /\ lost.held = sender[f].held
    BY <1>2, <1>4 DEF SenderRow
  <1> HIDE DEF row, knows, lost
  <1>8. /\ what \in SenderRow /\ what.upload = sender[f].upload
        /\ what.held \subseteq row.parts /\ row.parts \subseteq PlanParts(f)
    BY <1>2, <1>4, <1>6, <1>7
  <1>9. what.held \subseteq PlanParts(f)
    BY <1>8
  <1> QED BY <1>1, <1>2, <1>5, <1>6, <1>8, <1>9, <1>10, <1>11, UploadTouched

\* A close the server accepts lists every part, and they make the file.
LEMMA ClosesUpload ==
  ASSUME UploadsInv, NEW f \in Files, CloseUpload(f)
  PROVE  UploadsInv'
  <1> DEFINE u == sender[f].upload
             old == UploadOf(f)
             listed == sender[f].held
             taken == uploads[u].open /\ listed # {} /\ listed \subseteq uploads[u].parts
             row == IF taken THEN [old EXCEPT !.open = FALSE] ELSE old
             object == IF taken THEN Assembled(f, listed) ELSE objects[u]
  <1>1. Knows(f) /\ sender[f].asked /\ plan(BytesOf[f], listed) = {} /\ pieces' = pieces
    BY DEF CloseUpload, Sending
  <1>2. /\ old \in UploadRow /\ old.file = f /\ old.part_count = PartsOf(f) /\ old.parts \subseteq PlanParts(f)
        /\ objects[u] \in Content /\ BytesOf[f] # 0
        /\ (objects[u] # Missing => ~old.open /\ old.parts = PlanParts(f) /\ objects[u] = File(f))
        /\ sender[f] \in SenderRow /\ listed \subseteq PlanParts(f)
        /\ (sender[f].asked /\ old.open => listed \subseteq old.parts)
        /\ uploads = [uploads EXCEPT ![u] = old]
        /\ objects = [objects EXCEPT ![u] = objects[u]] /\ old = uploads[u]
    BY <1>1, OwnUpload DEF UploadOf
  <1>3. listed = PlanParts(f)
    BY <1>1, <1>2, Planned
  <1>4. Assembled(f, listed) = File(f) /\ File(f) \in Content
    BY <1>2, <1>3, PartsMakeTheFile, FileTyped DEF PlanParts
  <1>5. uploads' = [uploads EXCEPT ![u] = row] /\ objects' = [objects EXCEPT ![u] = object]
    BY <1>2 DEF CloseUpload
  <1>6. PICK heard \in BOOLEAN :
          sender' = [sender EXCEPT ![f] = [sender[f] EXCEPT !.asked = heard /\ taken,
                                                           !.closed = heard /\ taken]]
    BY DEF CloseUpload, Learns
  <1> DEFINE what == [sender[f] EXCEPT !.asked = heard /\ taken, !.closed = heard /\ taken]
  <1>7. what \in SenderRow /\ what.upload = u /\ what.held = listed
    <2> HIDE DEF taken
    <2>1. (heard /\ taken) \in BOOLEAN
      BY DEF taken
    <2> QED BY <1>2, <2>1 DEF SenderRow
  <1>8. /\ row \in UploadRow /\ row.file = f /\ row.part_count = PartsOf(f) /\ row.parts = old.parts
        /\ taken => ~row.open
        /\ ~taken => row = old
    BY <1>2 DEF UploadRow
  <1>9. taken => old.parts = PlanParts(f)
    BY <1>2, <1>3
  <1>10. object \in Content
         /\ (object # Missing => ~row.open /\ row.parts = PlanParts(f) /\ object = File(f))
    <2>1. CASE taken
      <3>1. object = File(f) /\ ~row.open /\ row.parts = PlanParts(f)
        BY <2>1, <1>4, <1>8, <1>9
      <3> QED BY <3>1, <1>4
    <2>2. CASE ~taken
      <3>1. object = objects[u] /\ row = old
        BY <2>2, <1>8
      <3> QED BY <3>1, <1>2
    <2> QED BY <2>1, <2>2
  <1>11. what.asked /\ row.open => what.held \subseteq row.parts
    BY <1>1, <1>2, <1>7, <1>8
  <1> HIDE DEF what, row, object, old, taken
  <1> QED BY <1>1, <1>2, <1>5, <1>6, <1>7, <1>8, <1>10, <1>11, UploadTouched DEF what

\* An upload that left an object is not abandoned.
LEMMA AbortsUpload ==
  ASSUME UploadsInv, NEW f \in Files, AbortUpload(f)
  PROVE  UploadsInv'
  <1> DEFINE u == sender[f].upload
             old == UploadOf(f)
             row == [old EXCEPT !.open = FALSE, !.parts = {}]
             object == objects[u]
  <1>1. /\ Knows(f) /\ old.open /\ pieces' = pieces /\ objects' = objects
        /\ uploads' = [uploads EXCEPT ![u] = row] /\ sender' = [sender EXCEPT ![f] = NotOpened]
    BY DEF AbortUpload, Sending, Learns, UploadOf
  <1>2. /\ old \in UploadRow /\ old.file = f /\ old.part_count = PartsOf(f)
        /\ object \in Content /\ object = Missing
        /\ objects = [objects EXCEPT ![u] = object]
    BY <1>1, OwnUpload
  <1>3. row \in UploadRow /\ row.file = f /\ row.part_count = PartsOf(f) /\ row.parts = {}
    BY <1>2 DEF UploadRow
  <1> HIDE DEF old, row, object
  <1> QED BY <1>1, <1>2, <1>3, NotOpenedTyped, UploadTouched

\* What it held it does not count on any more.
LEMMA LosesLink ==
  ASSUME UploadsInv, NEW f \in Files, Cut(f)
  PROVE  UploadsInv'
  <1> DEFINE row == UploadOf(f)
             object == objects[sender[f].upload]
             what == [sender[f] EXCEPT !.asked = FALSE, !.held = {}]
  <1>1. Knows(f) /\ sender' = [sender EXCEPT ![f] = what]
        /\ uploads' = uploads /\ objects' = objects /\ pieces' = pieces
    BY DEF Cut, Sending, Learns
  <1>2. row \in UploadRow /\ row.file = f /\ row.part_count = PartsOf(f) /\ row.parts \subseteq PlanParts(f)
        /\ object \in Content
        /\ (object # Missing => ~row.open /\ row.parts = PlanParts(f) /\ object = File(f))
        /\ sender[f] \in SenderRow
        /\ uploads = [uploads EXCEPT ![sender[f].upload] = row]
        /\ objects = [objects EXCEPT ![sender[f].upload] = object]
    BY <1>1, OwnUpload
  <1>3. what \in SenderRow /\ what.upload = sender[f].upload /\ what.held = {}
    BY <1>2 DEF SenderRow
  <1> HIDE DEF row, object, what
  <1> QED BY <1>1, <1>2, <1>3, UploadTouched

\* A new upload holds nothing, and the others stay where they are.
LEMMA OpensUpload ==
  ASSUME UploadsInv, NEW f \in Files, OpenUpload(f)
  PROVE  UploadsInv'
  <1> DEFINE n == Len(uploads)
             row == [file |-> f, parts |-> {}, open |-> TRUE, part_count |-> part_count(BytesOf[f])]
             told == Opened(n + 1)
  <1>1. /\ ~Knows(f) /\ BytesOf[f] # 0 /\ pieces' = pieces
        /\ uploads' = Append(uploads, row) /\ objects' = Append(objects, Missing)
    BY FilesHaveSizes DEF OpenUpload, Admitted
  <1>2. PICK what \in {told, sender[f]} : sender' = [sender EXCEPT ![f] = what]
    BY DEF OpenUpload, Learns, UploadsInv, UploadsTyped
  <1>3. /\ uploads \in Seq(UploadRow) /\ objects \in Seq(Content) /\ Len(objects) = n /\ n \in Nat
        /\ DOMAIN uploads = 1 .. n /\ sender \in [Files -> SenderRow]
    BY DEF UploadsInv, UploadsTyped
  <1>4. /\ row \in UploadRow /\ row.file = f /\ row.parts = {} /\ row.open /\ row.part_count = PartsOf(f)
        /\ Missing \in Content
    <2>1. part_count(BytesOf[f]) = PartsOf(f) /\ PartsOf(f) \in Nat
      BY <1>1, FileTyped DEF PartsOf
    <2>2. Missing \in Content
      BY DEF Missing, Content
    <2> HIDE DEF row
    <2>3. row = [file |-> f, parts |-> {}, open |-> TRUE, part_count |-> PartsOf(f)]
      BY <2>1 DEF row
    <2> QED BY <2>1, <2>2, <2>3 DEF UploadRow
  <1>5. told \in SenderRow /\ told.upload = n + 1 /\ told.held = {}
    <2> HIDE DEF n
    <2>1. told = [upload |-> n + 1, held |-> {}, asked |-> TRUE, closed |-> FALSE]
      BY DEF Opened
    <2> HIDE DEF told
    <2> QED BY <2>1, <1>3 DEF SenderRow
  <1> HIDE DEF row, told
  <1>6. /\ uploads' \in Seq(UploadRow) /\ objects' \in Seq(Content) /\ Len(objects') = Len(uploads')
        /\ DOMAIN uploads' = 1 .. n + 1 /\ uploads'[n + 1] = row /\ objects'[n + 1] = Missing
        /\ \A w \in DOMAIN uploads : uploads'[w] = uploads[w] /\ objects'[w] = objects[w]
    BY <1>1, <1>3, <1>4
  <1> HIDE DEF n
  <1>7. UploadsTyped'
    BY <1>1, <1>2, <1>3, <1>5, <1>6 DEF UploadsInv, UploadsTyped
  <1>8. StoreHonest'
    <2> SUFFICES ASSUME NEW w \in 1 .. n + 1
                 PROVE  /\ BytesOf[uploads'[w].file] # 0
                        /\ uploads'[w].part_count = PartsOf(uploads'[w].file)
                        /\ uploads'[w].parts \subseteq PlanParts(uploads'[w].file)
                        /\ objects'[w] # Missing => /\ ~uploads'[w].open
                                                    /\ uploads'[w].parts = PlanParts(uploads'[w].file)
                                                    /\ objects'[w] = File(uploads'[w].file)
      BY <1>6 DEF StoreHonest, PartsOf, PlanParts, File, part_count, Missing
    <2>1. CASE w = n + 1
      <3>1. uploads'[w] = row /\ objects'[w] = Missing
        BY <2>1, <1>6
      <3> QED BY <3>1, <1>1, <1>4
    <2>2. CASE w # n + 1
      <3>1. w \in DOMAIN uploads
        BY <2>2, <1>3
      <3>2. uploads'[w] = uploads[w] /\ objects'[w] = objects[w]
        BY <3>1, <1>6
      <3> QED BY <3>1, <3>2, Zenon DEF UploadsInv, StoreHonest
    <2> QED BY <2>1, <2>2
  <1>9. SenderHonest'
    <2> SUFFICES ASSUME NEW g \in Files, sender'[g].upload # 0
                 PROVE  /\ sender'[g].upload \in 1 .. n + 1
                        /\ uploads'[sender'[g].upload].file = g
                        /\ sender'[g].held \subseteq PlanParts(g)
                        /\ sender'[g].asked /\ uploads'[sender'[g].upload].open =>
                             sender'[g].held \subseteq uploads'[sender'[g].upload].parts
      BY <1>6 DEF SenderHonest, Knows, UploadOf, PlanParts, PartsOf, part_count
    <2>1. CASE g = f /\ what = told
      <3>1. sender'[g] = told
        BY <2>1, <1>2, <1>3
      <3>2. n + 1 \in 1 .. n + 1
        BY <1>3
      <3> QED BY <2>1, <3>1, <3>2, <1>4, <1>5, <1>6
    <2>2. CASE ~(g = f /\ what = told)
      <3>1. sender'[g] = sender[g]
        BY <2>2, <1>2, <1>3
      <3>2. /\ sender[g].upload \in DOMAIN uploads /\ uploads[sender[g].upload].file = g
            /\ sender[g].held \subseteq PlanParts(g)
            /\ sender[g].asked /\ uploads[sender[g].upload].open =>
                 sender[g].held \subseteq uploads[sender[g].upload].parts
        BY <3>1 DEF UploadsInv, SenderHonest, Knows, UploadOf
      <3>3. uploads'[sender[g].upload] = uploads[sender[g].upload] /\ sender[g].upload \in 1 .. n + 1
        BY <3>2, <1>3, <1>6
      <3> QED BY <3>1, <3>2, <3>3
    <2> QED BY <2>1, <2>2
  <1>10. PiecesHonest'
    <2> SUFFICES ASSUME NEW g \in Files, pieces[g] # Missing
                 PROVE  /\ pieces[g].content_hash = File(g) /\ pieces[g].storage_key \in 1 .. n + 1
                        /\ uploads'[pieces[g].storage_key].file = g
                        /\ pieces[g].integrity_status # "alterada"
      BY <1>1, <1>6 DEF PiecesHonest, File, Missing
    <2>1. /\ pieces[g].content_hash = File(g) /\ pieces[g].storage_key \in DOMAIN uploads
          /\ uploads[pieces[g].storage_key].file = g /\ pieces[g].integrity_status # "alterada"
      BY DEF UploadsInv, PiecesHonest
    <2> QED BY <2>1, <1>3, <1>6
  <1> QED BY <1>7, <1>8, <1>9, <1>10 DEF UploadsInv

\* The evidence names the upload of its own file, and is read when there is something to read.
LEMMA RegistersPiece ==
  ASSUME UploadsInv, NEW f \in Files, RegisterPiece(f)
  PROVE  UploadsInv'
  <1> DEFINE piece == [content_hash |-> File(f), storage_key |-> sender[f].upload,
                       integrity_status |-> "pendiente"]
  <1>1. Knows(f) /\ pieces' = [pieces EXCEPT ![f] = piece]
        /\ uploads' = uploads /\ objects' = objects /\ sender' = sender
    BY DEF RegisterPiece
  <1>2. sender[f].upload \in DOMAIN uploads /\ uploads[sender[f].upload].file = f
    BY <1>1 DEF UploadsInv, SenderHonest, UploadOf
  <1>3. sender[f].upload \in Nat
    BY DEF UploadsInv, UploadsTyped, SenderRow
  <1>4. piece \in PieceRow
    BY <1>3, FileTyped DEF PieceRow
  <1>5. /\ piece.content_hash = File(f) /\ piece.storage_key = sender[f].upload
        /\ piece.integrity_status # "alterada"
    OBVIOUS
  <1> HIDE DEF piece
  <1>6. UploadsTyped'
    BY <1>1, <1>4 DEF UploadsInv, UploadsTyped
  <1>7. StoreHonest' /\ SenderHonest'
    BY <1>1 DEF UploadsInv, StoreHonest, SenderHonest, Knows, UploadOf, PlanParts, PartsOf, File, part_count, Missing
  <1>8. \A g \in Files : pieces'[g] = IF g = f THEN piece ELSE pieces[g]
    BY <1>1 DEF UploadsInv, UploadsTyped
  <1>9. PiecesHonest'
    <2> SUFFICES ASSUME NEW g \in Files, pieces'[g] # Missing
                 PROVE  /\ pieces'[g].content_hash = File(g) /\ pieces'[g].storage_key \in DOMAIN uploads
                        /\ uploads[pieces'[g].storage_key].file = g
                        /\ pieces'[g].integrity_status # "alterada"
      BY <1>1 DEF PiecesHonest, File, Missing
    <2>1. CASE g = f
      BY <2>1, <1>2, <1>5, <1>8
    <2>2. CASE g # f
      BY <2>2, <1>8 DEF UploadsInv, PiecesHonest
    <2> QED BY <2>1, <2>2
  <1> QED BY <1>6, <1>7, <1>9 DEF UploadsInv

\* What is read is the file.
LEMMA ConfirmsPiece ==
  ASSUME UploadsInv, NEW f \in Files, ConfirmPiece(f)
  PROVE  UploadsInv'
  <1> DEFINE old == pieces[f]
             key == old.storage_key
             status == IF objects[key] = old.content_hash THEN "verificada" ELSE "alterada"
             piece == [old EXCEPT !.integrity_status = status]
  <1>1. old # Missing /\ objects[key] # Missing /\ pieces' = [pieces EXCEPT ![f] = piece]
        /\ uploads' = uploads /\ objects' = objects /\ sender' = sender
    BY DEF ConfirmPiece
  <1>2. /\ old.content_hash = File(f) /\ key \in DOMAIN uploads /\ uploads[key].file = f
        /\ old \in PieceRow
    BY <1>1 DEF UploadsInv, UploadsTyped, PiecesHonest
  <1>3. objects[key] = File(f)
    BY <1>1, <1>2 DEF UploadsInv, StoreHonest
  <1>4. status = "verificada"
    BY <1>2, <1>3
  <1> HIDE DEF status
  <1>5. /\ piece \in PieceRow /\ piece.content_hash = old.content_hash /\ piece.storage_key = key
        /\ piece.integrity_status = status
    BY <1>2, <1>4 DEF PieceRow
  <1> HIDE DEF piece, old
  <1>6. UploadsTyped'
    BY <1>1, <1>5 DEF UploadsInv, UploadsTyped
  <1>7. StoreHonest' /\ SenderHonest'
    BY <1>1 DEF UploadsInv, StoreHonest, SenderHonest, Knows, UploadOf, PlanParts, PartsOf, File, part_count, Missing
  <1>8. \A g \in Files : pieces'[g] = IF g = f THEN piece ELSE pieces[g]
    BY <1>1 DEF UploadsInv, UploadsTyped
  <1>9. PiecesHonest'
    <2> SUFFICES ASSUME NEW g \in Files, pieces'[g] # Missing
                 PROVE  /\ pieces'[g].content_hash = File(g) /\ pieces'[g].storage_key \in DOMAIN uploads
                        /\ uploads[pieces'[g].storage_key].file = g
                        /\ pieces'[g].integrity_status # "alterada"
      BY <1>1 DEF PiecesHonest, File, Missing
    <2>1. CASE g = f
      BY <2>1, <1>2, <1>4, <1>5, <1>8
    <2>2. CASE g # f
      BY <2>2, <1>8 DEF UploadsInv, PiecesHonest
    <2> QED BY <2>1, <2>2
  <1> QED BY <1>6, <1>7, <1>9 DEF UploadsInv

-----------------------------------------------------------------------------
(* The theorems *)

\* Before the first upload.
LEMMA UploadsStart == UploadsInit => UploadsInv
  <1> SUFFICES ASSUME UploadsInit PROVE UploadsInv
    OBVIOUS
  <1>1. UploadsTyped
    BY NotOpenedTyped DEF UploadsInit, UploadsTyped
  <1>2. StoreHonest /\ SenderHonest /\ PiecesHonest
    BY NotOpenedTyped DEF UploadsInit, StoreHonest, SenderHonest, PiecesHonest, Knows
  <1> QED BY <1>1, <1>2 DEF UploadsInv

\* One step of UploadsNext, an action at a time.
LEMMA UploadsStep == UploadsInv /\ [UploadsNext]_uvars => UploadsInv'
  <1> SUFFICES ASSUME UploadsInv, [UploadsNext]_uvars PROVE UploadsInv'
    OBVIOUS
  <1>1. ASSUME NEW f \in Files,
               \/ OpenUpload(f) \/ AskParts(f) \/ PutPart(f) \/ CloseUpload(f)
               \/ AbortUpload(f) \/ Cut(f) \/ RegisterPiece(f) \/ ConfirmPiece(f)
        PROVE  UploadsInv'
    BY <1>1, OpensUpload, AsksParts, PutsPart, ClosesUpload, AbortsUpload, LosesLink, RegistersPiece,
       ConfirmsPiece
  <1>2. CASE UNCHANGED uvars
    BY <1>2 DEF uvars, UploadsInv, UploadsTyped, StoreHonest, SenderHonest, PiecesHonest, Knows, UploadOf,
       PlanParts, PartsOf, File, part_count, Missing
  <1> QED BY <1>1, <1>2 DEF UploadsNext

\* As many parts as there are numbers of them.
LEMMA FilesAreWhole == UploadsInv => FileIsWhole
  <1> SUFFICES ASSUME UploadsInv PROVE FileIsWhole
    OBVIOUS
  <1>1. DOMAIN objects = DOMAIN uploads
    BY DEF UploadsInv, UploadsTyped
  <1>2. ASSUME NEW u \in DOMAIN objects, objects[u] # Missing
        PROVE  /\ objects[u] = File(uploads[u].file)
               /\ Cardinality(uploads[u].parts) = uploads[u].part_count
    <2>1. /\ objects[u] = File(uploads[u].file) /\ uploads[u].parts = PlanParts(uploads[u].file)
          /\ uploads[u].part_count = PartsOf(uploads[u].file) /\ BytesOf[uploads[u].file] # 0
      BY <1>1, <1>2 DEF UploadsInv, StoreHonest
    <2>2. uploads[u].file \in Files
      <3>1. uploads \in [DOMAIN uploads -> UploadRow] /\ u \in DOMAIN uploads
        BY <1>1, LenProperties DEF UploadsInv, UploadsTyped
      <3>2. uploads[u] \in UploadRow
        BY <3>1
      <3> QED BY <3>2 DEF UploadRow
    <2>3. PartsOf(uploads[u].file) \in Nat \ {0}
      BY <2>1, <2>2, FileTyped
    <2>4. Cardinality(1 .. PartsOf(uploads[u].file)) = PartsOf(uploads[u].file)
      BY <2>3, FS_Interval
    <2> QED BY <2>1, <2>4 DEF PlanParts
  <1>3. \A f \in Files : pieces[f] # Missing => pieces[f].integrity_status # "alterada"
    BY DEF UploadsInv, PiecesHonest
  <1> QED BY <1>2, <1>3 DEF FileIsWhole

\* In every state an upload holds parts of its file and none other, a phone believes only
\* what the store held when it asked, and a piece of evidence names an upload of its own
\* file (start_multipart, uploaded_parts, complete_multipart and abort_multipart of
\* storage/service.py, ResumableUpload.plan, register_evidence).
THEOREM UploadsAlways == UploadsSpec => []UploadsInv
  <1> QED BY UploadsStart, UploadsStep, PTL DEF UploadsSpec

\* The object a close leaves is the file byte by byte, in the parts announced, whatever
\* answers were lost; a file nobody touched is never recorded as altered
\* (complete_multipart of storage/service.py, confirm_upload of responses/service.py).
THEOREM FileAlwaysWhole == UploadsSpec => []FileIsWhole
  <1> QED BY UploadsAlways, FilesAreWhole, PTL

-----------------------------------------------------------------------------
(****************************************************************************)
(* WORKING HOURS: the phone sleeps through no shift                         *)
(****************************************************************************)

\* Some moment is the first of those there are.
LEMMA FirstOfMany ==
  ASSUME NEW S \in SUBSET Nat, S # {}
  PROVE  \E x \in S : \A y \in S : x <= y
  <1> DEFINE Less == OpToRel(<, Nat)
  <1>1. IsWellFoundedOn(Less, Nat)
    BY NatLessThanWellFounded
  <1>2. \A a, c \in Nat : a < c => <<a, c>> \in Less
    BY DEF OpToRel
  <1> HIDE DEF Less
  <1>3. PICK x \in S : \A y \in S : ~(<<y, x>> \in Less)
    BY <1>1, WFMin
  <1>4. ASSUME NEW y \in S PROVE x <= y
    <2>1. x \in Nat /\ y \in Nat /\ ~(y < x)
      BY <1>2, <1>3
    <2> QED BY <2>1
  <1> QED BY <1>4

-----------------------------------------------------------------------------
(* Days and hours *)

\* A quotient and a remainder are the only ones.
LEMMA OneQuotient ==
  ASSUME NEW q \in Int, NEW d \in Nat \ {0}, NEW r \in 0 .. d - 1
  PROVE  (q * d + r) \div d = q /\ (q * d + r) % d = r
  <1> DEFINE x == q * d + r
             k == x \div d
             s == x % d
  <1>1. x \in Int /\ q * d \in Int
    OBVIOUS
  <1> HIDE DEF x
  <1>2. k \in Int /\ s \in 0 .. d - 1 /\ x = k * d + s
    BY <1>1
  <1>3. x = q * d + r
    BY DEF x
  <1> HIDE DEF k, s
  <1>4. /\ k * d \in Int /\ (k - 1) * d = k * d - d /\ (q - 1) * d = q * d - d
    BY <1>2, Multiples
  <1>5. ~(q < k)
    <2> SUFFICES ASSUME q <= k - 1 PROVE FALSE
      BY <1>2
    <2>1. q * d <= k * d - d
      BY <1>2, <1>4, Multiples, k - 1 \in Int
    <2> QED BY <1>1, <1>2, <1>3, <1>4, <2>1
  <1>6. ~(k < q)
    <2> SUFFICES ASSUME k <= q - 1 PROVE FALSE
      BY <1>2
    <2>1. k * d <= q * d - d
      BY <1>2, <1>4, Multiples, q - 1 \in Int
    <2> QED BY <1>1, <1>2, <1>3, <1>4, <2>1
  <1>7. k = q
    BY <1>2, <1>5, <1>6
  <1>8. s = r
    BY <1>1, <1>2, <1>3, <1>7
  <1> QED BY <1>7, <1>8 DEF x, k, s

\* The days of the week come round.
LEMMA WeekComesRound ==
  ASSUME NEW day \in Int
  PROVE  Weekday(day + WeekLength) = Weekday(day)
  <1> DEFINE Wl == WeekLength
             q == day \div Wl
             r == day % Wl
  <1>1. Wl \in Nat \ {0}
    BY ClockGiven
  <1> HIDE DEF Wl
  <1>2. q \in Int /\ r \in 0 .. Wl - 1 /\ day = q * Wl + r
    BY <1>1
  <1> HIDE DEF q, r
  <1>3. (q + 1) * Wl = q * Wl + Wl /\ q * Wl \in Int /\ q + 1 \in Int
    BY <1>1, <1>2
  <1>4. day + Wl = (q + 1) * Wl + r
    BY <1>1, <1>2, <1>3
  <1>5. (day + Wl) % Wl = r
    BY <1>1, <1>2, <1>3, <1>4, OneQuotient
  <1> QED BY <1>5 DEF Weekday, r, Wl

\* A day of work has an hour it starts at and one it ends at.
Workday(p) == p["workday_start"] \in 0 .. DayLength - 1 /\ p["workday_end"] \in 0 .. DayLength

\* A moment is an hour of a day.
LEMMA MomentOfADay ==
  ASSUME NEW m \in Nat
  PROVE  /\ DayOf(m) \in Nat /\ HourOf(m) \in 0 .. DayLength - 1
         /\ m = DayOf(m) * DayLength + HourOf(m)
         /\ DayOf(m) * DayLength \in Nat /\ (DayOf(m) - 1) * DayLength = DayOf(m) * DayLength - DayLength
  <1> DEFINE D == DayLength
             q == m \div D
             r == m % D
  <1>1. D \in Nat \ {0}
    BY ClockGiven
  <1> HIDE DEF D
  <1>2. q \in Nat /\ r \in 0 .. D - 1 /\ m = q * D + r
    BY <1>1
  <1> HIDE DEF q, r
  <1>3. q * D \in Nat /\ (q - 1) * D = q * D - D
    BY <1>1, <1>2
  <1> QED BY <1>2, <1>3 DEF DayOf, HourOf, q, r, D

\* The moments the server and the phone count to the working day are those of its shifts.
LEMMA HoursAreShifts ==
  ASSUME NEW p, Workday(p), NEW m \in Nat
  PROVE  OnShift(p, m) <=> within_workday(p, m)
  <1> DEFINE D == DayLength
             start == p["workday_start"]
             end == p["workday_end"]
             day == DayOf(m)
             h == HourOf(m)
             length == IF start < end THEN end - start ELSE end + D - start
             today == Weekday(day) \in WorkingDays
             yesterday == Weekday(day + WeekLength - 1) \in WorkingDays
  <1>1. /\ D \in Nat \ {0} /\ start \in 0 .. D - 1 /\ end \in 0 .. D /\ WeekLength \in Nat \ {0}
    BY ClockGiven DEF Workday
  <1>2. /\ day \in Nat /\ h \in 0 .. D - 1 /\ m = day * D + h /\ day * D \in Nat
        /\ (day - 1) * D = day * D - D
    BY MomentOfADay
  <1>3. Weekday(day + WeekLength) = Weekday(day) /\ (day - 1) + WeekLength = day + WeekLength - 1
    BY <1>1, <1>2, WeekComesRound
  <1>4. OnShift(p, m) <=>
          \/ yesterday /\ m - ((day - 1) * D + start) \in 0 .. length - 1
          \/ today /\ m - (day * D + start) \in 0 .. length - 1
    BY <1>3 DEF OnShift
  <1>5. within_workday(p, m) <=>
          IF start < end THEN today /\ start <= h /\ h < end
          ELSE IF h >= start THEN today ELSE h < end /\ yesterday
    BY DEF within_workday
  <1> HIDE DEF D, start, end, day, h, today, yesterday
  <1>6. m - ((day - 1) * D + start) = h + D - start /\ m - (day * D + start) = h - start
    BY <1>1, <1>2
  <1>7. CASE start < end
    <2>1. length = end - start
      BY <1>7
    <2>2. ~(h + D - start \in 0 .. length - 1)
      BY <1>1, <1>2, <1>7, <2>1
    <2>3. h - start \in 0 .. length - 1 <=> start <= h /\ h < end
      BY <1>1, <1>2, <1>7, <2>1
    <2> QED BY <1>4, <1>5, <1>6, <1>7, <2>2, <2>3
  <1>8. CASE ~(start < end)
    <2>1. length = end + D - start
      BY <1>8
    <2>2. h + D - start \in 0 .. length - 1 <=> h < end
      BY <1>1, <1>2, <1>8, <2>1
    <2>3. h - start \in 0 .. length - 1 <=> h >= start
      BY <1>1, <1>2, <1>8, <2>1
    <2>4. ~(h >= start /\ h < end)
      BY <1>1, <1>2, <1>8
    <2> QED BY <1>4, <1>5, <1>6, <1>8, <2>2, <2>3, <2>4
  <1> QED BY <1>7, <1>8

\* In any week of moments a shift starts.
LEMMA ShiftWithinAWeek ==
  ASSUME NEW p, Workday(p), NEW c \in Nat
  PROVE  \E m \in c .. c + WeekLength * DayLength - 1 : within_workday(p, m)
  <1> DEFINE D == DayLength
             Wl == WeekLength
             start == p["workday_start"]
             first == (c + D - 1 - start) \div D
             rest == (c + D - 1 - start) % D
             q == first \div Wl
             a == first % Wl
  <1>1. /\ D \in Nat \ {0} /\ Wl \in Nat \ {0} /\ start \in 0 .. D - 1
        /\ WorkingDays \subseteq 1 .. Wl /\ WorkingDays # {}
    BY ClockGiven DEF Workday
  <1>2. PICK w \in WorkingDays : w \in 1 .. Wl
    BY <1>1
  <1> DEFINE ahead == IF w - 1 >= a THEN w - 1 - a ELSE w - 1 - a + Wl
             day == first + ahead
             m == day * D + start
  <1>3. first \in Nat /\ rest \in 0 .. D - 1 /\ c + D - 1 - start = first * D + rest
    <2> HIDE DEF D, start
    <2>1. c + D - 1 - start \in Nat
      BY <1>1
    <2> QED BY <1>1, <2>1
  <1>4. q \in Int /\ a \in 0 .. Wl - 1 /\ first = q * Wl + a
    <2> HIDE DEF Wl, first
    <2> QED BY <1>1, <1>3
  <1> HIDE DEF first, rest, q, a, D, Wl, start
  <1>5. /\ ahead \in 0 .. Wl - 1 /\ day \in Nat
        /\ day = (IF w - 1 >= a THEN q ELSE q + 1) * Wl + (w - 1)
    <2>1. q * Wl \in Int /\ (q + 1) * Wl = q * Wl + Wl
      BY <1>1, <1>4
    <2> QED BY <1>1, <1>2, <1>3, <1>4, <2>1
  <1> HIDE DEF ahead
  <1>6. Weekday(day) = w
    <2>1. day % Wl = w - 1
      <3> HIDE DEF day
      <3> DEFINE k == IF w - 1 >= a THEN q ELSE q + 1
      <3>1. k \in Int /\ w - 1 \in 0 .. Wl - 1 /\ day = k * Wl + (w - 1)
        BY <1>1, <1>2, <1>4, <1>5
      <3> HIDE DEF k
      <3> QED BY <1>1, <3>1, OneQuotient
    <2> QED BY <1>1, <1>2, <2>1 DEF Weekday, Wl
  <1>7. DayOf(m) = day /\ HourOf(m) = start
    <2> HIDE DEF day
    <2>1. (day * D + start) \div D = day /\ (day * D + start) % D = start
      <3>1. day \in Int /\ D \in Nat \ {0} /\ start \in 0 .. D - 1
        BY <1>1, <1>5
      <3> QED BY <3>1, OneQuotient
    <2> QED BY <2>1 DEF DayOf, HourOf, D
  <1>8. within_workday(p, m)
    <2> HIDE DEF m, day
    <2> QED BY <1>1, <1>2, <1>6, <1>7 DEF within_workday, start
  <1>9. m \in c .. c + Wl * D - 1
    <2>1. day * D = first * D + ahead * D /\ first * D \in Nat /\ ahead * D \in Nat
      BY <1>1, <1>3, <1>5
    <2>2. ahead * D <= Wl * D - D
      <3>1. ahead \in Int /\ Wl - 1 \in Int /\ ahead <= Wl - 1
        BY <1>1, <1>5
      <3> QED BY <1>1, <3>1, Multiples
    <2>3. Wl * D \in Nat
      BY <1>1
    <2>4. m = first * D + ahead * D + start /\ m \in Int
      BY <1>1, <2>1
    <2> HIDE DEF m, day
    <2>5. c <= first * D + start /\ first * D + start <= c + D - 1
      BY <1>1, <1>3, <2>1
    <2> QED BY <1>1, <2>1, <2>2, <2>3, <2>4, <2>5
  <1> QED BY <1>8, <1>9 DEF Wl, D

-----------------------------------------------------------------------------
(* The scheduler *)

\* Where the search of the phone stops, and that nothing it passed over was on a shift.
LEMMA WakesOnShift ==
  ASSUME NEW p, Workday(p), NEW now \in Nat, NEW ago \in 0 .. ReportEvery
  PROVE  LET wake == nextWakeMillis(p, TRUE, now - ago, now) IN
         /\ OnShift(p, wake)
         /\ \A m \in now .. wake - 1 : ~(OnShift(p, m) /\ m - (now - ago) >= ReportEvery)
  <1> DEFINE last == now - ago
             horizon == (WeekLength + 1) * DayLength
             decision == decide(p, TRUE, last, now)
             candidate == IF decision = "WAIT" THEN last + ReportEvery ELSE now + 1
             moments == {m \in candidate .. now + horizon : within_workday(p, m)}
             wake == nextWakeMillis(p, TRUE, last, now)
  <1>1. /\ ReportEvery \in Nat \ {0} /\ ReportEvery <= DayLength /\ DayLength \in Nat \ {0}
        /\ WeekLength \in Nat \ {0} /\ last \in Int
    BY ClockGiven
  <1>2. horizon = WeekLength * DayLength + DayLength /\ WeekLength * DayLength \in Nat
    BY <1>1
  <1>3. decision = IF ~within_workday(p, now) THEN "OFF_HOURS"
                   ELSE IF now - last < ReportEvery THEN "WAIT" ELSE "REPORT_NOW"
    BY DEF decide
  <1>4. CASE decision = "REPORT_NOW"
    <2>1. wake = now /\ within_workday(p, now)
      BY <1>3, <1>4 DEF nextWakeMillis
    <2> HIDE DEF wake
    <2>2. OnShift(p, wake)
      BY <2>1, HoursAreShifts
    <2>3. \A m \in now .. wake - 1 : FALSE
      BY <2>1
    <2> QED BY <2>2, <2>3 DEF wake
  <1>5. CASE decision # "REPORT_NOW"
    <2>1. wake = IF moments = {} THEN Never ELSE Earliest(moments)
      BY <1>5 DEF nextWakeMillis
    <2>2. /\ candidate \in Nat /\ candidate > now /\ candidate <= now + DayLength
      <3>1. CASE decision = "WAIT"
        <4>1. now - last < ReportEvery
          BY <1>3, <3>1
        <4> QED BY <1>1, <3>1, <4>1
      <3>2. CASE decision # "WAIT"
        BY <1>1, <3>2
      <3> QED BY <3>1, <3>2
    <2>3. moments \subseteq Nat
      <3> HIDE DEF candidate, horizon
      <3> QED BY <1>1, <1>2, <2>2
    <2>4. moments # {}
      <3>1. PICK m \in candidate .. candidate + WeekLength * DayLength - 1 : within_workday(p, m)
        BY <2>2, ShiftWithinAWeek
      <3> HIDE DEF candidate, horizon
      <3>2. m \in candidate .. now + horizon
        BY <1>1, <1>2, <2>2, <3>1
      <3> QED BY <3>1, <3>2
    <2> HIDE DEF moments, wake
    <2>5. wake \in moments /\ \A n \in moments : wake <= n
      BY <2>1, <2>3, <2>4, FirstOfMany DEF Earliest
    <2>6. within_workday(p, wake) /\ wake \in candidate .. now + horizon /\ wake \in Nat
      BY <2>3, <2>5 DEF moments
    <2>7. ASSUME NEW m \in now .. wake - 1, OnShift(p, m), m - last >= ReportEvery
          PROVE  FALSE
      <3>1. m \in Nat /\ within_workday(p, m)
        <4>1. m \in Nat
          BY <2>6, <2>7
        <4> QED BY <2>7, <4>1, HoursAreShifts
      <3>2. m >= candidate
        <4>1. CASE decision = "WAIT"
          BY <1>1, <2>7, <4>1
        <4>2. CASE decision # "WAIT"
          <5>1. m # now
            BY <1>3, <1>5, <3>1, <4>2
          <5> QED BY <2>6, <2>7, <4>2, <5>1
        <4> QED BY <4>1, <4>2
      <3> HIDE DEF candidate, horizon
      <3>3. m \in moments
        BY <1>2, <2>2, <2>6, <2>7, <3>1, <3>2 DEF moments
      <3> QED BY <2>5, <2>6, <2>7, <3>3
    <2>8. OnShift(p, wake)
      BY <2>6, HoursAreShifts
    <2> QED BY <2>7, <2>8 DEF wake
  <1> QED BY <1>4, <1>5

-----------------------------------------------------------------------------
(* The rows and the screens *)

\* What a scope may say: the midnight that ends a day starts none.
Sensible(says) == says \in Opinion /\ says["workday_start"] # DayLength

\* What an open screen will write is of that kind, too.
ScreenRow ==
  [act: {"set"}, scope: Scope, read: PolicyRow, asked: Changes]
    \cup [act: {"clear"}, id: 0 .. MaxRows] \cup {Closed}

\* Rows, and the screens between reading and writing.
PolicyTyped == PolicyTypeOK /\ asking \in [Editors -> ScreenRow]

RowsSensible == \A s \in Scope : Sensible(policy[s].says)

ScreensSensible ==
  \A e \in Editors : asking[e].act = "set" =>
    Sensible(asking[e].read.says) /\ asking[e].asked["workday_start"] # DayLength

\* No row and no screen has a day start at its last midnight.
PolicyInv == PolicyTyped /\ RowsSensible /\ ScreensSensible

\* A scope without a row says nothing.
LEMMA SilenceIsSensible == NoPolicy \in PolicyRow /\ Sensible(NoPolicy.says)
  BY ClockGiven DEF NoPolicy, PolicyRow, Silence, Opinion, Sensible, FIELDS

\* What is saved is what was there or what was asked.
LEMMA SavedIsSensible ==
  ASSUME NEW screen \in ScreenRow, screen.act = "set", Sensible(screen.read.says),
         screen.asked["workday_start"] # DayLength, NEW says, Sensible(says)
  PROVE  Sensible(Saved(screen, says))
  <1> DEFINE new == Saved(screen, says)
  <1>1. screen.asked \in Changes
    BY DEF ScreenRow, Closed
  <1>2. new = [f \in FIELDS |-> new[f]]
    BY DEF Saved
  <1>3. \A f \in FIELDS : new[f] = says[f] \/ new[f] = screen.read.says[f]
                          \/ (new[f] = screen.asked[f] /\ screen.asked[f] # Unsent)
    BY DEF Saved
  <1> HIDE DEF new
  <1>4. ASSUME NEW f \in FIELDS PROVE new[f] \in Hours \cup {NoOpinion}
    BY <1>1, <1>3 DEF Sensible, Opinion, Changes
  <1>5. new \in Opinion
    BY <1>2, <1>4 DEF Opinion
  <1>6. new["workday_start"] # DayLength
    BY <1>3 DEF FIELDS, Sensible
  <1> QED BY <1>5, <1>6 DEF Sensible, new

\* The field that wins is an hour of the day.
LEMMA EffectiveIsAWorkday == PolicyInv => Workday(effective)
  <1> SUFFICES ASSUME PolicyInv PROVE Workday(effective)
    OBVIOUS
  <1>1. ASSUME NEW s \in Scope
        PROVE  /\ policy[s].says["workday_start"] \in Hours \cup {NoOpinion}
               /\ policy[s].says["workday_end"] \in Hours \cup {NoOpinion}
               /\ policy[s].says["workday_start"] # DayLength
    BY DEF PolicyInv, RowsSensible, Sensible, Opinion, FIELDS
  <1>2. "zona" \in Scope /\ "unidad" \in Scope
    BY DEF Scope
  <1>3. /\ effective["workday_start"] = resolve_field("workday_start").value
        /\ effective["workday_end"] = resolve_field("workday_end").value
    BY DEF effective, FIELDS
  <1>4. resolve_field("workday_start").value \in 0 .. DayLength - 1
    <2>1. \A h \in Hours : h # DayLength => h \in 0 .. DayLength - 1
      BY ClockGiven
    <2>2. DEFAULTS["workday_start"] \in 0 .. DayLength - 1
      BY ClockGiven DEF DEFAULTS
    <2> QED BY <1>1, <1>2, <2>1, <2>2 DEF resolve_field
  <1>5. resolve_field("workday_end").value \in 0 .. DayLength
    BY <1>1, <1>2, ClockGiven DEF resolve_field, DEFAULTS
  <1> QED BY <1>3, <1>4, <1>5 DEF Workday

\* No rows, no screens.
LEMMA PolicyStart == PolicyInit => PolicyInv
  <1> SUFFICES ASSUME PolicyInit PROVE PolicyInv
    OBVIOUS
  <1>1. PolicyTyped
    BY ClockGiven, SilenceIsSensible DEF PolicyInit, PolicyTyped, PolicyTypeOK, ScreenRow
  <1>2. RowsSensible
    BY SilenceIsSensible DEF PolicyInit, RowsSensible
  <1>3. ScreensSensible
    BY DEF PolicyInit, ScreensSensible, Closed
  <1> QED BY <1>1, <1>2, <1>3 DEF PolicyInv

\* A request that was validated.
LEMMA ScreenOpens ==
  ASSUME PolicyInv, NEW e \in Editors, SetBegin(e)
  PROVE  PolicyInv'
  <1>1. PICK s \in Scope, changes \in Changes :
          /\ _validate(changes)
          /\ asking' = [asking EXCEPT ![e] =
               [act |-> "set", scope |-> s, read |-> policy[s], asked |-> changes]]
    BY DEF SetBegin
  <1> DEFINE screen == [act |-> "set", scope |-> s, read |-> policy[s], asked |-> changes]
  <1>2. policy' = policy /\ rows_made' = rows_made
    BY DEF SetBegin
  <1>3. /\ screen \in ScreenRow /\ Sensible(screen.read.says)
        /\ screen.asked["workday_start"] # DayLength
    BY <1>1 DEF ScreenRow, PolicyInv, PolicyTyped, PolicyTypeOK, RowsSensible, _validate
  <1> HIDE DEF screen
  <1>4. asking' = [asking EXCEPT ![e] = screen]
    BY <1>1 DEF screen
  <1>5. PolicyTyped'
    BY <1>2, <1>3, <1>4 DEF PolicyInv, PolicyTyped, PolicyTypeOK
  <1>6. ScreensSensible'
    BY <1>3, <1>4 DEF PolicyInv, PolicyTyped, ScreensSensible
  <1> QED BY <1>2, <1>5, <1>6 DEF PolicyInv, RowsSensible

\* What it saves may mix columns of two screens, each of them sensible.
LEMMA ScreenSaves ==
  ASSUME PolicyInv, NEW e \in Editors, SetCommit(e)
  PROVE  PolicyInv'
  <1> DEFINE screen == asking[e]
             s == screen.scope
             creates == screen.read = NoPolicy
             fails == policy[s].id # screen.read.id
             new == [id |-> IF creates THEN rows_made + 1 ELSE policy[s].id,
                     says |-> Saved(screen, policy[s].says)]
  <1>1. /\ screen.act = "set" /\ asking' = [asking EXCEPT ![e] = Closed]
        /\ creates /\ ~fails => rows_made < MaxRows
    BY DEF SetCommit
  <1>2. screen \in ScreenRow /\ s \in Scope
    BY <1>1 DEF PolicyInv, PolicyTyped, ScreenRow, Closed
  <1>3. /\ policy \in [Scope -> PolicyRow] /\ rows_made \in 0 .. MaxRows /\ MaxRows \in Nat
        /\ policy[s] \in PolicyRow /\ policy[s].id \in 0 .. MaxRows
    BY <1>2, ClockGiven DEF PolicyInv, PolicyTyped, PolicyTypeOK, PolicyRow
  <1>4. \/ fails /\ policy' = policy /\ rows_made' = rows_made
        \/ /\ ~fails /\ policy' = [policy EXCEPT ![s] = new]
           /\ rows_made' = IF creates THEN rows_made + 1 ELSE rows_made
    BY <1>2, <1>3 DEF SetCommit
  <1>5. Sensible(Saved(screen, policy[s].says))
    BY <1>1, <1>2, SavedIsSensible DEF PolicyInv, RowsSensible, ScreensSensible
  <1>6. /\ ~fails => new \in PolicyRow
        /\ Sensible(new.says) /\ rows_made' \in 0 .. MaxRows
    <2> HIDE DEF screen, creates, fails
    <2> QED BY <1>1, <1>3, <1>4, <1>5 DEF PolicyRow, Sensible
  <1> HIDE DEF new, fails, creates
  <1>7. PolicyTyped'
    BY <1>1, <1>3, <1>4, <1>6 DEF PolicyInv, PolicyTyped, PolicyTypeOK, ScreenRow
  <1>8. RowsSensible'
    BY <1>3, <1>4, <1>6 DEF PolicyInv, RowsSensible
  <1>9. ScreensSensible'
    BY <1>1 DEF PolicyInv, PolicyTyped, ScreensSensible, Closed
  <1> QED BY <1>7, <1>8, <1>9 DEF PolicyInv

\* A zone goes back to what its unit says.
LEMMA ScreenClears ==
  ASSUME PolicyInv, NEW e \in Editors, ClearBegin(e) \/ ClearCommit(e)
  PROVE  PolicyInv'
  <1>1. /\ rows_made' = rows_made
        /\ policy' \in {policy, [policy EXCEPT !["zona"] = NoPolicy]}
        /\ \E screen \in {Closed, [act |-> "clear", id |-> policy["zona"].id]} :
             asking' = [asking EXCEPT ![e] = screen]
    BY DEF ClearBegin, ClearCommit
  <1>2. policy["zona"].id \in 0 .. MaxRows
    BY DEF PolicyInv, PolicyTyped, PolicyTypeOK, PolicyRow, Scope
  <1>3. PICK screen \in {Closed, [act |-> "clear", id |-> policy["zona"].id]} :
          asking' = [asking EXCEPT ![e] = screen]
    BY <1>1
  <1>4. screen \in ScreenRow /\ screen.act # "set"
    BY <1>2, <1>3 DEF ScreenRow, Closed
  <1>5. PolicyTyped'
    BY <1>1, <1>3, <1>4, SilenceIsSensible DEF PolicyInv, PolicyTyped, PolicyTypeOK
  <1>6. RowsSensible'
    BY <1>1, SilenceIsSensible DEF PolicyInv, PolicyTyped, PolicyTypeOK, RowsSensible
  <1>7. ScreensSensible'
    BY <1>3, <1>4 DEF PolicyInv, PolicyTyped, ScreensSensible
  <1> QED BY <1>5, <1>6, <1>7 DEF PolicyInv

(* The theorems *)

\* One step of PolicyNext, an action at a time.
LEMMA PolicyStep == PolicyInv /\ [PolicyNext]_pcvars => PolicyInv'
  <1> SUFFICES ASSUME PolicyInv, [PolicyNext]_pcvars PROVE PolicyInv'
    OBVIOUS
  <1>1. CASE PolicyNext
    BY <1>1, ScreenOpens, ScreenSaves, ScreenClears DEF PolicyNext
  <1>2. CASE UNCHANGED pcvars
    BY <1>2 DEF pcvars, PolicyInv, PolicyTyped, PolicyTypeOK, RowsSensible, ScreensSensible
  <1> QED BY <1>1, <1>2

\* Whatever hours are in force, they are those of a day.
LEMMA NothingSleptThrough == PolicyInv => SleepsThroughNothing
  <1> SUFFICES ASSUME PolicyInv,
                      NEW now \in 0 .. WeekLength * DayLength - 1, NEW ago \in 0 .. ReportEvery
               PROVE  LET wake == nextWakeMillis(effective, TRUE, now - ago, now) IN
                      /\ OnShift(effective, wake)
                      /\ \A m \in now .. wake - 1 :
                           ~(OnShift(effective, m) /\ m - (now - ago) >= ReportEvery)
    BY DEF SleepsThroughNothing
  <1>1. now \in Nat
    BY ClockGiven
  <1> QED BY <1>1, EffectiveIsAWorkday, WakesOnShift

\* In every state, the hours in force are those of a day, and so will be those that open
\* screens save over what others saved meanwhile (_validate, set_policy and resolve_field
\* of policy/service.py).
THEOREM PolicyAlways == PolicySpec => []PolicyInv
  <1> QED BY PolicyStart, PolicyStep, PTL DEF PolicySpec

\* A phone wakes inside a shift and sleeps through no moment of one at which its last
\* report was old enough, shifts past midnight included (within_workday of
\* policy/service.py, nextWakeMillis of PositionSchedule.kt).
THEOREM AlwaysAwakeForAShift == PolicySpec => []SleepsThroughNothing
  <1> QED BY PolicyAlways, NothingSleptThrough, PTL

-----------------------------------------------------------------------------
(****************************************************************************)
(* ROUTES: no other order of the stops is shorter                           *)
(****************************************************************************)

(* Sums *)

\* A function over the first naturals is a sequence.
LEMMA Listed ==
  ASSUME NEW n \in Nat, NEW S, NEW f \in [1 .. n -> S]
  PROVE  f \in Seq(S) /\ Len(f) = n /\ DOMAIN f = 1 .. n
  <1>1. f \in Seq(S)
    BY SeqDef
  <1>2. Len(f) \in Nat /\ DOMAIN f = 1 .. Len(f)
    BY <1>1, LenProperties
  <1> QED BY <1>1, <1>2

\* Where a sum stands after each leg.
Running(sum, legs, n) ==
  /\ sum \in [0 .. n -> Int]
  /\ sum[0] = 0
  /\ \A i \in 1 .. n : sum[i] = sum[i - 1] + legs[i]

\* The recursive function of a sum exists, and goes leg by leg.
LEMMA SumRuns ==
  ASSUME NEW n \in Nat, NEW legs \in [1 .. n -> Int]
  PROVE  \E sum : Running(sum, legs, n) /\ SumOf(legs) = sum[n]
  <1> DEFINE Then(g, i) == IF i = 0 THEN 0 ELSE g[i - 1] + legs[i]
             S == {k \in 0 .. n : \E g \in [0 .. k -> Int] : g = [i \in 0 .. k |-> Then(g, i)]}
  <1>1. Len(legs) = n
    BY Listed
  <1>2. 0 \in S
    <2> DEFINE g == [i \in 0 .. 0 |-> 0]
    <2>1. \A i \in 0 .. 0 : i = 0 /\ Then(g, i) = 0
      OBVIOUS
    <2> HIDE DEF Then
    <2>2. g = [i \in 0 .. 0 |-> Then(g, i)] /\ g \in [0 .. 0 -> Int]
      BY <2>1
    <2> HIDE DEF g
    <2> QED BY <2>2
  <1>3. ASSUME NEW k \in 0 .. n - 1, k \in S PROVE k + 1 \in S
    <2>1. PICK g \in [0 .. k -> Int] : g = [i \in 0 .. k |-> Then(g, i)]
      BY <1>3
    <2> DEFINE next == g[k] + legs[k + 1]
               h == [i \in 0 .. k + 1 |-> IF i = k + 1 THEN next ELSE g[i]]
    <2>2. k \in Nat /\ k \in 0 .. k /\ k + 1 \in 1 .. n /\ k + 1 # 0 /\ k + 1 \in 0 .. n
      OBVIOUS
    <2>3. next \in Int
      BY <2>2
    <2> HIDE DEF next
    <2>4. h \in [0 .. k + 1 -> Int]
      BY <2>2, <2>3
    <2>5. ASSUME NEW i \in 0 .. k + 1 PROVE h[i] = Then(h, i)
      <3>1. CASE i = k + 1
        <4>1. i # 0 /\ i - 1 = k /\ k \in 0 .. k + 1 /\ k # k + 1
          BY <2>2, <3>1
        <4>2. h[i] = next /\ h[i - 1] = g[k]
          BY <3>1, <4>1
        <4> HIDE DEF h
        <4> QED BY <3>1, <4>1, <4>2 DEF next
      <3>2. CASE i = 0
        <4>1. 0 \in 0 .. k /\ 0 \in 0 .. k + 1 /\ 0 # k + 1
          BY <2>2
        <4>2. h[0] = g[0] /\ g[0] = 0
          BY <2>1, <4>1
        <4> HIDE DEF h
        <4> QED BY <3>2, <4>2
      <3>3. CASE i # 0 /\ i # k + 1
        <4>1. i \in 0 .. k /\ i - 1 \in 0 .. k /\ i - 1 \in 0 .. k + 1 /\ i - 1 # k + 1
          BY <2>2, <3>3
        <4>2. h[i] = g[i] /\ h[i - 1] = g[i - 1]
          BY <3>3, <4>1
        <4>3. g[i] = g[i - 1] + legs[i]
          BY <2>1, <3>3, <4>1
        <4> HIDE DEF h
        <4> QED BY <3>3, <4>2, <4>3
      <3> QED BY <3>1, <3>2, <3>3
    <2>6. h = [i \in 0 .. k + 1 |-> h[i]]
      OBVIOUS
    <2> HIDE DEF h, Then
    <2>7. h = [i \in 0 .. k + 1 |-> Then(h, i)]
      BY <2>5, <2>6
    <2> QED BY <2>2, <2>4, <2>7
  <1> HIDE DEF S
  <1>4. n \in S
    <2>1. \A k \in 0 .. n : k \in S
      BY <1>2, <1>3, UpTo
    <2> QED BY <2>1
  <1>5. \E g \in [0 .. n -> Int] : g = [i \in 0 .. n |-> Then(g, i)]
    BY <1>4 DEF S
  <1> DEFINE sum == CHOOSE g : g = [i \in 0 .. n |-> Then(g, i)]
  <1>6. SumOf(legs) = sum[n]
    BY <1>1 DEF SumOf
  <1>7. sum = [i \in 0 .. n |-> Then(sum, i)]
    <2> HIDE DEF Then
    <2> QED BY <1>5
  <1>8. sum[0] = 0 /\ \A i \in 1 .. n : i # 0 /\ sum[i] = sum[i - 1] + legs[i]
    <2>1. 0 \in 0 .. n /\ \A i \in 1 .. n : i \in 0 .. n /\ i # 0
      OBVIOUS
    <2> HIDE DEF sum
    <2> QED BY <1>7, <2>1
  <1>9. sum \in [0 .. n -> Int]
    <2>1. PICK g \in [0 .. n -> Int] : g = [i \in 0 .. n |-> Then(g, i)]
      BY <1>5
    <2> HIDE DEF sum
    <2> DEFINE R == {k \in 0 .. n : sum[k] \in Int}
    <2>2. 0 \in R
      BY <1>8
    <2>3. ASSUME NEW k \in 0 .. n - 1, k \in R PROVE k + 1 \in R
      <3>1. k + 1 \in 1 .. n /\ k + 1 - 1 = k
        OBVIOUS
      <3> QED BY <1>8, <2>3, <3>1
    <2> HIDE DEF R
    <2>4. \A k \in 0 .. n : k \in R
      BY <2>2, <2>3, UpTo
    <2>5. \A k \in 0 .. n : sum[k] \in Int
      BY <2>4 DEF R
    <2>6. sum = [i \in 0 .. n |-> sum[i]]
      BY <1>7
    <2> QED BY <2>5, <2>6
  <1> HIDE DEF sum
  <1> QED BY <1>6, <1>8, <1>9 DEF Running

\* Legs that are not backwards.
LEMMA SumOnward ==
  ASSUME NEW n \in Nat, NEW legs \in [1 .. n -> Nat]
  PROVE  SumOf(legs) \in Nat
  <1>1. PICK sum : Running(sum, legs, n) /\ SumOf(legs) = sum[n]
    BY SumRuns
  <1> DEFINE R == {k \in 0 .. n : sum[k] \in Nat}
  <1>2. 0 \in R
    BY <1>1 DEF Running
  <1>3. ASSUME NEW k \in 0 .. n - 1, k \in R PROVE k + 1 \in R
    <2>1. k + 1 \in 1 .. n /\ k + 1 - 1 = k
      OBVIOUS
    <2>2. sum[k + 1] = sum[k] + legs[k + 1]
      BY <1>1, <2>1 DEF Running
    <2> QED BY <1>3, <2>1, <2>2
  <1> HIDE DEF R
  <1>4. \A k \in 0 .. n : k \in R
    BY <1>2, <1>3, UpTo
  <1> QED BY <1>1, <1>4 DEF R

\* Nothing at the end adds nothing.
LEMMA LastIsFree ==
  ASSUME NEW n \in Nat, NEW legs \in [1 .. n + 1 -> Int], legs[n + 1] = 0
  PROVE  SumOf(legs) = SumOf([i \in 1 .. n |-> legs[i]])
  <1> DEFINE first == [i \in 1 .. n |-> legs[i]]
  <1>1. first \in [1 .. n -> Int] /\ \A i \in 1 .. n : first[i] = legs[i]
    OBVIOUS
  <1> HIDE DEF first
  <1>2. PICK sum : Running(sum, legs, n + 1) /\ SumOf(legs) = sum[n + 1]
    BY SumRuns
  <1>3. PICK part : Running(part, first, n) /\ SumOf(first) = part[n]
    BY <1>1, SumRuns
  <1> DEFINE R == {k \in 0 .. n : sum[k] = part[k]}
  <1>4. 0 \in R
    BY <1>2, <1>3 DEF Running
  <1>5. ASSUME NEW k \in 0 .. n - 1, k \in R PROVE k + 1 \in R
    <2>1. k + 1 \in 1 .. n /\ k + 1 \in 1 .. n + 1 /\ k + 1 - 1 = k
      OBVIOUS
    <2>2. sum[k + 1] = sum[k] + legs[k + 1]
      BY <1>2, <2>1 DEF Running
    <2>3. part[k + 1] = part[k] + first[k + 1]
      BY <1>3, <2>1 DEF Running
    <2> QED BY <1>1, <1>5, <2>1, <2>2, <2>3
  <1> HIDE DEF R
  <1>6. \A k \in 0 .. n : k \in R
    BY <1>4, <1>5, UpTo
  <1>7. sum[n] = part[n]
    BY <1>6 DEF R
  <1>8. sum[n + 1] = sum[n] + 0 /\ sum[n] \in Int
    <2>1. n + 1 \in 1 .. n + 1 /\ n + 1 - 1 = n /\ n \in 0 .. n + 1
      OBVIOUS
    <2> QED BY <1>2, <2>1 DEF Running
  <1> QED BY <1>2, <1>3, <1>7, <1>8 DEF first

\* Nor does nothing at the start.
LEMMA FirstIsFree ==
  ASSUME NEW n \in Nat, NEW legs \in [1 .. n + 1 -> Int], legs[1] = 0
  PROVE  SumOf(legs) = SumOf([i \in 1 .. n |-> legs[i + 1]])
  <1> DEFINE rest == [i \in 1 .. n |-> legs[i + 1]]
  <1>1. rest \in [1 .. n -> Int] /\ \A i \in 1 .. n : rest[i] = legs[i + 1]
    OBVIOUS
  <1> HIDE DEF rest
  <1>2. PICK sum : Running(sum, legs, n + 1) /\ SumOf(legs) = sum[n + 1]
    BY SumRuns
  <1>3. PICK part : Running(part, rest, n) /\ SumOf(rest) = part[n]
    BY <1>1, SumRuns
  <1> DEFINE R == {k \in 0 .. n : sum[k + 1] = part[k]}
  <1>4. 0 \in R
    <2>1. 1 \in 1 .. n + 1 /\ 1 - 1 = 0 /\ 0 + 1 = 1
      OBVIOUS
    <2>2. sum[1] = sum[0] + legs[1] /\ sum[0] = 0 /\ part[0] = 0
      BY <1>2, <1>3, <2>1 DEF Running
    <2> QED BY <2>1, <2>2
  <1>5. ASSUME NEW k \in 0 .. n - 1, k \in R PROVE k + 1 \in R
    <2> DEFINE i == k + 1
    <2>1. i \in 1 .. n /\ i + 1 \in 1 .. n + 1 /\ i - 1 = k /\ i + 1 - 1 = i /\ i \in 0 .. n
      OBVIOUS
    <2>2. sum[i] = part[k]
      BY <1>5
    <2> HIDE DEF i
    <2>3. sum[i + 1] = sum[i] + legs[i + 1]
      <3>1. \A j \in 1 .. n + 1 : sum[j] = sum[j - 1] + legs[j]
        BY <1>2 DEF Running
      <3>2. sum[i + 1] = sum[i + 1 - 1] + legs[i + 1]
        BY <2>1, <3>1
      <3> QED BY <2>1, <3>2
    <2>4. part[i] = part[k] + rest[i]
      <3>1. \A j \in 1 .. n : part[j] = part[j - 1] + rest[j]
        BY <1>3 DEF Running
      <3>2. part[i] = part[i - 1] + rest[i]
        BY <2>1, <3>1
      <3> QED BY <2>1, <3>2
    <2>5. i \in R
      BY <1>1, <2>1, <2>2, <2>3, <2>4
    <2> QED BY <2>5 DEF i
  <1> HIDE DEF R
  <1>6. \A k \in 0 .. n : k \in R
    BY <1>4, <1>5, UpTo
  <1>7. sum[n + 1] = part[n]
    BY <1>6 DEF R
  <1> QED BY <1>2, <1>3, <1>7 DEF rest

-----------------------------------------------------------------------------
(* Paths *)

\* Places on the line are some way apart, and none is the ghost.
LEMMA SomeWayApart ==
  ASSUME NEW a \in Int, NEW b \in Int
  PROVE  /\ Distance(a, b) \in Nat /\ Distance(a, b) \in Int
         /\ a # Ghost /\ b # Ghost /\ distance_callback(a, b) = Distance(a, b)
  BY RoutesGiven, CrewsGiven DEF Distance, distance_callback, Ghost

\* The length of a path, by its legs.
LEMMA PathLegs ==
  ASSUME NEW n \in Nat \ {0}, NEW S, NEW points \in [1 .. n -> S]
  PROVE  Path(points) = SumOf([i \in 1 .. n - 1 |-> Distance(points[i], points[i + 1])])
  <1>1. Len(points) = n
    BY Listed
  <1> QED BY <1>1 DEF Path

\* A path is of some length.
LEMMA PathOnward ==
  ASSUME NEW n \in Nat \ {0}, NEW points \in [1 .. n -> Int]
  PROVE  Path(points) \in Nat
  <1> DEFINE legs == [i \in 1 .. n - 1 |-> Distance(points[i], points[i + 1])]
  <1>1. legs \in [1 .. n - 1 -> Nat]
    <2>1. ASSUME NEW i \in 1 .. n - 1 PROVE Distance(points[i], points[i + 1]) \in Nat
      <3>1. points[i] \in Int /\ points[i + 1] \in Int
        OBVIOUS
      <3> QED BY <3>1, SomeWayApart
    <2> QED BY <2>1
  <1> HIDE DEF legs
  <1>2. n - 1 \in Nat
    OBVIOUS
  <1>3. SumOf(legs) \in Nat
    BY <1>1, <1>2, SumOnward
  <1> QED BY <1>3, PathLegs DEF legs

\* With a leg of nothing before it, a path is as long.
LEMMA FreeStart ==
  ASSUME NEW n \in Nat \ {0}, NEW points \in [1 .. n -> Int]
  PROVE  SumOf([i \in 1 .. n |-> IF i = 1 THEN 0 ELSE Distance(points[i - 1], points[i])])
           = Path(points)
  <1> DEFINE m == n - 1
             legs == [i \in 1 .. m + 1 |-> IF i = 1 THEN 0 ELSE Distance(points[i - 1], points[i])]
             rest == [i \in 1 .. m |-> legs[i + 1]]
             way == [i \in 1 .. m |-> Distance(points[i], points[i + 1])]
  <1>1. m \in Nat /\ m + 1 = n /\ 1 \in 1 .. m + 1
    OBVIOUS
  <1>2. legs \in [1 .. m + 1 -> Int]
    <2>1. ASSUME NEW i \in 1 .. m + 1, i # 1 PROVE Distance(points[i - 1], points[i]) \in Int
      <3>1. points[i - 1] \in Int /\ points[i] \in Int
        BY <2>1
      <3> QED BY <3>1, SomeWayApart
    <2> QED BY <2>1
  <1>3. legs[1] = 0
    BY <1>1
  <1>4. rest = way
    <2>1. ASSUME NEW i \in 1 .. m PROVE legs[i + 1] = Distance(points[i], points[i + 1])
      <3>1. i + 1 \in 1 .. m + 1 /\ i + 1 # 1 /\ i + 1 - 1 = i
        OBVIOUS
      <3> QED BY <3>1
    <2> HIDE DEF legs
    <2> QED BY <2>1
  <1>5. Path(points) = SumOf(way)
    BY PathLegs
  <1> HIDE DEF legs, m
  <1>6. SumOf(legs) = SumOf(rest)
    BY <1>1, <1>2, <1>3, FirstIsFree
  <1>7. legs = [i \in 1 .. n |-> IF i = 1 THEN 0 ELSE Distance(points[i - 1], points[i])]
    BY <1>1 DEF legs
  <1> HIDE DEF rest, way
  <1> QED BY <1>4, <1>5, <1>6, <1>7

\* A cycle through the ghost costs what its path is long.
LEMMA GhostIsFree ==
  ASSUME NEW n \in Nat \ {0}, NEW points \in [1 .. n -> Int]
  PROVE  Cost(<<Ghost>> \o points) = Path(points)
  <1> DEFINE places == <<Ghost>> \o points
             cost(i) == distance_callback(places[i], places[(i % Len(places)) + 1])
             legs == [i \in 1 .. n + 1 |-> cost(i)]
             first == [i \in 1 .. n |-> legs[i]]
             way == [i \in 1 .. n |-> IF i = 1 THEN 0 ELSE Distance(points[i - 1], points[i])]
  <1>1. /\ Len(places) = n + 1 /\ DOMAIN places = 1 .. n + 1 /\ places[1] = Ghost
        /\ \A i \in 2 .. n + 1 : places[i] = points[i - 1]
    <2> DEFINE S == Int \cup {Ghost}
    <2>1. points \in Seq(S) /\ Len(points) = n
      BY Listed, SeqDef
    <2>2. <<Ghost>> \in Seq(S) /\ Len(<<Ghost>>) = 1 /\ <<Ghost>>[1] = Ghost
      OBVIOUS
    <2>3. /\ places \in Seq(S) /\ Len(places) = 1 + n
          /\ \A i \in 1 .. 1 + n : places[i] = IF i <= 1 THEN <<Ghost>>[i] ELSE points[i - 1]
      BY <2>1, <2>2, ConcatProperties
    <2> HIDE DEF places
    <2>4. DOMAIN places = 1 .. n + 1
      BY <2>3, LenProperties
    <2>5. places[1] = Ghost
      BY <2>2, <2>3
    <2> QED BY <2>3, <2>4, <2>5
  <1> HIDE DEF places
  <1>2. cost(1) = 0
    BY <1>1 DEF distance_callback
  <1>3. cost(n + 1) = 0
    <2>1. ((n + 1) % (n + 1)) + 1 = 1
      OBVIOUS
    <2> QED BY <1>1, <2>1 DEF distance_callback
  <1>4. ASSUME NEW i \in 2 .. n PROVE cost(i) = Distance(points[i - 1], points[i]) /\ cost(i) \in Int
    <2>1. i % (n + 1) = i
      OBVIOUS
    <2>2. places[i] = points[i - 1] /\ places[i + 1] = points[i]
      <3>1. i \in 2 .. n + 1 /\ i + 1 \in 2 .. n + 1 /\ i + 1 - 1 = i
        OBVIOUS
      <3>2. places[i + 1] = points[i + 1 - 1]
        BY <1>1, <3>1
      <3> QED BY <1>1, <3>1, <3>2
    <2>3. points[i - 1] \in Int /\ points[i] \in Int
      OBVIOUS
    <2>4. cost(i) = distance_callback(points[i - 1], points[i])
      BY <1>1, <2>1, <2>2
    <2> HIDE DEF cost
    <2> QED BY <2>3, <2>4, SomeWayApart
  <1> HIDE DEF cost
  <1>5. legs \in [1 .. n + 1 -> Int] /\ legs[n + 1] = 0
    <2>1. \A i \in 1 .. n + 1 : i = 1 \/ i = n + 1 \/ i \in 2 .. n
      OBVIOUS
    <2> QED BY <1>2, <1>3, <1>4, <2>1
  <1>6. first = way
    <2>1. \A i \in 1 .. n : i = 1 \/ i \in 2 .. n
      OBVIOUS
    <2> QED BY <1>2, <1>4, <2>1
  <1>7. Cost(places) = SumOf(legs)
    BY <1>1 DEF Cost, cost
  <1> HIDE DEF legs
  <1>8. SumOf(legs) = SumOf(first)
    BY <1>5, LastIsFree
  <1>9. SumOf(way) = Path(points)
    BY FreeStart
  <1> HIDE DEF first, way
  <1> QED BY <1>6, <1>7, <1>8, <1>9 DEF places

-----------------------------------------------------------------------------
(* The solver *)

\* The points in the order they are visited in.
Visited(points, s) == [i \in DOMAIN s |-> points[s[i]]]

\* A permutation of the stops goes to each of them.
LEMMA Permutes ==
  ASSUME NEW n \in Nat, NEW s \in Permuted(n)
  PROVE  /\ s \in [1 .. n -> 1 .. n] /\ DOMAIN s = 1 .. n
         /\ \A i, j \in 1 .. n : s[i] = s[j] => i = j
         /\ \A j \in 1 .. n : \E i \in 1 .. n : s[i] = j
  <1>1. s \in [1 .. n -> 1 .. n] /\ \A i, j \in 1 .. n : s[i] = s[j] => i = j
    BY DEF Permuted, IsInjective
  <1>2. s \in Injection(1 .. n, 1 .. n)
    BY <1>1 DEF Injection, IsInjective
  <1>3. IsFiniteSet(1 .. n)
    BY FS_Interval
  <1>4. s \in Surjection(1 .. n, 1 .. n)
    BY <1>2, <1>3, FS_Injection
  <1>5. \A j \in 1 .. n : \E i \in 1 .. n : s[i] = j
    BY <1>4 DEF Surjection
  <1> QED BY <1>1, <1>5

\* As they were asked for.
LEMMA AsAsked ==
  ASSUME NEW n \in Nat
  PROVE  [i \in 1 .. n |-> i] \in Permuted(n)
  BY DEF Permuted, IsInjective

\* One after another is a permutation again.
LEMMA Composed ==
  ASSUME NEW n \in Nat, NEW s \in Permuted(n), NEW t \in Permuted(n)
  PROVE  [i \in 1 .. n |-> s[t[i]]] \in Permuted(n)
  <1>1. /\ s \in [1 .. n -> 1 .. n] /\ t \in [1 .. n -> 1 .. n]
        /\ \A i, j \in 1 .. n : s[i] = s[j] => i = j
        /\ \A i, j \in 1 .. n : t[i] = t[j] => i = j
    BY Permutes
  <1> DEFINE st == [i \in 1 .. n |-> s[t[i]]]
  <1>2. st \in [1 .. n -> 1 .. n]
    BY <1>1
  <1>3. \A i, j \in 1 .. n : st[i] = st[j] => i = j
    BY <1>1
  <1> HIDE DEF st
  <1> QED BY <1>2, <1>3 DEF Permuted, IsInjective, st

\* An attempt visits every stop.
LEMMA AttemptPermutes ==
  ASSUME NEW n \in Nat, NEW points, Len(points) = n, NEW start, NEW s \in attempt(points, start)
  PROVE  s \in Permuted(n)
  <1>1. PICK c \in Cycles(points, start) : s = c.visits
    BY DEF attempt
  <1>2. CASE start = NoStart
    BY <1>1, <1>2 DEF Cycles
  <1>3. CASE start # NoStart
    <2> DEFINE Cycle(u, k) == [visits |-> u,
                 places |-> <<start>> \o InsertAt([i \in 1 .. n |-> points[u[i]]], k, Ghost)]
    <2>1. Cycles(points, start) = {Cycle(u, k) : u \in Permuted(n), k \in 1 .. n + 1}
      BY <1>3 DEF Cycles
    <2>2. \A u, k : Cycle(u, k).visits = u
      OBVIOUS
    <2> HIDE DEF Cycle
    <2>3. PICK u \in Permuted(n), k \in 1 .. n + 1 : c = Cycle(u, k)
      BY <1>1, <2>1
    <2> QED BY <1>1, <2>2, <2>3
  <1> QED BY <1>2, <1>3

\* With both ends free an attempt, at its best, is a shortest path.
LEMMA AttemptShortest ==
  ASSUME NEW n \in Nat \ {0}, NEW points \in [1 .. n -> Int], NEW s \in attempt(points, NoStart),
         NEW t \in Permuted(n)
  PROVE  Path(Visited(points, s)) <= Path(Visited(points, t))
  <1> DEFINE cycles == Cycles(points, NoStart)
             costs == {Cost(c.places) : c \in cycles}
             least == Min(costs)
             Cycle(u) == [visits |-> u, places |-> <<Ghost>> \o [i \in 1 .. n |-> points[u[i]]]]
  <1>1. n \in Nat /\ Len(points) = n
    BY Listed
  <1>2. cycles = {Cycle(u) : u \in Permuted(n)}
    BY <1>1 DEF Cycles
  <1>3. ASSUME NEW u \in Permuted(n)
        PROVE  /\ Visited(points, u) \in [1 .. n -> Int]
               /\ Cost(Cycle(u).places) = Path(Visited(points, u))
               /\ Path(Visited(points, u)) \in Nat
    <2> DEFINE visited == [i \in 1 .. n |-> points[u[i]]]
    <2>1. visited \in [1 .. n -> Int] /\ Visited(points, u) = visited
      <3>1. u \in [1 .. n -> 1 .. n] /\ DOMAIN u = 1 .. n
        BY <1>1, Permutes
      <3> QED BY <3>1 DEF Visited
    <2>2. Cycle(u).places = <<Ghost>> \o visited
      OBVIOUS
    <2> HIDE DEF visited, Cycle
    <2>3. Cost(<<Ghost>> \o visited) = Path(visited) /\ Path(visited) \in Nat
      BY <2>1, GhostIsFree, PathOnward
    <2> QED BY <2>1, <2>2, <2>3
  <1>4. \A u \in Permuted(n) : Cycle(u).visits = u
    OBVIOUS
  <1> HIDE DEF Cycle, cycles
  <1>5. costs \in SUBSET Nat
    BY <1>2, <1>3
  <1>6. Cost(Cycle(t).places) \in costs
    BY <1>2
  <1>7. least \in costs /\ \A x \in costs : least <= x
    <2> HIDE DEF costs
    <2>1. \E x \in costs : \A y \in costs : x <= y
      BY <1>5, <1>6, FirstOfMany
    <2> QED BY <2>1 DEF Min
  <1>8. PICK c \in cycles : s = c.visits /\ Cost(c.places) = least
    BY DEF attempt, cycles, costs
  <1>9. c = Cycle(s) /\ s \in Permuted(n)
    BY <1>2, <1>4, <1>8
  <1> HIDE DEF costs, least
  <1>10. Path(Visited(points, s)) = least
    BY <1>3, <1>8, <1>9
  <1>11. least <= Path(Visited(points, t))
    BY <1>3, <1>6, <1>7
  <1> QED BY <1>10, <1>11

\* What is answered is one of the attempts.
LEMMA SolveAnswers ==
  ASSUME NEW n \in Nat \ {0}, NEW points \in [1 .. n -> Int], NEW start \in Int \cup {NoStart},
         NEW first \in attempt(points, start), NEW second \in attempt(points, start)
  PROVE  _solve({first, second}, points, start) \in attempt(points, start)
  <1> DEFINE attempts == {first, second}
             real(s) == Path(From(start, [i \in DOMAIN s |-> points[s[i]]]))
  <1>1. n \in Nat /\ Len(points) = n
    BY Listed
  <1>2. ASSUME NEW s \in attempts PROVE real(s) \in Nat
    <2> DEFINE visited == [i \in DOMAIN s |-> points[s[i]]]
    <2>1. s \in Permuted(n)
      BY <1>1, <1>2, AttemptPermutes
    <2>2. visited \in [1 .. n -> Int]
      <3>1. s \in [1 .. n -> 1 .. n] /\ DOMAIN s = 1 .. n
        BY <1>1, <2>1, Permutes
      <3> QED BY <3>1
    <2> HIDE DEF visited
    <2>3. CASE start = NoStart
      <3>1. From(start, visited) = visited
        BY <2>3 DEF From
      <3> QED BY <2>2, <3>1, PathOnward DEF visited
    <2>4. CASE start # NoStart
      <3>1. /\ <<start>> \in Seq(Int) /\ Len(<<start>>) = 1
            /\ visited \in Seq(Int) /\ Len(visited) = n
        BY <1>1, <2>2, <2>4, Listed
      <3> DEFINE before == <<start>> \o visited
      <3>2. before \in Seq(Int) /\ Len(before) = 1 + n
        BY <3>1, ConcatProperties
      <3>3. From(start, visited) = before
        BY <2>4 DEF From
      <3> HIDE DEF before
      <3>4. 1 + n \in Nat \ {0} /\ before \in [1 .. 1 + n -> Int]
        BY <1>1, <3>2, LenProperties
      <3> QED BY <3>3, <3>4, PathOnward DEF visited
    <2> QED BY <2>3, <2>4
  <1> HIDE DEF real
  <1>3. real(first) \in Nat /\ real(second) \in Nat
    BY <1>2
  <1>4. \E s \in attempts : \A other \in attempts : real(s) <= real(other)
    <2>1. CASE real(first) <= real(second)
      BY <1>3, <2>1
    <2>2. CASE real(second) <= real(first)
      BY <1>3, <2>2
    <2> QED BY <1>3, <2>1, <2>2
  <1>5. _solve(attempts, points, start)
          = CHOOSE s \in attempts : \A other \in attempts : real(s) <= real(other)
    BY DEF _solve, real
  <1> HIDE DEF attempts
  <1>6. _solve(attempts, points, start) \in attempts
    BY <1>4, <1>5
  <1> QED BY <1>6 DEF attempts

-----------------------------------------------------------------------------
(* The request *)

\* Where each telephone was last.
FixesTyped == fixes \in [CrewPhones -> {NoPlace} \cup [place: ReportedFrom, stale: BOOLEAN]]

\* A route needs to know no more of the rest than where telephones may be.
RoutesInv == FixesTyped /\ RouteIsShortest

\* When an order is visited.
VisitsOf(f, o) == {i \in DOMAIN f : f[i] = o}

\* Each order asked for is visited as often as it was asked for.
LEMMA OnceEach ==
  ASSUME NEW n \in Nat, NEW asked \in [1 .. n -> Tasks], NEW s \in Permuted(n), NEW o
  PROVE  Cardinality(VisitsOf([i \in 1 .. n |-> asked[s[i]]], o)) = Cardinality(VisitsOf(asked, o))
  <1> DEFINE A == VisitsOf([i \in 1 .. n |-> asked[s[i]]], o)
             B == VisitsOf(asked, o)
             f == [i \in A |-> s[i]]
  <1>1. /\ s \in [1 .. n -> 1 .. n]
        /\ \A i, j \in 1 .. n : s[i] = s[j] => i = j
        /\ \A j \in 1 .. n : \E i \in 1 .. n : s[i] = j
    BY Permutes
  <1>2. f \in [A -> B]
    BY <1>1 DEF VisitsOf
  <1>3. \A i, j \in A : f[i] = f[j] => i = j
    BY <1>1 DEF VisitsOf
  <1>4. \A j \in B : \E i \in A : f[i] = j
    BY <1>1 DEF VisitsOf
  <1>5. IsFiniteSet(A)
    <2>1. IsFiniteSet(1 .. n) /\ A \subseteq 1 .. n
      BY FS_Interval DEF VisitsOf
    <2> QED BY <2>1, FS_Subset
  <1> HIDE DEF A, B, f
  <1>6. f \in Bijection(A, B)
    BY <1>2, <1>3, <1>4 DEF Bijection, Injection, Surjection, IsInjective
  <1>7. Cardinality(B) = Cardinality(A)
    BY <1>5, <1>6, FS_Bijection DEF ExistsBijection
  <1> QED BY <1>7 DEF A, B

\* A route that is suggested is the shortest with both ends free.
LEMMA RouteFound ==
  ASSUME FixesTyped, NEW n \in MIN_STOPS .. MAX_STOPS, NEW asked \in [1 .. n -> Tasks],
         NEW start \in StartPoints, SuggestRoute(asked, start)
  PROVE  RouteIsShortest'
  <1> DEFINE points == [i \in DOMAIN asked |-> TaskOf[asked[i]].place]
             attempts == attempt(points, start)
  <1>1. n \in Nat \ {0} /\ n \in Nat
    BY RoutesGiven, CrewsGiven
  <1>2. Len(asked) = n /\ DOMAIN asked = 1 .. n /\ \A i \in 1 .. n : asked[i] \in ToSet(asked)
    BY <1>1, Listed DEF ToSet
  <1>3. points \in [1 .. n -> Int] /\ \A i \in 1 .. n : points[i] = TaskOf[asked[i]].place
    <2>1. ASSUME NEW i \in 1 .. n PROVE TaskOf[asked[i]].place \in Int
      <3>1. TaskOf[asked[i]].place # NoPlace
        BY <1>2 DEF SuggestRoute
      <3> QED BY <3>1, RoutesGiven, CrewsGiven
    <2> QED BY <1>2, <2>1
  <1>4. start \in Int \cup {NoStart}
    BY RoutesGiven, CrewsGiven DEF FixesTyped, StartPoints
  <1> DEFINE Answer(s) ==
               LET visited == [i \in DOMAIN s |-> points[s[i]]]
                   before == From(start, visited)
               IN [asked |-> asked, start |-> start,
                   stops |-> [i \in DOMAIN s |->
                     [order |-> asked[s[i]],
                      leg |-> IF start = NoStart
                              THEN (IF i = 1 THEN 0 ELSE Distance(visited[i - 1], visited[i]))
                              ELSE Distance(before[i], visited[i])]],
                   naive |-> Path(From(start, points))]
  <1>5. PICK first \in attempts, second \in attempts :
          route' = Answer(_solve({first, second}, points, start))
    BY DEF SuggestRoute
  <1> HIDE DEF points, attempts
  <1> DEFINE s == _solve({first, second}, points, start)
             visited == [i \in DOMAIN s |-> points[s[i]]]
             before == From(start, visited)
             leg(i) == IF start = NoStart
                       THEN (IF i = 1 THEN 0 ELSE Distance(visited[i - 1], visited[i]))
                       ELSE Distance(before[i], visited[i])
             stops == [i \in 1 .. n |-> [order |-> asked[s[i]], leg |-> leg(i)]]
  <1>6. s \in attempts
    BY <1>1, <1>3, <1>4, SolveAnswers DEF attempts
  <1>7. s \in Permuted(n)
    <2>1. Len(points) = n
      BY <1>1, <1>3, Listed
    <2> HIDE DEF s
    <2> QED BY <1>1, <1>6, <2>1, AttemptPermutes DEF attempts
  <1>8. /\ s \in [1 .. n -> 1 .. n] /\ DOMAIN s = 1 .. n
    BY <1>1, <1>7, Permutes
  <1>9. /\ route'.stops = stops /\ route'.start = start /\ route'.asked = asked
    BY <1>5, <1>8
  <1> HIDE DEF s
  <1>10. visited \in [1 .. n -> Int]
    BY <1>3, <1>8
  <1> HIDE DEF visited
  <1>11. Len(stops) = n /\ DOMAIN stops = 1 .. n
    <2>1. stops \in [1 .. n -> {stops[i] : i \in 1 .. n}]
      OBVIOUS
    <2> HIDE DEF stops
    <2> QED BY <1>1, <2>1, Listed
  <1>12. \A i \in 1 .. n : stops[i].order = asked[s[i]] /\ stops[i].leg = leg(i)
    OBVIOUS
  <1> HIDE DEF stops
  <1>13. ASSUME NEW o
         PROVE  Cardinality({i \in DOMAIN stops : stops[i].order = o})
                  = Cardinality({i \in DOMAIN asked : asked[i] = o})
    <2> DEFINE inTurn == [i \in 1 .. n |-> asked[s[i]]]
    <2>1. {i \in DOMAIN stops : stops[i].order = o} = VisitsOf(inTurn, o)
      BY <1>11, <1>12 DEF VisitsOf
    <2>2. {i \in DOMAIN asked : asked[i] = o} = VisitsOf(asked, o)
      BY DEF VisitsOf
    <2>3. Cardinality(VisitsOf(inTurn, o)) = Cardinality(VisitsOf(asked, o))
      BY <1>1, <1>7, OnceEach
    <2> QED BY <2>1, <2>2, <2>3
  <1> DEFINE places == [i \in DOMAIN stops |-> TaskOf[stops[i].order].place]
             total == SumOf([i \in DOMAIN stops |-> stops[i].leg])
  <1>14. places = visited
    <2>1. \A i \in 1 .. n : TaskOf[stops[i].order].place = points[s[i]]
      BY <1>3, <1>8, <1>12
    <2> QED BY <1>8, <1>11, <2>1 DEF visited
  <1>15. total = SumOf([i \in 1 .. n |-> leg(i)])
    <2>1. [i \in DOMAIN stops |-> stops[i].leg] = [i \in 1 .. n |-> leg(i)]
      <3> HIDE DEF leg
      <3> QED BY <1>11, <1>12
    <2> QED BY <2>1
  <1>16. total = Path(From(start, visited))
    <2>1. CASE start = NoStart
      <3>1. [i \in 1 .. n |-> leg(i)]
              = [i \in 1 .. n |-> IF i = 1 THEN 0 ELSE Distance(visited[i - 1], visited[i])]
        BY <2>1
      <3>2. From(start, visited) = visited
        BY <2>1 DEF From
      <3> HIDE DEF leg, total
      <3> QED BY <1>1, <1>10, <1>15, <3>1, <3>2, FreeStart
    <2>2. CASE start # NoStart
      <3>1. /\ <<start>> \in Seq(Int) /\ Len(<<start>>) = 1
            /\ visited \in Seq(Int) /\ Len(visited) = n
        BY <1>1, <1>4, <1>10, <2>2, Listed
      <3>2. before = <<start>> \o visited
        BY <2>2 DEF From
      <3> HIDE DEF before
      <3>3. /\ before \in Seq(Int) /\ Len(before) = 1 + n
            /\ \A i \in 1 .. 1 + n : before[i] = IF i <= 1 THEN <<start>>[i] ELSE visited[i - 1]
        BY <3>1, <3>2, ConcatProperties
      <3> DEFINE m == 1 + n
      <3>4. before \in [1 .. m -> Int] /\ m \in Nat \ {0} /\ m - 1 = n
        BY <1>1, <3>3, LenProperties
      <3> HIDE DEF m
      <3>5. \A i \in 1 .. n : leg(i) = Distance(before[i], before[i + 1])
        <4>1. \A i \in 1 .. n : before[i + 1] = visited[i]
          BY <1>1, <3>3
        <4> QED BY <2>2, <4>1 DEF before
      <3>6. [i \in 1 .. n |-> leg(i)] = [i \in 1 .. m - 1 |-> Distance(before[i], before[i + 1])]
        <4> HIDE DEF leg
        <4> QED BY <3>4, <3>5
      <3>7. Path(before) = SumOf([i \in 1 .. m - 1 |-> Distance(before[i], before[i + 1])])
        BY <3>4, PathLegs
      <3> HIDE DEF leg, total
      <3> QED BY <1>15, <3>6, <3>7 DEF before
    <2> QED BY <2>1, <2>2
  <1>17. ASSUME start = NoStart, NEW t \in Permuted(n)
         PROVE  total <= Path([i \in DOMAIN t |-> visited[t[i]]])
    <2> DEFINE st == [i \in 1 .. n |-> s[t[i]]]
    <2>1. /\ t \in [1 .. n -> 1 .. n] /\ DOMAIN t = 1 .. n
      BY <1>1, Permutes
    <2>2. st \in Permuted(n)
      BY <1>1, <1>7, Composed
    <2>3. Visited(points, st) = [i \in DOMAIN t |-> visited[t[i]]]
      BY <1>8, <2>1 DEF Visited, visited
    <2>4. Visited(points, s) = From(start, visited)
      BY <1>17 DEF Visited, visited, From
    <2> HIDE DEF st
    <2>5. Path(Visited(points, s)) <= Path(Visited(points, st))
      BY <1>1, <1>3, <1>6, <1>17, <2>2, AttemptShortest DEF attempts
    <2> HIDE DEF total
    <2> QED BY <1>16, <2>3, <2>4, <2>5
  <1>18. Len(places) = n
    BY <1>1, <1>10, <1>14, Listed
  <1> HIDE DEF places, total
  <1>19. total_distance' = total /\ From(start, places) = From(start, visited)
    <2>1. total_distance' = total
      BY <1>9 DEF total_distance, total
    <2> QED BY <1>14, <2>1
  <1>20. [i \in DOMAIN route'.stops |-> PlaceOf(route'.stops[i])] = places
    BY <1>9 DEF PlaceOf, places
  <1>21. \A o \in ToSet(route'.asked) :
           Cardinality({i \in DOMAIN route'.stops : route'.stops[i].order = o})
             = Cardinality({i \in DOMAIN route'.asked : route'.asked[i] = o})
    BY <1>9, <1>13
  <1>22. Len(route'.stops) = Len(route'.asked)
    BY <1>2, <1>9, <1>11
  <1>23. total_distance' = Path(From(route'.start, places))
    BY <1>9, <1>16, <1>19
  <1>24. route'.start = NoStart =>
           \A t \in Permuted(Len(places)) : total_distance' <= Path([i \in DOMAIN t |-> places[t[i]]])
    BY <1>9, <1>14, <1>17, <1>18, <1>19
  <1> HIDE DEF places
  <1> QED BY <1>20, <1>21, <1>22, <1>23, <1>24 DEF RouteIsShortest

\* Before the first request.
LEMMA RoutesStart == RoutesInit => RoutesInv
  BY DEF RoutesInit, CrewsInit, RoutesInv, FixesTyped, RouteIsShortest

\* One step of RoutesNext, an action at a time.
LEMMA RoutesStep == RoutesInv /\ [RoutesNext]_<<crvars, route>> => RoutesInv'
  <1> SUFFICES ASSUME RoutesInv, [RoutesNext]_<<crvars, route>> PROVE RoutesInv'
    OBVIOUS
  <1>1. ASSUME route' = route PROVE RouteIsShortest'
    BY <1>1 DEF RoutesInv, RouteIsShortest, total_distance, PlaceOf
  <1>2. ASSUME fixes' = fixes PROVE FixesTyped'
    BY <1>2 DEF RoutesInv, FixesTyped
  <1>3. ASSUME NEW n \in MIN_STOPS .. MAX_STOPS, NEW asked \in [1 .. n -> Tasks],
               NEW start \in StartPoints, SuggestRoute(asked, start)
        PROVE  RoutesInv'
    <2>1. fixes' = fixes
      BY <1>3 DEF SuggestRoute, crvars
    <2> QED BY <1>2, <1>3, <2>1, RouteFound DEF RoutesInv
  <1>4. ASSUME NEW p \in CrewPhones, ReportPlace(p), UNCHANGED route PROVE RoutesInv'
    <2>1. FixesTyped'
      <3>1. CASE \E place \in ReportedFrom :
                   fixes' = [fixes EXCEPT ![p] = [place |-> place, stale |-> FALSE]]
        BY <3>1 DEF RoutesInv, FixesTyped
      <3>2. CASE fixes[p] # NoPlace /\ fixes' = [fixes EXCEPT ![p].stale = TRUE]
        <4>1. fixes[p] \in [place: ReportedFrom, stale: BOOLEAN]
          BY <3>2 DEF RoutesInv, FixesTyped
        <4>2. [fixes[p] EXCEPT !.stale = TRUE] \in [place: ReportedFrom, stale: BOOLEAN]
          BY <4>1
        <4> QED BY <3>2, <4>2 DEF RoutesInv, FixesTyped
      <3> QED BY <1>4, <3>1, <3>2 DEF ReportPlace
    <2> QED BY <1>1, <1>4, <2>1 DEF RoutesInv
  <1>5. CASE Travelled
    <2>1. RouteIsShortest'
      BY <1>5 DEF Travelled, RouteIsShortest
    <2>2. fixes' = fixes
      BY <1>5 DEF Travelled, crvars
    <2> QED BY <1>2, <2>1, <2>2 DEF RoutesInv
  <1>6. CASE UNCHANGED <<crvars, route>>
    <2>1. fixes' = fixes /\ route' = route
      BY <1>6 DEF crvars
    <2> QED BY <1>1, <1>2, <2>1 DEF RoutesInv
  <1> QED BY <1>3, <1>4, <1>5, <1>6 DEF RoutesNext

\* A suggested route visits every order asked for and its length is that of its legs; with
\* both ends free no other order of the stops is shorter, however many they are
\* (suggest_route and _solve of routing/service.py).
THEOREM RouteAlwaysShortest == RoutesSpec => []RouteIsShortest
  <1>1. RoutesInv => RouteIsShortest
    BY DEF RoutesInv
  <1> QED BY <1>1, RoutesStart, RoutesStep, PTL DEF RoutesSpec

-----------------------------------------------------------------------------
(****************************************************************************)
(* CREWS: a suggestion forgets nobody, and the better is not below          *)
(****************************************************************************)

(* Points *)

LEMMA Times == \A a, b \in Int, c \in Nat : a <= b => a * c <= b * c
  OBVIOUS

LEMMA Cancelled == \A a, b \in Int, c \in Nat \ {0} : a * c < b * c => a < b
  <1> SUFFICES ASSUME NEW a \in Int, NEW b \in Int, NEW c \in Nat \ {0}, b <= a
               PROVE  b * c <= a * c
    OBVIOUS
  <1> QED BY Times

LEMMA Quotient ==
  ASSUME NEW n \in Nat, NEW d \in Nat \ {0}
  PROVE  /\ n \div d \in Nat /\ n % d \in Nat /\ n % d < d
         /\ n = (n \div d) * d + (n % d)
  OBVIOUS

\* A fraction that is no less is not rounded to less.
LEMMA RoundedOnward ==
  ASSUME NEW n \in Nat, NEW d \in Nat \ {0}, NEW m \in Nat, NEW e \in Nat \ {0}, m * d <= n * e
  PROVE  Rounded(n, d) \in Nat /\ Rounded(m, e) <= Rounded(n, d)
  <1> DEFINE q == n \div d
             r == n % d
             p == m \div e
             s == m % e
  <1>1. q \in Nat /\ r \in Nat /\ r < d /\ n = q * d + r
    BY Quotient
  <1>2. p \in Nat /\ s \in Nat /\ s < e /\ m = p * e + s
    BY Quotient
  <1>3. /\ Rounded(n, d) = IF 2 * r > d \/ (2 * r = d /\ q % 2 = 1) THEN q + 1 ELSE q
        /\ Rounded(m, e) = IF 2 * s > e \/ (2 * s = e /\ p % 2 = 1) THEN p + 1 ELSE p
    BY DEF Rounded
  <1> HIDE DEF q, r, p, s
  <1>4. d * e \in Nat \ {0}
    OBVIOUS
  <1>5. n * e = q * (d * e) + r * e /\ m * d = p * (d * e) + s * d
    BY <1>1, <1>2
  <1>6. 0 <= r * e /\ 0 <= s * d /\ r * e < d * e /\ s * d < d * e
    <2>1. \A x, y \in Nat, z \in Nat \ {0} : x < y => x * z < y * z
      OBVIOUS
    <2> QED BY <1>1, <1>2, <2>1
  <1>7. r * e \in Nat /\ s * d \in Nat /\ q * (d * e) \in Nat /\ p * (d * e) \in Nat
    BY <1>1, <1>2
  <1>8. p <= q
    <2>1. p * (d * e) < q * (d * e) + d * e
      BY <1>4, <1>5, <1>6, <1>7
    <2>2. q * (d * e) + d * e = (q + 1) * (d * e)
      BY <1>1, <1>4
    <2>3. p < q + 1
      BY <1>1, <1>2, <1>4, <2>1, <2>2, Cancelled
    <2> QED BY <1>1, <1>2, <2>3
  <1>9. CASE p < q
    BY <1>1, <1>2, <1>3, <1>9
  <1>10. CASE p = q
    <2>1. s * d <= r * e
      BY <1>5, <1>7, <1>10
    <2>2. ASSUME 2 * s >= e PROVE 2 * r >= d
      <3>1. e * d <= (2 * s) * d
        BY <1>2, <2>2, Times
      <3>2. (2 * s) * d = 2 * (s * d) /\ (2 * r) * e = 2 * (r * e)
        BY <1>1, <1>2
      <3>3. d * e <= (2 * r) * e
        BY <1>7, <2>1, <3>1, <3>2
      <3>4. ~((2 * r) * e < d * e)
        BY <1>1, <3>3
      <3> SUFFICES ASSUME 2 * r < d PROVE FALSE
        BY <1>1
      <3>5. (2 * r) * e < d * e
        <4>1. \A x, y \in Nat, z \in Nat \ {0} : x < y => x * z < y * z
          OBVIOUS
        <4>2. 2 * r \in Nat
          BY <1>1
        <4> QED BY <4>1, <4>2
      <3> QED BY <3>4, <3>5
    <2>3. ASSUME 2 * s > e PROVE 2 * r > d
      <3>1. e * d < (2 * s) * d
        <4>1. \A x, y \in Nat, z \in Nat \ {0} : x < y => x * z < y * z
          OBVIOUS
        <4>2. 2 * s \in Nat
          BY <1>2
        <4> QED BY <2>3, <4>1, <4>2
      <3>2. (2 * s) * d = 2 * (s * d) /\ (2 * r) * e = 2 * (r * e)
        BY <1>1, <1>2
      <3>3. d * e < (2 * r) * e
        BY <1>7, <2>1, <3>1, <3>2
      <3> QED BY <1>1, <3>3, Cancelled
    <2> QED BY <1>1, <1>2, <1>3, <1>10, <2>2, <2>3
  <1> QED BY <1>1, <1>2, <1>3, <1>8, <1>9, <1>10

-----------------------------------------------------------------------------
(* The ranking *)

\* One score for each crew.
OfCrews(scored) ==
  /\ scored \subseteq [crew: ToSet(CrewCodes), score: Nat]
  /\ \A a, b \in scored : a.crew = b.crew => a = b
  /\ IsFiniteSet(scored)

Standing(scored, a) == Cardinality({b \in scored : Outranks(b, a)})

\* Codes are in an order.
LEMMA CodesPlaced ==
  /\ \A c \in ToSet(CrewCodes) : CodePlace(c) \in Nat /\ CrewCodes[CodePlace(c)] = c
  /\ \A c, d \in ToSet(CrewCodes) : CodePlace(c) = CodePlace(d) => c = d
  <1> DEFINE n == Len(CrewCodes)
  <1>1. n \in Nat /\ DOMAIN CrewCodes = 1 .. n
    BY CrewsGiven, LenProperties
  <1>2. ASSUME NEW c \in ToSet(CrewCodes)
        PROVE  CodePlace(c) \in Nat /\ CrewCodes[CodePlace(c)] = c
    <2>1. PICK i \in DOMAIN CrewCodes : CrewCodes[i] = c
      BY DEF ToSet
    <2>2. CodePlace(c) \in DOMAIN CrewCodes /\ CrewCodes[CodePlace(c)] = c
      BY <2>1 DEF CodePlace
    <2> QED BY <1>1, <2>2
  <1> QED BY <1>2

LEMMA OutranksOrders ==
  ASSUME NEW scored, OfCrews(scored)
  PROVE  /\ \A a \in scored : ~Outranks(a, a)
         /\ \A a, b \in scored : a = b \/ Outranks(a, b) \/ Outranks(b, a)
         /\ \A a, b, c \in scored : Outranks(a, b) /\ Outranks(b, c) => Outranks(a, c)
         /\ \A a, b \in scored : Outranks(a, b) => a.score >= b.score
  <1>1. \A a \in scored : a.crew \in ToSet(CrewCodes) /\ a.score \in Nat /\ CodePlace(a.crew) \in Nat
    BY CodesPlaced DEF OfCrews
  <1>2. \A a, b \in scored : CodePlace(a.crew) = CodePlace(b.crew) => a = b
    BY <1>1, CodesPlaced DEF OfCrews
  <1>3. \A a \in scored : ~Outranks(a, a)
    BY <1>1 DEF Outranks
  <1>4. \A a, b \in scored : a = b \/ Outranks(a, b) \/ Outranks(b, a)
    BY <1>1, <1>2 DEF Outranks
  <1>5. ASSUME NEW a \in scored, NEW b \in scored, NEW c \in scored, Outranks(a, b), Outranks(b, c)
        PROVE  Outranks(a, c)
    BY <1>1, <1>5 DEF Outranks
  <1>6. \A a, b \in scored : Outranks(a, b) => a.score >= b.score
    BY <1>1 DEF Outranks
  <1> QED BY <1>3, <1>4, <1>5, <1>6

\* Whoever outranks another has fewer before it.
LEMMA RankFollows ==
  ASSUME NEW scored, OfCrews(scored)
  PROVE  /\ \A a \in scored : Standing(scored, a) \in 0 .. Cardinality(scored) - 1
         /\ \A a, b \in scored : Outranks(a, b) => Standing(scored, a) < Standing(scored, b)
  <1> DEFINE Over(a) == {b \in scored : Outranks(b, a)}
  <1>1. \A a \in scored : IsFiniteSet(Over(a)) /\ Cardinality(Over(a)) \in Nat
    BY FS_Subset, FS_CardinalityType DEF OfCrews
  <1>2. ASSUME NEW a \in scored PROVE Standing(scored, a) \in 0 .. Cardinality(scored) - 1
    <2>1. Over(a) \in SUBSET (scored \ {a})
      BY OutranksOrders
    <2>2. IsFiniteSet(scored \ {a}) /\ Cardinality(scored \ {a}) = Cardinality(scored) - 1
      BY FS_RemoveElement DEF OfCrews
    <2>3. Cardinality(Over(a)) <= Cardinality(scored \ {a})
      BY <2>1, <2>2, FS_Subset
    <2>4. Cardinality(scored) \in Nat
      BY FS_CardinalityType DEF OfCrews
    <2> QED BY <1>1, <2>2, <2>3, <2>4 DEF Standing
  <1>3. ASSUME NEW a \in scored, NEW b \in scored, Outranks(a, b)
        PROVE  Standing(scored, a) < Standing(scored, b)
    <2>1. a \in Over(b) /\ Over(a) \in SUBSET (Over(b) \ {a})
      BY <1>3, OutranksOrders
    <2>2. /\ IsFiniteSet(Over(b) \ {a})
          /\ Cardinality(Over(b) \ {a}) = Cardinality(Over(b)) - 1
      BY <1>1, <2>1, FS_RemoveElement
    <2>3. Cardinality(Over(a)) <= Cardinality(Over(b) \ {a})
      BY <2>1, <2>2, FS_Subset
    <2>4. Standing(scored, a) = Cardinality(Over(a)) /\ Standing(scored, b) = Cardinality(Over(b))
      BY DEF Standing
    <2>5. Cardinality(Over(a)) \in Nat /\ Cardinality(Over(b)) \in Nat
      BY <1>1
    <2> HIDE DEF Over
    <2> QED BY <2>2, <2>3, <2>4, <2>5
  <1> QED BY <1>2, <1>3

\* Every place of the ranking has its crew.
LEMMA EachPlaceTaken ==
  ASSUME NEW scored, OfCrews(scored), NEW i \in 1 .. Cardinality(scored)
  PROVE  Ranked(scored, i) \in scored /\ Standing(scored, Ranked(scored, i)) = i - 1
  <1> DEFINE n == Cardinality(scored)
             rank == [a \in scored |-> Standing(scored, a)]
  <1>1. n \in Nat /\ IsFiniteSet(0 .. n - 1) /\ Cardinality(0 .. n - 1) = n
    <2>1. n \in Nat
      BY FS_CardinalityType DEF OfCrews
    <2> HIDE DEF n
    <2>2. n - 1 \in Int /\ 0 \in Int
      BY <2>1
    <2>3. IsFiniteSet(0 .. n - 1) /\ Cardinality(0 .. n - 1) = IF 0 > n - 1 THEN 0 ELSE n - 1 - 0 + 1
      BY <2>2, FS_Interval
    <2> QED BY <2>1, <2>3
  <1>2. rank \in Injection(scored, 0 .. n - 1)
    <2>1. rank \in [scored -> 0 .. n - 1]
      BY RankFollows
    <2>2. ASSUME NEW a \in scored, NEW b \in scored, rank[a] = rank[b] PROVE a = b
      <3>1. Standing(scored, a) = Standing(scored, b) /\ Standing(scored, a) \in Int
        BY <2>2, RankFollows
      <3>2. ~(Standing(scored, a) < Standing(scored, b)) /\ ~(Standing(scored, b) < Standing(scored, a))
        BY <3>1
      <3> QED BY <3>2, RankFollows, OutranksOrders
    <2> QED BY <2>1, <2>2 DEF Injection, IsInjective
  <1>3. rank \in Surjection(scored, 0 .. n - 1)
    BY <1>1, <1>2, FS_Injection
  <1>4. \E a \in scored : rank[a] = i - 1
    <2> HIDE DEF rank
    <2>1. i - 1 \in 0 .. n - 1
      BY <1>1
    <2> HIDE DEF n
    <2> QED BY <1>3, <2>1 DEF Surjection
  <1>5. \E a \in scored : Standing(scored, a) = i - 1
    BY <1>4
  <1> QED BY <1>5 DEF Ranked, Standing

\* Who is not among the first is behind all of them, and they are as many as fit.
LEMMA BehindTheFirst ==
  ASSUME NEW scored, OfCrews(scored), NEW top \in Nat,
         NEW n, n = IF Cardinality(scored) < top THEN Cardinality(scored) ELSE top,
         NEW a \in scored, \A i \in 1 .. n : Ranked(scored, i) # a
  PROVE  n = top /\ \A i \in 1 .. n : Ranked(scored, i).score >= a.score
  <1>1. Cardinality(scored) \in Nat /\ n \in Nat /\ n <= Cardinality(scored)
    <2>1. Cardinality(scored) \in Nat
      BY FS_CardinalityType DEF OfCrews
    <2> QED BY <2>1
  <1> DEFINE place == Standing(scored, a) + 1
  <1>2. place \in 1 .. Cardinality(scored) /\ Standing(scored, a) = place - 1
    BY <1>1, RankFollows
  <1>3. ASSUME NEW i \in 1 .. n
        PROVE  /\ Ranked(scored, i) \in scored
               /\ Standing(scored, Ranked(scored, i)) = i - 1
               /\ Ranked(scored, i) # a
    <2>1. i \in 1 .. Cardinality(scored)
      BY <1>1
    <2> QED BY <2>1, EachPlaceTaken
  <1> HIDE DEF place
  <1>4. n < place
    <2> SUFFICES ASSUME place <= n PROVE FALSE
      BY <1>1, <1>2
    <2>1. place \in 1 .. n
      BY <1>1, <1>2
    <2> DEFINE b == Ranked(scored, place)
    <2>2. b \in scored /\ Standing(scored, b) = place - 1 /\ b # a
      BY <1>3, <2>1
    <2> HIDE DEF b
    <2>3. Outranks(a, b) \/ Outranks(b, a)
      BY <2>2, OutranksOrders
    <2>4. Standing(scored, a) < Standing(scored, b) \/ Standing(scored, b) < Standing(scored, a)
      BY <2>2, <2>3, RankFollows
    <2> QED BY <1>2, <2>2, <2>4
  <1>5. n = top
    BY <1>1, <1>2, <1>4
  <1>6. ASSUME NEW i \in 1 .. n PROVE Ranked(scored, i).score >= a.score
    <2> DEFINE b == Ranked(scored, i)
    <2>1. b \in scored /\ Standing(scored, b) = i - 1 /\ b # a
      BY <1>3
    <2> HIDE DEF b
    <2>2. ~(Standing(scored, a) < Standing(scored, b))
      BY <1>1, <1>2, <1>4, <2>1
    <2>3. Outranks(b, a)
      BY <2>1, <2>2, RankFollows, OutranksOrders
    <2> QED BY <2>1, <2>3, OutranksOrders DEF b
  <1> QED BY <1>5, <1>6

-----------------------------------------------------------------------------
(* What a crew carries *)

Distances == [n: Nat, d: Nat]

LEMMA HeldCounted ==
  \A carried, o, c : IsFiniteSet(Held(carried, o, c)) /\ Cardinality(Held(carried, o, c)) \in Nat
  <1> SUFFICES ASSUME NEW carried, NEW o, NEW c
               PROVE  IsFiniteSet(Held(carried, o, c)) /\ Cardinality(Held(carried, o, c)) \in Nat
    OBVIOUS
  <1>1. Held(carried, o, c) \in SUBSET Tasks
    BY DEF Held
  <1> QED BY <1>1, CrewsGiven, FS_Subset, FS_CardinalityType

LEMMA Enlisted ==
  ASSUME NEW S, IsFiniteSet(S)
  PROVE  SetToSeq(S) \in [1 .. Cardinality(S) -> S]
  <1>1. PICK f : f \in Bijection(1 .. Cardinality(S), S)
    BY FS_CardinalityType DEF ExistsBijection
  <1>2. f \in [1 .. Cardinality(S) -> S] /\ IsInjective(f)
    BY <1>1 DEF Bijection, Injection, IsInjective
  <1> QED BY <1>2 DEF SetToSeq

\* A fresh position is at a distance, and the nearest is one of them.
LEMMA GpsMeasured ==
  ASSUME FixesTyped, NEW c, NEW place \in Int, _gps_distances_km(c, place) # {}
  PROVE  LET gps == _gps_distances_km(c, place) IN
         (CHOOSE km \in gps : \A other \in gps : Nearer(km, other)) \in Distances
  <1> DEFINE gps == _gps_distances_km(c, place)
             numbers == {km.n : km \in gps}
  <1>1. \A km \in gps : km \in Distances /\ km.d = 1
    <2> SUFFICES ASSUME NEW p \in CrewPhones, fixes[p] # NoPlace
                 PROVE  Away(fixes[p].place, place) \in Distances /\ Away(fixes[p].place, place).d = 1
      BY DEF _gps_distances_km
    <2>1. fixes[p].place \in Int
      BY CrewsGiven DEF FixesTyped
    <2> QED BY <2>1 DEF Away, Km, Distances
  <1> HIDE DEF gps
  <1>2. numbers \in SUBSET Nat /\ numbers # {}
    BY <1>1 DEF Distances, gps
  <1>3. PICK n \in numbers : \A m \in numbers : n <= m
    BY <1>2, FirstOfMany
  <1>4. PICK km \in gps : km.n = n
    BY <1>3
  <1>5. \A other \in gps : Nearer(km, other)
    <2> SUFFICES ASSUME NEW other \in gps PROVE Nearer(km, other)
      OBVIOUS
    <2>1. km.n \in Nat /\ other.n \in Nat /\ km.d = 1 /\ other.d = 1
      BY <1>1, <1>4 DEF Distances
    <2>2. km.n <= other.n
      BY <1>3, <1>4
    <2> QED BY <2>1, <2>2 DEF Nearer
  <1> QED BY <1>1, <1>4, <1>5 DEF gps

LEMMA WorkMeasured ==
  ASSUME NEW located \in SUBSET Tasks, \A w \in located : TaskOf[w].place \in Int, NEW place \in Int
  PROVE  FromWork(located, place) \in Distances
  <1> DEFINE n == Cardinality(located)
             listed == SetToSeq(located)
             places == [i \in 1 .. n |-> TaskOf[listed[i]].place]
             off == SumOf(places) - n * place
  <1>1. IsFiniteSet(located) /\ n \in Nat
    BY CrewsGiven, FS_Subset, FS_CardinalityType
  <1>2. listed \in [1 .. n -> located]
    BY <1>1, Enlisted
  <1> HIDE DEF n, listed
  <1>3. places \in [1 .. n -> Int]
    BY <1>2
  <1>4. SumOf(places) \in Int
    <2> HIDE DEF places
    <2>1. PICK sum : Running(sum, places, n) /\ SumOf(places) = sum[n]
      BY <1>1, <1>3, SumRuns
    <2> QED BY <1>1, <2>1 DEF Running
  <1> HIDE DEF places
  <1>5. off \in Int
    BY <1>1, <1>4
  <1>6. FromWork(located, place) = IF n = 0 THEN Unmeasured ELSE Km(IF off < 0 THEN -off ELSE off, n)
    BY DEF FromWork, n, listed, places
  <1> HIDE DEF off
  <1>7. (IF off < 0 THEN -off ELSE off) \in Nat
    BY <1>5
  <1> QED BY <1>1, <1>6, <1>7 DEF Unmeasured, Km, Distances

LEMMA WorkloadMeasured ==
  ASSUME FixesTyped, NEW carried, NEW o \in Tasks, NEW c
  PROVE  /\ Workload(carried, o, c).distance_km \in Distances
         /\ Workload(carried, o, c).open_orders = Cardinality(Held(carried, o, c))
         /\ Workload(carried, o, c).open_orders \in Nat
         /\ Workload(carried, o, c).due_soon \in Nat
         /\ Workload(carried, o, c).due_soon = 0
              <=> {w \in Held(carried, o, c) : TaskOf[w].due \in {"overdue", "soon"}} = {}
  <1> DEFINE held == Held(carried, o, c)
             place == TaskOf[o].place
             gps == _gps_distances_km(c, place)
             soon == {w \in held : TaskOf[w].due \in {"overdue", "soon"}}
             near == CHOOSE km \in gps : \A other \in gps : Nearer(km, other)
             far == FromWork({w \in held : TaskOf[w].place # NoPlace}, place)
             distance == IF place = NoPlace THEN Unmeasured ELSE IF gps # {} THEN near ELSE far
  <1>1. Workload(carried, o, c) = [open_orders |-> Cardinality(held), due_soon |-> Cardinality(soon),
                                distance_km |-> distance]
    BY DEF Workload
  <1>2. /\ IsFiniteSet(held) /\ Cardinality(held) \in Nat
        /\ IsFiniteSet(soon) /\ Cardinality(soon) \in Nat
        /\ Cardinality(soon) = 0 <=> soon = {}
    <2>1. IsFiniteSet(held) /\ Cardinality(held) \in Nat /\ soon \in SUBSET held
      BY HeldCounted
    <2> QED BY <2>1, FS_Subset, FS_CardinalityType, FS_EmptySet
  <1>3. distance \in Distances
    <2>1. CASE place = NoPlace
      BY <2>1 DEF Unmeasured, Km, Distances
    <2>2. CASE place # NoPlace /\ gps # {}
      <3>1. place \in Int
        BY <2>2, CrewsGiven
      <3> QED BY <2>2, <3>1, GpsMeasured
    <2>3. CASE place # NoPlace /\ gps = {}
      <3> DEFINE located == {w \in held : TaskOf[w].place # NoPlace}
      <3>1. place \in Int
        BY <2>3, CrewsGiven
      <3>2. located \in SUBSET Tasks /\ \A w \in located : TaskOf[w].place \in Int
        BY CrewsGiven DEF Held
      <3> HIDE DEF located, place, held
      <3>3. FromWork(located, place) \in Distances
        BY <3>1, <3>2, WorkMeasured
      <3> QED BY <2>3, <3>3 DEF located
    <2> QED BY <2>1, <2>2, <2>3
  <1> HIDE DEF distance
  <1> QED BY <1>1, <1>2, <1>3

-----------------------------------------------------------------------------
(* Who is better in everything has no fewer points *)

LEMMA DistanceScores ==
  /\ \A km \in Distances : _score_distance(km) \in Nat
  /\ \A a, b \in Distances : Known(a) /\ Known(b) /\ Nearer(a, b)
                                => _score_distance(b) <= _score_distance(a)
  <1> DEFINE Close(km) == Known(km) /\ km.n < 20 * km.d
             Rest(km) == 30 * (20 * km.d - km.n)
  <1>1. ASSUME NEW km \in Distances
        PROVE  /\ km.n \in Nat /\ km.d \in Nat
               /\ ~Close(km) => _score_distance(km) = 0
               /\ Close(km) => /\ km.d \in Nat \ {0} /\ 20 * km.d \in Nat \ {0} /\ Rest(km) \in Nat
                               /\ _score_distance(km) = Rounded(Rest(km), 20 * km.d)
    <2>1. km.n \in Nat /\ km.d \in Nat
      BY DEF Distances
    <2> QED BY <2>1 DEF _score_distance, Known, DISTANCE_CEILING_KM
  <1>2. \A km \in Distances : _score_distance(km) \in Nat
    <2> SUFFICES ASSUME NEW km \in Distances PROVE _score_distance(km) \in Nat
      OBVIOUS
    <2>1. CASE Close(km)
      <3> DEFINE m == Rest(km)
                 e == 20 * km.d
      <3>1. m \in Nat /\ e \in Nat \ {0} /\ _score_distance(km) = Rounded(m, e)
        BY <1>1, <2>1
      <3> HIDE DEF m, e
      <3>2. m * e <= m * e
        BY <3>1
      <3> QED BY <3>1, <3>2, RoundedOnward
    <2> QED BY <1>1, <2>1
  <1>3. ASSUME NEW a \in Distances, NEW b \in Distances, Known(a), Known(b), Nearer(a, b)
        PROVE  _score_distance(b) <= _score_distance(a)
    <2>1. CASE ~Close(b)
      BY <1>1, <1>2, <2>1
    <2>2. CASE Close(b)
      <3> DEFINE n == a.n
                 d == a.d
                 m == b.n
                 e == b.d
      <3>1. n \in Nat /\ d \in Nat \ {0} /\ m \in Nat /\ e \in Nat \ {0} /\ n * e <= m * d /\ m < 20 * e
        BY <1>1, <1>3, <2>2 DEF Nearer, Known
      <3> HIDE DEF n, d, m, e
      <3>2. m * d < (20 * e) * d
        <4>1. \A x, y \in Nat, z \in Nat \ {0} : x < y => x * z < y * z
          OBVIOUS
        <4>2. 20 * e \in Nat
          BY <3>1
        <4> QED BY <3>1, <4>1, <4>2
      <3>3. (20 * e) * d = (20 * d) * e /\ n * e \in Nat /\ m * d \in Nat /\ (20 * e) * d \in Nat
        BY <3>1
      <3>4. n * e < (20 * d) * e
        BY <3>1, <3>2, <3>3
      <3>5. n < 20 * d
        BY <3>1, <3>4, Cancelled
      <3>6. Close(a)
        BY <1>3, <3>5 DEF n, d
      <3> DEFINE N == 30 * (20 * d - n)
                 D == 20 * d
                 M == 30 * (20 * e - m)
                 E == 20 * e
      <3>7. /\ N \in Nat /\ D \in Nat \ {0} /\ M \in Nat /\ E \in Nat \ {0}
        BY <3>1, <3>5
      <3>8. M * D <= N * E
        <4>1. M * D = 600 * (20 * (d * e)) - 600 * (m * d)
          BY <3>1
        <4>2. N * E = 600 * (20 * (d * e)) - 600 * (n * e)
          BY <3>1
        <4>3. d * e \in Nat
          BY <3>1
        <4> QED BY <3>1, <3>3, <4>1, <4>2, <4>3
      <3>9. _score_distance(a) = Rounded(N, D) /\ _score_distance(b) = Rounded(M, E)
        BY <1>1, <2>2, <3>6 DEF n, d, m, e
      <3> HIDE DEF N, D, M, E
      <3> QED BY <3>7, <3>8, <3>9, RoundedOnward
    <2> QED BY <2>1, <2>2
  <1> QED BY <1>2, <1>3

LEMMA LoadScores ==
  /\ \A n \in Nat : _score_load(n) \in Nat
  /\ \A m, n \in Nat : m <= n => _score_load(n) <= _score_load(m)
  <1>1. \A n \in Nat : n < 8 => 20 * (8 - n) \in Nat /\ _score_load(n) = Rounded(20 * (8 - n), 8)
    BY DEF _score_load, LOAD_CEILING
  <1>2. \A n \in Nat : n >= 8 => _score_load(n) = 0
    BY DEF _score_load, LOAD_CEILING
  <1>3. \A k, l \in Nat : l <= k => Rounded(k, 8) \in Nat /\ Rounded(l, 8) <= Rounded(k, 8)
    <2> SUFFICES ASSUME NEW k \in Nat, NEW l \in Nat, l <= k
                 PROVE  Rounded(k, 8) \in Nat /\ Rounded(l, 8) <= Rounded(k, 8)
      OBVIOUS
    <2>1. l * 8 <= k * 8 /\ 8 \in Nat \ {0}
      OBVIOUS
    <2> QED BY <2>1, RoundedOnward
  <1>4. ASSUME NEW n \in Nat PROVE _score_load(n) \in Nat
    BY <1>1, <1>2, <1>3
  <1>5. ASSUME NEW m \in Nat, NEW n \in Nat, m <= n PROVE _score_load(n) <= _score_load(m)
    <2>1. CASE n >= 8
      BY <1>2, <1>4, <2>1
    <2>2. CASE n < 8
      <3>1. m < 8 /\ 20 * (8 - n) <= 20 * (8 - m)
        BY <1>5, <2>2
      <3> QED BY <1>1, <1>3, <2>2, <3>1
    <2> QED BY <2>1, <2>2
  <1> QED BY <1>4, <1>5

LEMMA CrewScores ==
  ASSUME FixesTyped, NEW carried, NEW o \in Tasks, NEW c
  PROVE  Score(carried, o, c) \in Nat
  <1> DEFINE load == Workload(carried, o, c)
  <1>1. load.distance_km \in Distances /\ load.open_orders \in Nat
    BY WorkloadMeasured
  <1> HIDE DEF load
  <1>2. /\ _score_distance(load.distance_km) \in Nat /\ _score_load(load.open_orders) \in Nat
        /\ _score_zone(roster[c].zone, ZonesOf(o)) \in Nat /\ _score_sla(load.due_soon) \in Nat
    BY <1>1, DistanceScores, LoadScores DEF _score_zone, _score_sla
  <1> QED BY <1>2 DEF Score, load

LEMMA BetterScores ==
  ASSUME FixesTyped, NEW o \in Tasks, NEW c, NEW d, AtLeastAsGood(o, c, d)
  PROVE  Score(tasks, o, c) >= Score(tasks, o, d)
  <1> DEFINE mine == Workload(tasks, o, c)
             other == Workload(tasks, o, d)
             zone(k) == _score_zone(roster[k].zone, ZonesOf(o))
  <1>1. /\ mine.distance_km \in Distances /\ other.distance_km \in Distances
        /\ mine.open_orders \in Nat /\ other.open_orders \in Nat
    BY WorkloadMeasured
  <1>2. _score_distance(other.distance_km) <= _score_distance(mine.distance_km)
    BY <1>1, DistanceScores DEF AtLeastAsGood
  <1>3. _score_load(other.open_orders) <= _score_load(mine.open_orders)
    BY <1>1, LoadScores DEF AtLeastAsGood
  <1>4. zone(d) <= zone(c) /\ zone(c) \in Nat /\ zone(d) \in Nat
    BY DEF AtLeastAsGood, _score_zone
  <1>5. /\ _score_sla(other.due_soon) <= _score_sla(mine.due_soon)
        /\ _score_sla(mine.due_soon) \in Nat /\ _score_sla(other.due_soon) \in Nat
    <2>1. mine.due_soon = 0 \/ other.due_soon # 0
      <3> DEFINE urgent(k) == {w \in Tasks \ {o} : tasks[w].crew = k /\ tasks[w].state \in OPEN_STATES
                                                   /\ TaskOf[w].due \in {"overdue", "soon"}}
                 soon(k) == {w \in Held(tasks, o, k) : TaskOf[w].due \in {"overdue", "soon"}}
      <3>1. urgent(c) = {} \/ urgent(d) # {}
        BY DEF AtLeastAsGood
      <3>2. \A k : urgent(k) = soon(k)
        BY DEF Held
      <3>3. (mine.due_soon = 0 <=> soon(c) = {}) /\ (other.due_soon = 0 <=> soon(d) = {})
        BY WorkloadMeasured
      <3> HIDE DEF urgent, soon, mine, other
      <3> QED BY <3>1, <3>2, <3>3
    <2> QED BY <2>1 DEF _score_sla
  <1>6. /\ _score_distance(mine.distance_km) \in Nat /\ _score_distance(other.distance_km) \in Nat
        /\ _score_load(mine.open_orders) \in Nat /\ _score_load(other.open_orders) \in Nat
    BY <1>1, DistanceScores, LoadScores
  <1>7. /\ Score(tasks, o, c) = zone(c) + _score_distance(mine.distance_km)
                                  + _score_load(mine.open_orders) + _score_sla(mine.due_soon)
        /\ Score(tasks, o, d) = zone(d) + _score_distance(other.distance_km)
                                  + _score_load(other.open_orders) + _score_sla(other.due_soon)
    BY DEF Score
  <1> HIDE DEF zone, mine, other
  <1> QED BY <1>2, <1>3, <1>4, <1>5, <1>6, <1>7

-----------------------------------------------------------------------------
(* The suggestion *)

CrewsInv ==
  /\ tasks \in [Tasks -> [state: {"planned", "assigned", "in_execution", "closed_field"},
                          crew: {NoOne} \cup ToSet(CrewCodes)]]
  /\ FixesTyped

\* Whom the order is with makes no difference to who is suggested for it.
LEMMA InOtherHands ==
  ASSUME DOMAIN tasks = Tasks, NEW o \in Tasks, NEW who, NEW task
  PROVE  suggest_crews([tasks EXCEPT ![o] = task], o, who) = suggest_crews(tasks, o, who)
  <1> DEFINE carried == [tasks EXCEPT ![o] = task]
  <1>1. \A w \in Tasks \ {o} : carried[w] = tasks[w]
    OBVIOUS
  <1> HIDE DEF carried
  <1>2. \A c : Held(carried, o, c) = Held(tasks, o, c)
    BY <1>1 DEF Held
  <1>3. ASSUME NEW c PROVE Workload(carried, o, c) = Workload(tasks, o, c)
    <2>1. Held(carried, o, c) = Held(tasks, o, c)
      BY <1>2
    <2> DEFINE place == TaskOf[o].place
               gps == _gps_distances_km(c, place)
               near == CHOOSE km \in gps : \A other \in gps : Nearer(km, other)
               soon(held) == {w \in held : TaskOf[w].due \in {"overdue", "soon"}}
               located(held) == {w \in held : TaskOf[w].place # NoPlace}
               load(held, due, on) ==
                 [open_orders |-> Cardinality(held), due_soon |-> Cardinality(due),
                  distance_km |-> IF place = NoPlace THEN Unmeasured
                                  ELSE IF gps # {} THEN near ELSE FromWork(on, place)]
               mine == Held(carried, o, c)
               other == Held(tasks, o, c)
    <2>2. /\ Workload(carried, o, c) = load(mine, soon(mine), located(mine))
          /\ Workload(tasks, o, c) = load(other, soon(other), located(other))
      BY DEF Workload
    <2>3. soon(mine) = soon(other) /\ located(mine) = located(other)
      BY <2>1
    <2> HIDE DEF near, gps, place, soon, located, mine, other
    <2>4. mine = other
      BY <2>1 DEF mine, other
    <2> QED BY <2>2, <2>3, <2>4
  <1>4. \A c : Score(carried, o, c) = Score(tasks, o, c)
    BY <1>3 DEF Score
  <1> DEFINE crews == Sendable(who)
             fit == {c \in crews : Lacks(o, c) = {}}
             scored(w) == {[crew |-> c, score |-> Score(w, o, c)] : c \in fit}
  <1> HIDE DEF crews
  <1>5. scored(carried) = scored(tasks)
    BY <1>4
  <1> HIDE DEF scored
  <1> QED BY <1>5 DEF suggest_crews, scored, crews, carried

\* The board counts the order itself, where it is.
LEMMA BoardCounts ==
  ASSUME NEW o \in Tasks, NEW c
  PROVE  Cardinality(Held(tasks, o, c))
           = crew_workload(c) - (IF tasks[o].crew = c /\ tasks[o].state \in OPEN_STATES THEN 1 ELSE 0)
  <1> DEFINE board == {w \in Tasks : tasks[w].crew = c /\ tasks[w].state \in OPEN_STATES}
  <1>1. IsFiniteSet(board) /\ Cardinality(board) \in Nat
    BY CrewsGiven, FS_Subset, FS_CardinalityType
  <1>2. Held(tasks, o, c) = board \ {o}
    BY DEF Held
  <1>3. o \in board <=> tasks[o].crew = c /\ tasks[o].state \in OPEN_STATES
    OBVIOUS
  <1>4. crew_workload(c) = Cardinality(board)
    BY DEF crew_workload
  <1> HIDE DEF board
  <1>5. Cardinality(board \ {o}) = IF o \in board THEN Cardinality(board) - 1 ELSE Cardinality(board)
    BY <1>1, FS_RemoveElement
  <1> QED BY <1>1, <1>2, <1>3, <1>4, <1>5

\* Who is on a list opens by its identifier.
LEMMA ListedOpens ==
  \A who, c : crew_scope(who, c) => may_see_crew(who, c)
  BY DEF crew_scope, may_see_crew, may_see

LEMMA SuggestionFair ==
  ASSUME CrewsInv, NEW o \in Tasks, NEW who
  PROVE  LET given == suggest_crews(tasks, o, who)
             found == given.candidates
             fit == {c \in ToSet(CrewCodes) : OnRoster(c) /\ roster[c].active /\ crew_scope(who, c)}
                      \ given.excluded
         IN /\ \A i \in DOMAIN found : found[i].crew \in fit /\ may_see_crew(who, found[i].crew)
            /\ \A c \in given.excluded : Lacks(o, c) # {}
            /\ \A c \in fit :
                 /\ Lacks(o, c) = {}
                 /\ Among(c, found) \/ (Len(found) = TOP_N /\
                      \A i \in DOMAIN found : found[i].score >= Score(tasks, o, c))
                 /\ \A i \in DOMAIN found :
                      AtLeastAsGood(o, c, found[i].crew) => Score(tasks, o, c) >= found[i].score
  <1> DEFINE crews == Sendable(who)
             able == {c \in crews : Lacks(o, c) = {}}
             MarkOf(c) == [crew |-> c, score |-> Score(tasks, o, c)]
             scored == {MarkOf(c) : c \in able}
             shown == IF Cardinality(able) < TOP_N THEN Cardinality(able) ELSE TOP_N
             found == [i \in 1 .. shown |-> Ranked(scored, i)]
             given == suggest_crews(tasks, o, who)
  <1>1. given.candidates = found /\ given.excluded = crews \ able
    BY DEF suggest_crews
  <1>2. /\ crews = {c \in ToSet(CrewCodes) : OnRoster(c) /\ roster[c].active /\ crew_scope(who, c)}
        /\ crews \ (crews \ able) = able
    BY DEF Sendable
  <1>3. \A c \in able : Lacks(o, c) = {} /\ crew_scope(who, c) /\ c \in ToSet(CrewCodes)
    BY <1>2
  <1>4. \A c \in crews \ able : Lacks(o, c) # {}
    OBVIOUS
  <1> HIDE DEF given, crews, able
  <1>5. IsFiniteSet(able)
    <2> DEFINE n == Len(CrewCodes)
    <2>1. n \in Nat /\ CrewCodes \in [1 .. n -> ToSet(CrewCodes)]
      BY CrewsGiven, LenProperties
    <2>2. CrewCodes \in Surjection(1 .. n, ToSet(CrewCodes))
      BY <2>1 DEF Surjection, ToSet
    <2>3. IsFiniteSet(ToSet(CrewCodes))
      <3>1. IsFiniteSet(1 .. n)
        BY <2>1, FS_Interval
      <3> QED BY <2>2, <3>1, FS_Surjection
    <2> QED BY <1>3, <2>3, FS_Subset
  <1>6. \A c \in able : Score(tasks, o, c) \in Nat
    BY CrewScores DEF CrewsInv
  <1>7. OfCrews(scored) /\ Cardinality(scored) = Cardinality(able)
    <2> DEFINE f == [c \in able |-> MarkOf(c)]
    <2>1. f \in Bijection(able, scored)
      <3>1. f \in [able -> scored] /\ \A a \in scored : \E c \in able : f[c] = a
        OBVIOUS
      <3>2. \A c, d \in able : f[c] = f[d] => c = d
        <4>1. \A c \in able : f[c].crew = c
          OBVIOUS
        <4> HIDE DEF f
        <4> QED BY <4>1
      <3> HIDE DEF f, scored
      <3> QED BY <3>1, <3>2 DEF Bijection, Injection, Surjection, IsInjective
    <2>2. IsFiniteSet(scored) /\ Cardinality(scored) = Cardinality(able)
      <3> HIDE DEF f, scored
      <3> QED BY <1>5, <2>1, FS_Bijection DEF ExistsBijection
    <2>3. /\ scored \subseteq [crew: ToSet(CrewCodes), score: Nat]
          /\ \A a, b \in scored : a.crew = b.crew => a = b
      BY <1>3, <1>6
    <2> HIDE DEF scored
    <2> QED BY <2>2, <2>3 DEF OfCrews
  <1>8. shown \in Nat /\ shown <= Cardinality(scored)
    <2>1. Cardinality(able) \in Nat
      BY <1>5, FS_CardinalityType
    <2> HIDE DEF scored
    <2> QED BY <1>7, <2>1, CrewsGiven
  <1>9. DOMAIN found = 1 .. shown /\ Len(found) = shown
    <2> HIDE DEF shown, scored
    <2> QED BY <1>8
  <1>10. ASSUME NEW i \in 1 .. shown
         PROVE  found[i] = Ranked(scored, i) /\ found[i].crew \in able
                /\ found[i].score = Score(tasks, o, found[i].crew)
    <2> HIDE DEF shown
    <2>1. i \in 1 .. Cardinality(scored)
      <3> HIDE DEF scored
      <3>1. Cardinality(scored) \in Nat
        BY <1>7, FS_CardinalityType DEF OfCrews
      <3> QED BY <1>8, <3>1
    <2>2. Ranked(scored, i) \in scored
      <3> HIDE DEF scored
      <3> QED BY <1>7, <2>1, EachPlaceTaken
    <2>3. found[i] = Ranked(scored, i)
      OBVIOUS
    <2> HIDE DEF found
    <2>4. \A a \in scored : a.crew \in able /\ a.score = Score(tasks, o, a.crew)
      OBVIOUS
    <2> HIDE DEF scored
    <2> QED BY <2>2, <2>3, <2>4
  <1>11. ASSUME NEW c \in able, ~Among(c, found)
         PROVE  Len(found) = TOP_N /\ \A i \in DOMAIN found : found[i].score >= Score(tasks, o, c)
    <2> DEFINE a == MarkOf(c)
    <2>1. a \in scored /\ a.crew = c /\ a.score = Score(tasks, o, c)
      OBVIOUS
    <2> HIDE DEF a, scored, found, shown
    <2>2. \A i \in 1 .. shown : Ranked(scored, i) # a
      BY <1>9, <1>10, <1>11, <2>1 DEF Among
    <2>3. shown = IF Cardinality(scored) < TOP_N THEN Cardinality(scored) ELSE TOP_N
      BY <1>7 DEF shown
    <2>4. shown = TOP_N /\ \A i \in 1 .. shown : Ranked(scored, i).score >= a.score
      BY <1>7, <2>1, <2>2, <2>3, BehindTheFirst, CrewsGiven
    <2> QED BY <1>9, <1>10, <2>1, <2>4
  <1> HIDE DEF found, scored, shown, MarkOf
  <1>12. \A i \in DOMAIN found : found[i].crew \in able /\ may_see_crew(who, found[i].crew)
    BY <1>3, <1>9, <1>10, ListedOpens
  <1>13. ASSUME NEW c \in able, NEW i \in DOMAIN found, AtLeastAsGood(o, c, found[i].crew)
         PROVE  Score(tasks, o, c) >= found[i].score
    <2>1. Score(tasks, o, c) >= Score(tasks, o, found[i].crew)
      BY <1>13, BetterScores DEF CrewsInv
    <2> QED BY <1>9, <1>10, <2>1
  <1>14. {c \in ToSet(CrewCodes) : OnRoster(c) /\ roster[c].active /\ crew_scope(who, c)}
           \ given.excluded = able
    BY <1>1, <1>2
  <1> QED BY <1>1, <1>3, <1>4, <1>11, <1>12, <1>13, <1>14 DEF given

\* What an answer has to be.
Fair(o, who, given) ==
  LET found == given.candidates
      fit == {c \in ToSet(CrewCodes) : OnRoster(c) /\ roster[c].active /\ crew_scope(who, c)}
               \ given.excluded
  IN /\ \A i \in DOMAIN found : found[i].crew \in fit /\ may_see_crew(who, found[i].crew)
     /\ \A c \in given.excluded : Lacks(o, c) # {}
     /\ \A c \in fit :
          /\ Lacks(o, c) = {}
          /\ Among(c, found) \/ (Len(found) = TOP_N /\
               \A i \in DOMAIN found : found[i].score >= Score(tasks, o, c))
          /\ \A i \in DOMAIN found :
               AtLeastAsGood(o, c, found[i].crew) => Score(tasks, o, c) >= found[i].score
          /\ Workload(tasks, o, c).open_orders
               = crew_workload(c) - (IF tasks[o].crew = c /\ tasks[o].state \in OPEN_STATES
                                     THEN 1 ELSE 0)
     /\ \A c \in ToSet(CrewCodes) :
          suggest_crews([tasks EXCEPT ![o] = [state |-> "assigned", crew |-> c]], o, who) = given

LEMMA AnswerFair ==
  ASSUME CrewsInv, CrewsNext, answer' # answer, answer' # Unasked
  PROVE  Fair(answer'.of, answer'.who, answer'.given)
  <1>1. PICK o \in Tasks, who \in Planners : Suggest(o, who)
    <2>1. ASSUME NEW a \in Administrators, NEW c \in ToSet(CrewCodes), NEW row \in Rows,
                 SaveBegin(a, c, row)
          PROVE  answer' = answer
      BY <2>1 DEF SaveBegin
    <2>2. ASSUME NEW a \in Administrators, SaveCommit(a) PROVE answer' = answer
      BY <2>2 DEF SaveCommit
    <2>3. ASSUME NEW c, NEW active, SetCrewActive(c, active) PROVE answer' = answer
      BY <2>3 DEF SetCrewActive
    <2>4. ASSUME NEW chosen, NEW c, NEW who, AssignSelection(chosen, c, who) PROVE answer' = answer
      BY <2>4 DEF AssignSelection
    <2>5. ASSUME NEW p, ReportPlace(p) PROVE answer' = answer
      BY <2>5 DEF ReportPlace
    <2>6. ASSUME NEW o, TaskMoves(o) PROVE answer' = answer
      BY <2>6 DEF TaskMoves
    <2>7. Happens
      BY DEF CrewsNext, Looked
    <2> QED BY <2>1, <2>2, <2>3, <2>4, <2>5, <2>6, <2>7 DEF Happens
  <1> DEFINE given == suggest_crews(tasks, o, who)
  <1>2. answer'.of = o /\ answer'.who = who /\ answer'.given = given
    <2> HIDE DEF given
    <2>1. answer' = [of |-> o, who |-> who, given |-> given]
      BY <1>1 DEF Suggest, given
    <2> QED BY <2>1
  <1>3. DOMAIN tasks = Tasks
    BY DEF CrewsInv
  <1>4. \A c \in ToSet(CrewCodes) :
          suggest_crews([tasks EXCEPT ![o] = [state |-> "assigned", crew |-> c]], o, who) = given
    BY <1>3, InOtherHands
  <1>5. \A c : Workload(tasks, o, c).open_orders
                 = crew_workload(c) - (IF tasks[o].crew = c /\ tasks[o].state \in OPEN_STATES
                                       THEN 1 ELSE 0)
    BY BoardCounts, WorkloadMeasured DEF CrewsInv
  <1>6. LET found == given.candidates
            fit == {c \in ToSet(CrewCodes) : OnRoster(c) /\ roster[c].active /\ crew_scope(who, c)}
                     \ given.excluded
        IN /\ \A i \in DOMAIN found : found[i].crew \in fit /\ may_see_crew(who, found[i].crew)
           /\ \A c \in given.excluded : Lacks(o, c) # {}
           /\ \A c \in fit :
                /\ Lacks(o, c) = {}
                /\ Among(c, found) \/ (Len(found) = TOP_N /\
                     \A i \in DOMAIN found : found[i].score >= Score(tasks, o, c))
                /\ \A i \in DOMAIN found :
                     AtLeastAsGood(o, c, found[i].crew) => Score(tasks, o, c) >= found[i].score
    BY SuggestionFair
  <1> HIDE DEF given
  <1>7. Fair(o, who, given)
    BY <1>4, <1>5, <1>6 DEF Fair
  <1> QED BY <1>2, <1>7

LEMMA CrewsStart == CrewsInit => CrewsInv
  <1> SUFFICES ASSUME CrewsInit PROVE CrewsInv
    OBVIOUS
  <1>1. FixesTyped
    BY DEF CrewsInit, FixesTyped
  <1>2. PICK planned \in SUBSET Tasks :
          tasks = [o \in Tasks |-> [state |-> IF o \in planned THEN "planned" ELSE "closed_field",
                                    crew |-> NoOne]]
    BY DEF CrewsInit
  <1> QED BY <1>1, <1>2 DEF CrewsInv

LEMMA CrewsStep == CrewsInv /\ [CrewsNext]_crvars => CrewsInv'
  <1> SUFFICES ASSUME CrewsInv, [CrewsNext]_crvars PROVE CrewsInv'
    OBVIOUS
  <1> USE DEF CrewsInv
  <1>1. ASSUME tasks' = tasks, fixes' = fixes PROVE CrewsInv'
    BY <1>1 DEF FixesTyped
  <1>2. ASSUME NEW p \in CrewPhones, ReportPlace(p) PROVE CrewsInv'
    <2>1. FixesTyped'
      <3>1. CASE \E place \in ReportedFrom :
                   fixes' = [fixes EXCEPT ![p] = [place |-> place, stale |-> FALSE]]
        BY <3>1 DEF FixesTyped
      <3>2. CASE fixes[p] # NoPlace /\ fixes' = [fixes EXCEPT ![p].stale = TRUE]
        <4>1. fixes[p] \in [place: ReportedFrom, stale: BOOLEAN]
          BY <3>2 DEF FixesTyped
        <4>2. [fixes[p] EXCEPT !.stale = TRUE] \in [place: ReportedFrom, stale: BOOLEAN]
          BY <4>1
        <4> QED BY <3>2, <4>2 DEF FixesTyped
      <3> QED BY <1>2, <3>1, <3>2 DEF ReportPlace
    <2> QED BY <1>2, <2>1 DEF ReportPlace
  <1>3. ASSUME NEW o \in Tasks, TaskMoves(o) PROVE CrewsInv'
    <2>1. tasks' \in [Tasks -> [state: {"planned", "assigned", "in_execution", "closed_field"},
                                crew: {NoOne} \cup ToSet(CrewCodes)]]
      BY <1>3 DEF TaskMoves
    <2> QED BY <1>3, <2>1 DEF TaskMoves, FixesTyped
  <1>4. ASSUME NEW chosen, NEW c \in ToSet(CrewCodes), NEW who, AssignSelection(chosen, c, who)
        PROVE  CrewsInv'
    <2>1. tasks' \in [Tasks -> [state: {"planned", "assigned", "in_execution", "closed_field"},
                                crew: {NoOne} \cup ToSet(CrewCodes)]]
      BY <1>4 DEF AssignSelection
    <2> QED BY <1>4, <2>1 DEF AssignSelection, FixesTyped
  <1>5. CASE UNCHANGED crvars
    BY <1>1, <1>5 DEF crvars
  <1>6. CASE CrewsNext
    BY <1>1, <1>2, <1>3, <1>4, <1>6
       DEF CrewsNext, Happens, Looked, SaveBegin, SaveCommit, SetCrewActive, Suggest
  <1> QED BY <1>5, <1>6

\* Whatever the roster, the work, the positions and the planners: a suggestion forgets no crew
\* and lets nothing outvote a lack, nobody with every advantage is left below, each candidate
\* opens, and the order's present hands make no difference (suggest_crews, _workloads, scope.py).
THEOREM AlwaysSuggestsTheFit == CrewsSpec => SuggestsTheFit
  <1>1. CrewsInv /\ [CrewsNext]_crvars =>
          [answer' # answer /\ answer' # Unasked =>
             Fair(answer'.of, answer'.who, answer'.given)]_crvars
    BY AnswerFair
  <1> QED BY <1>1, CrewsStart, CrewsStep, PTL DEF CrewsSpec, SuggestsTheFit, Fair

-----------------------------------------------------------------------------
(****************************************************************************)
(* CODES OF A DOMAIN: every value is written with its own                   *)
(****************************************************************************)

\* A step done over and over from a base.
Course(g, n, base, step) == g = [i \in 0 .. n |-> IF i = 0 THEN base ELSE step[g[i - 1]]]

\* There is a course for any of them.
LEMMA Goes ==
  ASSUME NEW n \in Nat, NEW base, NEW step
  PROVE  \E g : Course(g, n, base, step)
  <1> DEFINE Then(g, i) == IF i = 0 THEN base ELSE step[g[i - 1]]
             S == {k \in 0 .. n : \E g : g = [i \in 0 .. k |-> Then(g, i)]}
  <1>1. 0 \in S
    <2> DEFINE g == [i \in 0 .. 0 |-> base]
    <2>1. g = [i \in 0 .. 0 |-> Then(g, i)]
      <3>1. \A i \in 0 .. 0 : i = 0 /\ Then(g, i) = base
        OBVIOUS
      <3> HIDE DEF Then
      <3> QED BY <3>1
    <2> HIDE DEF g, Then
    <2> QED BY <2>1
  <1>2. ASSUME NEW k \in 0 .. n - 1, k \in S PROVE k + 1 \in S
    <2>1. PICK g : g = [i \in 0 .. k |-> Then(g, i)]
      BY <1>2
    <2> DEFINE next == step[g[k]]
               h == [i \in 0 .. k + 1 |-> IF i = k + 1 THEN next ELSE g[i]]
    <2>2. k \in Nat /\ k + 1 # 0 /\ k + 1 \in 0 .. n
      OBVIOUS
    <2>3. ASSUME NEW i \in 0 .. k + 1 PROVE h[i] = Then(h, i)
      <3>1. CASE i = k + 1
        <4>1. i # 0 /\ i - 1 = k /\ k \in 0 .. k + 1 /\ k # k + 1
          BY <2>2, <3>1
        <4>2. h[i] = next /\ h[i - 1] = g[k]
          BY <3>1, <4>1
        <4> HIDE DEF h
        <4> QED BY <3>1, <4>1, <4>2
      <3>2. CASE i = 0
        <4>1. 0 \in 0 .. k /\ 0 \in 0 .. k + 1 /\ 0 # k + 1
          BY <2>2
        <4>2. h[0] = g[0] /\ g[0] = base
          BY <2>1, <4>1
        <4> HIDE DEF h
        <4> QED BY <3>2, <4>2
      <3>3. CASE i # 0 /\ i # k + 1
        <4>1. /\ i \in 0 .. k /\ i - 1 \in 0 .. k /\ i - 1 \in 0 .. k + 1 /\ i - 1 # k + 1
          BY <2>2, <3>3
        <4>2. h[i] = g[i] /\ h[i - 1] = g[i - 1]
          BY <3>3, <4>1
        <4>3. g[i] = step[g[i - 1]]
          BY <2>1, <3>3, <4>1
        <4> HIDE DEF h
        <4> QED BY <3>3, <4>2, <4>3
      <3> QED BY <3>1, <3>2, <3>3
    <2>4. h = [i \in 0 .. k + 1 |-> h[i]]
      OBVIOUS
    <2> HIDE DEF h, Then
    <2>5. h = [i \in 0 .. k + 1 |-> Then(h, i)]
      BY <2>3, <2>4
    <2> QED BY <2>2, <2>5
  <1> HIDE DEF S
  <1>3. n \in S
    <2>1. \A k \in 0 .. n : k \in S
      BY <1>1, <1>2, UpTo
    <2> QED BY <2>1
  <1> QED BY <1>3 DEF S, Course

\* One that keeps to a set.
CourseIn(g, n, D, base, step) ==
  /\ g \in [0 .. n -> D]
  /\ g[0] = base /\ \A i \in 1 .. n : g[i] = step[g[i - 1]]

\* There is one if the base and the step do.
LEMMA GoesWithin ==
  ASSUME NEW n \in Nat, NEW D, NEW base \in D, NEW step \in [D -> D]
  PROVE  \E g : CourseIn(g, n, D, base, step)
  <1>1. PICK g : Course(g, n, base, step)
    BY Goes
  <1>2. g[0] = base /\ \A i \in 1 .. n : g[i] = step[g[i - 1]]
    <2>1. 0 \in 0 .. n /\ \A i \in 1 .. n : i \in 0 .. n /\ i # 0
      OBVIOUS
    <2> QED BY <1>1, <2>1 DEF Course
  <1> DEFINE R == {k \in 0 .. n : g[k] \in D}
  <1>3. 0 \in R
    BY <1>2
  <1>4. ASSUME NEW k \in 0 .. n - 1, k \in R PROVE k + 1 \in R
    <2>1. k + 1 \in 1 .. n /\ k + 1 - 1 = k /\ k + 1 \in 0 .. n
      OBVIOUS
    <2>2. g[k + 1] = step[g[k]]
      BY <1>2, <2>1
    <2> QED BY <1>4, <2>1, <2>2
  <1> HIDE DEF R
  <1>5. \A k \in 0 .. n : k \in R
    BY <1>3, <1>4, UpTo
  <1>6. \A k \in 0 .. n : g[k] \in D
    BY <1>5 DEF R
  <1>7. g = [i \in 0 .. n |-> g[i]]
    BY <1>1 DEF Course
  <1> QED BY <1>2, <1>6, <1>7 DEF CourseIn

\* A score is at most the whole.
Marks == 0 .. 10000

LEMMA HighestThere ==
  ASSUME NEW scores \in SUBSET Marks, scores # {}
  PROVE  Highest(scores) \in scores /\ \A r \in scores : r <= Highest(scores)
  <1> DEFINE short == {10000 - s : s \in scores}
  <1>1. short \in SUBSET Nat /\ short # {}
    <2>1. \A s \in scores : 10000 - s \in Nat
      BY DEF Marks
    <2> QED BY <2>1
  <1> HIDE DEF short
  <1>2. PICK x \in short : \A y \in short : x <= y
    BY <1>1, FirstOfMany
  <1>3. PICK s \in scores : x = 10000 - s
    BY DEF short
  <1>4. \A r \in scores : r <= s
    <2> TAKE r \in scores
    <2>1. 10000 - r \in short /\ r \in Int /\ s \in Int
      BY DEF short, Marks
    <2>2. 10000 - s <= 10000 - r
      BY <1>2, <1>3, <2>1
    <2> QED BY <2>1, <2>2
  <1> QED BY <1>4 DEF Highest

\* What a name proves of terms.
LEMMA TermScored ==
  ASSUME NEW names, NEW terms, NEW full \in Marks, NEW partial \in Marks
  PROVE  _term_score(names, terms, full, partial) \in Marks
  <1> DEFINE tokens == UNION {Tokens[n] : n \in names}
             Points(term) ==
               IF <<"whole", term>> \in tokens THEN full
               ELSE IF Length[term] >= 4 /\ \E t \in tokens : t[1] = "run" /\ term \in t[2] THEN partial
               ELSE IF Length[term] >= 5 /\ <<"short", term>> \in tokens THEN (partial * 9) \div 10
               ELSE 0
             points == {0} \cup {Points(t) : t \in terms}
  <1>1. _term_score(names, terms, full, partial) = Highest(points)
    BY DEF _term_score
  <1>2. (partial * 9) \div 10 \in Marks /\ 0 \in Marks
    BY DEF Marks
  <1>3. points \in SUBSET Marks
    <2>1. \A t : Points(t) \in {full, partial, (partial * 9) \div 10, 0}
      OBVIOUS
    <2> HIDE DEF Points
    <2> QED BY <1>2, <2>1
  <1> HIDE DEF points
  <1>4. points # {}
    BY DEF points
  <1>5. Highest(points) \in points
    BY <1>3, <1>4, HighestThere
  <1> QED BY <1>1, <1>3, <1>5

LEMMA ValueScored ==
  ASSUME NEW enum, NEW domain, NEW value, NEW code
  PROVE  ValueScore(enum, domain, value, code) \in Marks
  <1> DEFINE a == Strongly({domain.codes[code]}, enum_synonyms[enum][value])
             b == Strongly({code}, enum_synonyms[enum][value])
  <1>1. a \in Marks /\ b \in Marks
    <2>1. 10000 \in Marks /\ 6000 \in Marks
      BY DEF Marks
    <2>2. \A names, terms : _term_score(names, terms, 10000, 6000) \in Marks
      BY <2>1, TermScored
    <2> QED BY <2>2 DEF Strongly
  <1> HIDE DEF a, b
  <1>2. Highest({a, b}) \in {a, b}
    BY <1>1, HighestThere
  <1>3. ValueScore(enum, domain, value, code) = Highest({a, b})
    BY DEF ValueScore, a, b
  <1> QED BY <1>1, <1>2, <1>3

-----------------------------------------------------------------------------
(* The pair whose turn it is *)

\* What is ranked by name is in the alphabet.
Name == ToSet(Alphabet)

LEMMA NamesPlaced ==
  ASSUME NEW name \in Name
  PROVE  Place(name) \in Nat /\ Alphabet[Place(name)] = name
  <1>1. DOMAIN Alphabet = 1 .. Len(Alphabet) /\ Len(Alphabet) \in Nat
    BY MatchingGiven, LenProperties
  <1>2. \E i \in DOMAIN Alphabet : Alphabet[i] = name
    BY DEF Name, ToSet
  <1>3. Place(name) \in DOMAIN Alphabet /\ Alphabet[Place(name)] = name
    BY <1>2 DEF Place
  <1> QED BY <1>1, <1>3

\* Pairs of a value and a code, and what each scores.
Scored(scored) == scored \in [DOMAIN scored -> Marks] /\ DOMAIN scored \subseteq Name \X Name

\* Of the pairs left one comes before the others.
LEMMA TurnComes ==
  ASSUME NEW scored, Scored(scored), NEW left \in SUBSET DOMAIN scored, left # {}
  PROVE  /\ Turn(scored, left) \in left
         /\ \A q \in left : scored[Turn(scored, left)] >= scored[q]
  <1>1. \A p \in left : /\ p = <<p[1], p[2]>> /\ p[1] \in Name /\ p[2] \in Name
                        /\ scored[p] \in Marks
                        /\ Place(p[1]) \in Nat /\ Place(p[2]) \in Nat
    BY NamesPlaced DEF Scored
  <1>0. \A p \in left : scored[p] \in Int
    <2>1. Marks \subseteq Int
      BY DEF Marks
    <2> QED BY <1>1, <2>1
  <1> DEFINE scores == {scored[p] : p \in left}
             top == {p \in left : scored[p] = Highest(scores)}
             values == {Place(p[1]) : p \in top}
  <1>2. scores \in SUBSET Marks /\ scores # {}
    BY <1>1
  <1>3. Highest(scores) \in scores /\ \A r \in scores : r <= Highest(scores)
    BY <1>2, HighestThere
  <1>4. top # {}
    BY <1>3
  <1>5. \A p \in top, q \in left : scored[q] <= scored[p]
    BY <1>3
  <1> HIDE DEF scores
  <1>6. values \in SUBSET Nat /\ values # {}
    BY <1>1, <1>4
  <1> HIDE DEF values
  <1>7. PICK v \in values : \A w \in values : v <= w
    BY <1>6, FirstOfMany
  <1> DEFINE first == {p \in top : Place(p[1]) = v}
             codes == {Place(p[2]) : p \in first}
  <1>8. first # {}
    BY <1>7 DEF values
  <1>9. codes \in SUBSET Nat /\ codes # {}
    BY <1>1, <1>8
  <1> HIDE DEF codes
  <1>10. PICK c \in codes : \A d \in codes : c <= d
    BY <1>9, FirstOfMany
  <1>11. PICK p \in first : Place(p[2]) = c
    BY <1>10 DEF codes
  <1>12. ASSUME NEW q \in left \ {p} PROVE Before(p, scored[p], q, scored[q])
    <2>1. scored[q] <= scored[p] /\ scored[p] \in Int /\ scored[q] \in Int
      BY <1>0, <1>5, <1>11
    <2>2. CASE scored[q] < scored[p]
      BY <2>1, <2>2 DEF Before
    <2>3. CASE scored[q] = scored[p]
      <3>1. q \in top
        BY <1>11, <2>3
      <3>2. v <= Place(q[1]) /\ Place(p[1]) = v
        BY <1>7, <1>11, <3>1 DEF values
      <3>3. CASE v < Place(q[1])
        BY <2>3, <3>2, <3>3 DEF Before
      <3>4. CASE Place(q[1]) = v
        <4>1. q \in first
          BY <3>1, <3>4
        <4>2. c <= Place(q[2])
          BY <1>10, <4>1 DEF codes
        <4>3. p[1] = q[1]
          BY <1>1, <1>11, <3>2, <3>4, NamesPlaced
        <4>4. Place(q[2]) # c
          <5> SUFFICES ASSUME Place(q[2]) = c PROVE FALSE
            OBVIOUS
          <5>1. p[2] = q[2]
            BY <1>1, <1>11, NamesPlaced
          <5>2. p = q
            BY <1>1, <1>11, <4>3, <5>1
          <5> QED BY <5>2
        <4>5. Place(p[2]) < Place(q[2])
          BY <1>1, <1>11, <4>2, <4>4
        <4> QED BY <2>3, <4>3, <4>5 DEF Before
      <3> QED BY <1>1, <1>6, <1>7, <3>2, <3>3, <3>4
    <2> QED BY <2>1, <2>2, <2>3
  <1> DEFINE turn == Turn(scored, left)
  <1>13. turn \in left /\ \A q \in left \ {turn} : Before(turn, scored[turn], q, scored[q])
    <2>1. p \in left
      BY <1>11
    <2> QED BY <1>12, <2>1 DEF Turn
  <1> HIDE DEF turn
  <1>14. ASSUME NEW q \in left PROVE scored[turn] >= scored[q]
    <2>1. scored[turn] \in Int /\ scored[q] \in Int
      BY <1>0, <1>13
    <2>2. CASE q = turn
      BY <2>1, <2>2
    <2>3. CASE q # turn
      BY <1>13, <2>1, <2>3 DEF Before
    <2> QED BY <2>2, <2>3
  <1> QED BY <1>13, <1>14 DEF turn

-----------------------------------------------------------------------------
(* Turn by turn *)

\* A pair that is not written: its value, or its code, went where it agrees as much.
Settled(scored, map, p) ==
  \/ p[1] \in DOMAIN map /\ scored[<<p[1], map[p[1]]>>] >= scored[p]
  \/ \E v \in DOMAIN map : map[v] = p[2] /\ scored[<<v, p[2]>>] >= scored[p]

\* One code to a value, each of them a pair there was.
OneToOne(scored, map) ==
  /\ map \in [DOMAIN map -> Name] /\ DOMAIN map \subseteq Name
  /\ \A v \in DOMAIN map : <<v, map[v]>> \in DOMAIN scored
  /\ \A v, w \in DOMAIN map : map[v] = map[w] => v = w

\* What has been done of the pairs: those left have their value and their code free.
Partial(scored) ==
  {done \in [map : UNION {[S -> Name] : S \in SUBSET Name}, left : SUBSET DOMAIN scored] :
     /\ OneToOne(scored, done.map)
     /\ \A p \in done.left : p[1] \notin DOMAIN done.map /\ \A v \in DOMAIN done.map : done.map[v] # p[2]
     /\ \A p \in DOMAIN scored \ done.left : Settled(scored, done.map, p)}

LEMMA TurnTaken ==
  ASSUME NEW scored, Scored(scored), NEW done \in Partial(scored)
  PROVE  /\ Take(scored, done) \in Partial(scored)
         /\ done.left = {} => Take(scored, done).left = {}
         /\ done.left # {} => \E p \in done.left : Take(scored, done).left \subseteq done.left \ {p}
  <1> DEFINE p == Turn(scored, done.left)
             map == [v \in DOMAIN done.map \cup {p[1]} |-> IF v = p[1] THEN p[2] ELSE done.map[v]]
             left == {q \in done.left : q[1] # p[1] /\ q[2] # p[2]}
  <1>1. /\ done.left \in SUBSET DOMAIN scored /\ OneToOne(scored, done.map)
        /\ \A q \in done.left : q[1] \notin DOMAIN done.map /\ \A v \in DOMAIN done.map : done.map[v] # q[2]
        /\ \A q \in DOMAIN scored \ done.left : Settled(scored, done.map, q)
    BY DEF Partial
  <1>2. CASE done.left = {}
    <2>1. Take(scored, done) = done
      BY <1>2 DEF Take
    <2> QED BY <1>2, <2>1
  <1>3. CASE done.left # {}
    <2>1. Take(scored, done) = [map |-> map, left |-> left]
      BY <1>3 DEF Take
    <2>2. p \in done.left /\ \A q \in done.left : scored[p] >= scored[q]
      BY <1>1, <1>3, TurnComes
    <2> HIDE DEF p
    <2>3. /\ p \in DOMAIN scored /\ p = <<p[1], p[2]>> /\ p[1] \in Name /\ p[2] \in Name
          /\ p[1] \notin DOMAIN done.map /\ \A v \in DOMAIN done.map : done.map[v] # p[2]
      BY <1>1, <2>2 DEF Scored
    <2>4. /\ DOMAIN map = DOMAIN done.map \cup {p[1]} /\ map[p[1]] = p[2]
          /\ \A v \in DOMAIN done.map : map[v] = done.map[v]
          /\ map = [v \in DOMAIN map |-> map[v]]
      BY <2>3
    <2> HIDE DEF map
    <2>5. OneToOne(scored, map)
      <3>1. \A v \in DOMAIN map : map[v] \in Name /\ <<v, map[v]>> \in DOMAIN scored
        BY <1>1, <2>3, <2>4 DEF OneToOne
      <3>2. DOMAIN map \subseteq Name
        BY <1>1, <2>3, <2>4 DEF OneToOne
      <3>3. \A v, w \in DOMAIN map : map[v] = map[w] => v = w
        BY <1>1, <2>3, <2>4 DEF OneToOne
      <3>4. map \in [DOMAIN map -> Name]
        BY <2>4, <3>1
      <3> QED BY <3>1, <3>2, <3>3, <3>4 DEF OneToOne
    <2>6. left \in SUBSET DOMAIN scored /\ left \subseteq done.left \ {p}
      BY <1>1, <2>2
    <2>7. \A q \in left : q[1] \notin DOMAIN map /\ \A v \in DOMAIN map : map[v] # q[2]
      BY <1>1, <2>4
    <2>8. ASSUME NEW q \in DOMAIN scored \ left PROVE Settled(scored, map, q)
      <3>1. CASE q \notin done.left
        <4>1. Settled(scored, done.map, q)
          BY <1>1, <3>1
        <4> QED BY <2>4, <4>1 DEF Settled
      <3>2. CASE q \in done.left
        <4>1. scored[p] >= scored[q] /\ (q[1] = p[1] \/ q[2] = p[2])
          BY <2>2, <3>2
        <4>2. p[1] \in DOMAIN map /\ map[p[1]] = p[2] /\ scored[<<p[1], p[2]>>] >= scored[q]
          BY <2>3, <2>4, <4>1
        <4>3. CASE q[1] = p[1]
          BY <4>2, <4>3 DEF Settled
        <4>4. CASE q[2] = p[2]
          BY <4>2, <4>4 DEF Settled
        <4> QED BY <4>1, <4>3, <4>4
      <3> QED BY <3>1, <3>2
    <2> HIDE DEF left
    <2>9. map \in UNION {[S -> Name] : S \in SUBSET Name}
      BY <2>5 DEF OneToOne
    <2>10. [map |-> map, left |-> left] \in Partial(scored)
      BY <2>5, <2>6, <2>7, <2>8, <2>9 DEF Partial
    <2>11. \E q \in done.left : left \subseteq done.left \ {q}
      BY <2>2, <2>6
    <2> QED BY <1>3, <2>1, <2>10, <2>11
  <1> QED BY <1>2, <1>3

\* When every pair has had its turn none is left.
LEMMA AllAssigned ==
  ASSUME NEW scored, Scored(scored), IsFiniteSet(DOMAIN scored)
  PROVE  /\ OneToOne(scored, Assigned(scored))
         /\ \A p \in DOMAIN scored : Settled(scored, Assigned(scored), p)
  <1> DEFINE n == Cardinality(DOMAIN scored)
             D == Partial(scored)
             base == [map |-> <<>>, left |-> DOMAIN scored]
             step == [x \in D |-> Take(scored, x)]
             Then(g, i) == IF i = 0 THEN base ELSE Take(scored, g[i - 1])
  <1>1. n \in Nat
    BY FS_CardinalityType
  <1>2. base \in D
    <2>1. DOMAIN <<>> = {} /\ <<>> \in [{} -> Name]
      OBVIOUS
    <2>2. OneToOne(scored, <<>>)
      BY <2>1 DEF OneToOne
    <2>3. <<>> \in UNION {[S -> Name] : S \in SUBSET Name}
      BY <2>1
    <2> QED BY <2>1, <2>2, <2>3 DEF Partial
  <1>3. step \in [D -> D]
    <2>1. \A x \in D : Take(scored, x) \in D
      BY TurnTaken
    <2> HIDE DEF D
    <2> QED BY <2>1
  <1> HIDE DEF n, D, base
  <1>4. \E g : g = [i \in 0 .. n |-> Then(g, i)]
    <2>0. PICK g : CourseIn(g, n, D, base, step)
      <3> HIDE DEF step
      <3> QED BY <1>1, <1>2, <1>3, GoesWithin
    <2>1. g \in [0 .. n -> D] /\ g[0] = base /\ \A i \in 1 .. n : g[i] = step[g[i - 1]]
      <3> HIDE DEF step
      <3> QED BY <2>0 DEF CourseIn
    <2>2. \A i \in 1 .. n : g[i] = Take(scored, g[i - 1])
      <3>1. \A i \in 1 .. n : i - 1 \in 0 .. n
        BY <1>1
      <3> QED BY <2>1, <3>1
    <2>3. \A i \in 0 .. n : i = 0 \/ (i # 0 /\ i \in 1 .. n)
      BY <1>1
    <2>4. \A i \in 0 .. n : g[i] = Then(g, i)
      BY <2>1, <2>2, <2>3
    <2>5. g = [i \in 0 .. n |-> g[i]]
      BY <2>1
    <2> HIDE DEF Then
    <2> QED BY <2>4, <2>5
  <1> DEFINE done == CHOOSE g : g = [i \in 0 .. n |-> Then(g, i)]
  <1>5. Assigned(scored) = done[n].map
    BY DEF Assigned, n, base
  <1>6. done = [i \in 0 .. n |-> Then(done, i)]
    <2> HIDE DEF Then
    <2> QED BY <1>4
  <1>7. done[0] = base /\ \A i \in 1 .. n : done[i] = Take(scored, done[i - 1])
    <2>1. 0 \in 0 .. n /\ \A i \in 1 .. n : i \in 0 .. n /\ i # 0
      BY <1>1
    <2> HIDE DEF done
    <2> QED BY <1>6, <2>1
  <1> HIDE DEF done, Then, step
  <1> DEFINE R == {k \in 0 .. n : /\ done[k] \in D /\ IsFiniteSet(done[k].left)
                                  /\ Cardinality(done[k].left) <= n - k}
  <1>8. 0 \in R
    <2>1. base.left = DOMAIN scored /\ Cardinality(base.left) <= n - 0 /\ 0 \in 0 .. n
      BY <1>1 DEF base, n
    <2> QED BY <1>2, <1>7, <2>1
  <1>9. ASSUME NEW k \in 0 .. n - 1, k \in R PROVE k + 1 \in R
    <2> DEFINE old == done[k]
               new == done[k + 1]
    <2>1. k + 1 \in 1 .. n /\ k + 1 - 1 = k /\ k + 1 \in 0 .. n /\ k \in Nat
      BY <1>1
    <2>2. new = Take(scored, old)
      BY <1>7, <2>1
    <2>3. old \in D /\ IsFiniteSet(old.left) /\ Cardinality(old.left) <= n - k
      BY <1>9
    <2> HIDE DEF old, new
    <2>4. /\ new \in D
          /\ old.left = {} => new.left = {}
          /\ old.left # {} => \E p \in old.left : new.left \subseteq old.left \ {p}
      BY <2>2, <2>3, TurnTaken DEF D
    <2>5. CASE old.left = {}
      <3>1. IsFiniteSet(new.left) /\ Cardinality(new.left) = 0
        BY <2>4, <2>5, FS_EmptySet
      <3> QED BY <1>1, <2>1, <2>4, <3>1 DEF new
    <2>6. CASE old.left # {}
      <3>1. PICK p \in old.left : new.left \subseteq old.left \ {p}
        BY <2>4, <2>6
      <3>2. /\ IsFiniteSet(old.left \ {p})
            /\ Cardinality(old.left \ {p}) = Cardinality(old.left) - 1
        BY <2>3, FS_RemoveElement
      <3>3. IsFiniteSet(new.left) /\ Cardinality(new.left) <= Cardinality(old.left \ {p})
        BY <3>1, <3>2, FS_Subset
      <3>4. Cardinality(new.left) \in Nat /\ Cardinality(old.left) \in Nat
        BY <2>3, <3>3, FS_CardinalityType
      <3>5. Cardinality(new.left) <= n - (k + 1)
        BY <1>1, <2>1, <2>3, <3>2, <3>3, <3>4
      <3> QED BY <2>1, <2>4, <3>3, <3>5 DEF new
    <2> QED BY <2>5, <2>6
  <1> HIDE DEF R
  <1>10. n \in R
    <2>1. \A k \in 0 .. n : k \in R
      BY <1>1, <1>8, <1>9, UpTo
    <2> QED BY <1>1, <2>1
  <1>11. done[n] \in D /\ IsFiniteSet(done[n].left) /\ Cardinality(done[n].left) <= n - n
    BY <1>10 DEF R
  <1>12. done[n].left = {}
    <2>1. Cardinality(done[n].left) \in Nat
      BY <1>11, FS_CardinalityType
    <2>2. Cardinality(done[n].left) = 0
      BY <1>1, <1>11, <2>1
    <2> QED BY <1>11, <2>2, FS_EmptySet
  <1> QED BY <1>5, <1>11, <1>12 DEF D, Partial

-----------------------------------------------------------------------------
(* The table of an enumeration, and the document *)

\* What can be written: the values of an enumeration, the codes of a domain.
Writable(enum, domain) ==
  /\ ToSet(enums[enum]) \subseteq Name
  /\ domain.coded => DOMAIN domain.codes \subseteq Name

\* A table of an enumeration for a domain: what the property asks of it.
InItsCodes(enum, domain, map) ==
  /\ \A v \in DOMAIN map : <<v, map[v]>> \in Pairs(enum, domain)
  /\ \A v, w \in DOMAIN map : map[v] = map[w] => v = w
  /\ \A p \in Pairs(enum, domain) :
       \/ /\ p[1] \in DOMAIN map
          /\ ValueScore(enum, domain, p[1], map[p[1]]) >= ValueScore(enum, domain, p[1], p[2])
       \/ \E v \in DOMAIN map :
            /\ map[v] = p[2]
            /\ ValueScore(enum, domain, v, p[2]) >= ValueScore(enum, domain, p[1], p[2])

LEMMA AlphabetFinite == IsFiniteSet(Name)
  <1> DEFINE n == Len(Alphabet)
  <1>1. n \in Nat /\ Alphabet \in [1 .. n -> Name]
    BY MatchingGiven, LenProperties DEF Name
  <1>2. Alphabet \in Surjection(1 .. n, Name)
    <2>1. \A x \in Name : \E i \in 1 .. n : Alphabet[i] = x
      BY <1>1 DEF Name, ToSet
    <2> QED BY <1>1, <2>1 DEF Surjection
  <1>3. IsFiniteSet(1 .. n)
    BY <1>1, FS_Interval
  <1> QED BY <1>2, <1>3, FS_Surjection

LEMMA MapInItsCodes ==
  ASSUME NEW enum, NEW domain, Writable(enum, domain)
  PROVE  InItsCodes(enum, domain, propose_value_map(enum, domain))
  <1> DEFINE pairs == Pairs(enum, domain)
             scored == Scores(enum, domain)
             map == propose_value_map(enum, domain)
             Agree(v, c) == ValueScore(enum, domain, v, c)
  <1>1. pairs \subseteq Name \X Name
    BY DEF Pairs, Writable
  <1>2. DOMAIN scored = pairs /\ \A p \in pairs : scored[p] = Agree(p[1], p[2])
    BY DEF Scores
  <1>3. Scored(scored)
    <2>1. \A p \in pairs : scored[p] \in Marks
      BY <1>2, ValueScored
    <2>2. scored = [p \in pairs |-> scored[p]]
      BY DEF Scores
    <2> HIDE DEF scored, pairs
    <2>3. scored \in [pairs -> Marks]
      BY <2>1, <2>2
    <2> QED BY <1>1, <1>2, <2>3 DEF Scored
  <1> HIDE DEF scored, pairs
  <1>4. IsFiniteSet(pairs)
    <2>1. IsFiniteSet(Name \X Name)
      BY AlphabetFinite, FS_Product
    <2> QED BY <1>1, <2>1, FS_Subset
  <1>5. map = Assigned(scored)
    BY DEF propose_value_map, scored
  <1>6. OneToOne(scored, map) /\ \A p \in pairs : Settled(scored, map, p)
    BY <1>2, <1>3, <1>4, <1>5, AllAssigned
  <1> HIDE DEF map
  <1>7. \A v, c : <<v, c>> \in pairs => scored[<<v, c>>] = Agree(v, c)
    BY <1>2
  <1> HIDE DEF Agree
  <1>8. \A v \in DOMAIN map : <<v, map[v]>> \in pairs
    BY <1>2, <1>6 DEF OneToOne
  <1>9. \A v, w \in DOMAIN map : map[v] = map[w] => v = w
    BY <1>6 DEF OneToOne
  <1>10. ASSUME NEW p \in pairs
         PROVE  \/ p[1] \in DOMAIN map /\ Agree(p[1], map[p[1]]) >= Agree(p[1], p[2])
                \/ \E v \in DOMAIN map : map[v] = p[2] /\ Agree(v, p[2]) >= Agree(p[1], p[2])
    <2>1. scored[p] = Agree(p[1], p[2])
      BY <1>2
    <2>2. CASE p[1] \in DOMAIN map /\ scored[<<p[1], map[p[1]]>>] >= scored[p]
      <3>1. scored[<<p[1], map[p[1]]>>] = Agree(p[1], map[p[1]])
        BY <1>7, <1>8, <2>2
      <3> QED BY <2>1, <2>2, <3>1
    <2>3. ASSUME NEW v \in DOMAIN map, map[v] = p[2], scored[<<v, p[2]>>] >= scored[p]
          PROVE  \E w \in DOMAIN map : map[w] = p[2] /\ Agree(w, p[2]) >= Agree(p[1], p[2])
      <3>1. scored[<<v, p[2]>>] = Agree(v, p[2])
        BY <1>7, <1>8, <2>3
      <3> QED BY <2>1, <2>3, <3>1
    <2> QED BY <1>6, <2>2, <2>3 DEF Settled
  <1> QED BY <1>8, <1>9, <1>10 DEF InItsCodes, pairs, map, Agree

LEMMA NamedOnceOrTwice ==
  ASSUME NEW e
  PROVE  /\ <<e>>[1] = e
         /\ \A k : <<e, k>>[1] = e /\ <<e, k>> # <<e>>
         /\ \A k, l : <<e, k>> = <<e, l>> => k = l
  <1>1. \A k : <<e, k>> # <<e>>
    <2> TAKE k
    <2>1. Len(<<e, k>>) = 2 /\ Len(<<e>>) = 1
      OBVIOUS
    <2> QED BY <2>1
  <1> QED BY <1>1

\* A binding of an enumeration has the table made for it and for its field.
LEMMA TableOfItsOwn ==
  ASSUME NEW metadata \in Schemas \cup {{}}, NEW decisions, Buildable(metadata, decisions),
         NEW name \in DOMAIN build_profile_document(metadata, decisions).bindings,
         NEW document, document = build_profile_document(metadata, decisions),
         document.bindings[name].type = "enum",
         document.bindings[name].field.domain # NoDomain
  PROVE  LET bound == document.bindings[name] IN
         /\ Writable(bound.table[1], bound.field.domain)
         /\ document.value_maps[bound.table]
              = propose_value_map(bound.table[1], bound.field.domain)
  <1> DEFINE bound == Decided(decisions)
             KeyOf(b) == asset_types[b[1]].key
             fields == [b \in bound |-> DecidedField(metadata, decisions[KeyOf(b)], b[2].key)]
             coded == {b \in bound : b[2].type = "enum" /\ fields[b].domain # NoDomain}
             maps == [b \in coded |-> propose_value_map(b[2].enum_ref, fields[b].domain)]
             tables == [b \in coded |-> table_name(maps, KeyOf(b), b)]
             Called(n) == CHOOSE b \in bound : <<KeyOf(b), b[2].key>> = n
             WrittenBy(table) == CHOOSE b \in coded : tables[b] = table
             names == {<<KeyOf(b), b[2].key>> : b \in bound}
             bindings == [n \in names |->
               LET b == Called(n) IN
               [field |-> fields[b], type |-> b[2].type,
                table |-> IF b \in coded THEN tables[b] ELSE <<b[2].enum_ref>>]]
             value_maps == [table \in {tables[b] : b \in coded} |-> maps[WrittenBy(table)]]
             b == Called(name)
  <1>1. document = [bindings |-> bindings, value_maps |-> value_maps, built |-> TRUE]
    BY DEF build_profile_document
  <1>2. document.bindings = bindings /\ document.value_maps = value_maps /\ name \in names
    <2> HIDE DEF bindings, value_maps
    <2>1. document.bindings = bindings /\ document.value_maps = value_maps
      BY <1>1
    <2> QED BY <2>1 DEF bindings
  <1>3. ASSUME NEW c \in bound
        PROVE  /\ c = <<c[1], c[2]>> /\ c[1] \in DOMAIN asset_types
               /\ c[2] \in ToSet(asset_types[c[1]].attributes)
               /\ KeyOf(c) \in DOMAIN decisions
               /\ c[2].key \in DOMAIN decisions[KeyOf(c)].attributes
    BY DEF Decided
  <1> HIDE DEF bound
  <1>4. b \in bound /\ <<KeyOf(b), b[2].key>> = name
    <2> HIDE DEF bindings, value_maps, fields, coded, maps, tables
    <2>1. PICK c \in bound : <<KeyOf(c), c[2].key>> = name
      BY <1>2
    <2> QED BY <2>1
  <1>5. /\ bindings[name].field = fields[b] /\ bindings[name].type = b[2].type
        /\ b \in coded => bindings[name].table = tables[b]
    <2> DEFINE table == IF b \in coded THEN tables[b] ELSE <<b[2].enum_ref>>
               field == fields[b]
               of_type == b[2].type
    <2>1. bindings[name] = [field |-> field, type |-> of_type, table |-> table]
      <3> HIDE DEF fields, tables, coded, names
      <3> QED BY <1>2
    <2>2. b \in coded => table = tables[b]
      OBVIOUS
    <2> HIDE DEF table, field, of_type, bindings
    <2>3. bindings[name].field = field /\ bindings[name].type = of_type /\ bindings[name].table = table
      BY <2>1
    <2> QED BY <2>2, <2>3 DEF field, of_type
  <1> HIDE DEF b, Called, bindings, names
  <1>6. b \in coded /\ bindings[name].field = fields[b] /\ bindings[name].table = tables[b]
    <2> HIDE DEF fields, tables
    <2>1. b[2].type = "enum" /\ fields[b].domain # NoDomain
      BY <1>2, <1>5
    <2>2. b \in coded
      BY <1>4, <2>1
    <2> QED BY <1>5, <2>2
  <1>7. \A c \in coded : tables[c] = table_name(maps, KeyOf(c), c)
    OBVIOUS
  <1>8. \A c \in coded : maps[c] = propose_value_map(c[2].enum_ref, fields[c].domain)
    OBVIOUS
  <1>9. /\ fields[b] = DecidedField(metadata, decisions[KeyOf(b)], b[2].key)
        /\ coded \subseteq bound /\ \A c \in coded : c[2].type = "enum"
    BY <1>4
  <1> HIDE DEF tables, maps, coded, fields
  <1> DEFINE First(enum) == CHOOSE c \in {d \in DOMAIN maps : d[2].enum_ref = enum} :
                              \A other \in {d \in DOMAIN maps : d[2].enum_ref = enum} : c[1] <= other[1]
  <1>10. ASSUME NEW c \in coded
         PROVE  tables[c] = IF maps[c] # maps[First(c[2].enum_ref)] THEN <<c[2].enum_ref, KeyOf(c)>>
                            ELSE <<c[2].enum_ref>>
    BY <1>7 DEF table_name
  <1> HIDE DEF First, KeyOf
  <1>11. \A c \in coded : tables[c][1] = c[2].enum_ref
    <2> SUFFICES ASSUME NEW c \in coded PROVE tables[c][1] = c[2].enum_ref
      OBVIOUS
    <2> DEFINE k == KeyOf(c)
               e == c[2].enum_ref
    <2>1. tables[c] = <<e>> \/ tables[c] = <<e, k>>
      BY <1>10
    <2> HIDE DEF k
    <2> QED BY <2>1
  <1>12. ASSUME NEW c \in coded, tables[c] = tables[b] PROVE maps[c] = maps[b]
    <2>1. c[2].enum_ref = b[2].enum_ref
      BY <1>6, <1>11, <1>12
    <2> DEFINE enum == b[2].enum_ref
    <2>2. CASE maps[c] = maps[First(enum)] /\ maps[b] = maps[First(enum)]
      BY <2>2
    <2>3. CASE maps[c] = maps[First(enum)] /\ maps[b] # maps[First(enum)]
      <3>1. tables[c] = <<enum>> /\ tables[b] = <<enum, KeyOf(b)>>
        BY <1>6, <1>10, <2>1, <2>3
      <3> QED BY <1>12, <3>1, NamedOnceOrTwice
    <2>4. CASE maps[c] # maps[First(enum)] /\ maps[b] = maps[First(enum)]
      <3>1. tables[c] = <<enum, KeyOf(c)>> /\ tables[b] = <<enum>>
        BY <1>6, <1>10, <2>1, <2>4
      <3> QED BY <1>12, <3>1, NamedOnceOrTwice
    <2>5. CASE maps[c] # maps[First(enum)] /\ maps[b] # maps[First(enum)]
      <3>1. tables[c] = <<enum, KeyOf(c)>> /\ tables[b] = <<enum, KeyOf(b)>>
        BY <1>6, <1>10, <2>1, <2>5
      <3>2. KeyOf(c) = KeyOf(b)
        <4> DEFINE k == KeyOf(c)
                   l == KeyOf(b)
        <4>1. <<enum, k>> = <<enum, l>>
          BY <1>12, <3>1
        <4> HIDE DEF k, l
        <4>2. k = l
          BY <4>1
        <4> QED BY <4>2 DEF k, l
      <3>3. c[1] = b[1]
        BY <1>3, <1>4, <1>9, <3>2, MatchingGiven DEF KeyOf
      <3>4. asset_types[b[1]] \in ToSet(asset_types)
        BY <1>3, <1>4 DEF ToSet
      <3>5. c[2] = b[2]
        BY <1>3, <1>4, <1>6, <1>9, <2>1, <3>3, <3>4, MatchingGiven
      <3>6. c = b
        BY <1>3, <1>4, <1>9, <3>3, <3>5
      <3> QED BY <3>6
    <2> QED BY <2>2, <2>3, <2>4, <2>5
  <1>13. value_maps[tables[b]] = maps[b]
    <2>1. tables[b] \in {tables[c] : c \in coded}
      BY <1>6
    <2>2. WrittenBy(tables[b]) \in coded /\ tables[WrittenBy(tables[b])] = tables[b]
      BY <1>6
    <2>3. value_maps[tables[b]] = maps[WrittenBy(tables[b])]
      BY <2>1
    <2> HIDE DEF WrittenBy, value_maps
    <2> QED BY <1>12, <2>2, <2>3
  <1>14. \E layer \in metadata : fields[b] \in layer.fields
    <2> DEFINE was == decisions[KeyOf(b)]
               layer == DecidedLayer(metadata, was)
    <2>1. KeyOf(b) \in DOMAIN decisions /\ b[2].key \in DOMAIN was.attributes
      BY <1>3, <1>4
    <2>2. /\ LayerOf(metadata, was.layer) # {}
          /\ FieldOf(layer, was.attributes[b[2].key]) # {}
      BY <2>1 DEF Buildable
    <2> HIDE DEF was
    <2>3. layer \in metadata
      BY <2>2 DEF DecidedLayer, LayerOf
    <2>4. DecidedField(metadata, was, b[2].key) \in layer.fields
      BY <2>2 DEF DecidedField, FieldOf
    <2> QED BY <2>3, <2>4, <1>9 DEF was
  <1>15. Writable(b[2].enum_ref, fields[b].domain)
    <2>1. asset_types[b[1]] \in ToSet(asset_types)
      BY <1>3, <1>4 DEF ToSet
    <2>2. ToSet(enums[b[2].enum_ref]) \subseteq Name
      BY <1>3, <1>4, <1>6, <1>9, <2>1, MatchingGiven DEF Name
    <2>3. fields[b].domain # NoDomain
      BY <1>2, <1>6
    <2>4. fields[b].domain.coded => DOMAIN fields[b].domain.codes \subseteq Name
      BY <1>14, <2>3, MatchingGiven DEF Name
    <2> QED BY <2>2, <2>4 DEF Writable
  <1> HIDE DEF value_maps
  <1> QED BY <1>2, <1>6, <1>8, <1>11, <1>13, <1>15

-----------------------------------------------------------------------------
(* The invariant *)

\* The document is the one its decisions make of the metadata they were made over.
DocumentMade ==
  draft # NoDraft =>
    /\ draft.metadata \in Schemas \cup {{}}
    /\ draft.document = build_profile_document(draft.metadata, draft.decisions)

MatchingInv == exported \in Schemas \cup {{}} /\ DocumentMade

LEMMA DraftMade ==
  ASSUME exported \in Schemas \cup {{}}, NEW decisions, NEW first, draft' = Draft(decisions, first)
  PROVE  DocumentMade'
  BY DEF Draft, DraftOf, DocumentMade

LEMMA MatchingStep == MatchingInv /\ [MatchingNext]_mxvars => MatchingInv'
  <1> SUFFICES ASSUME MatchingInv, [MatchingNext]_mxvars PROVE MatchingInv'
    OBVIOUS
  <1>1. CASE Export
    BY <1>1 DEF Export, MatchingInv, DocumentMade
  <1>2. CASE StartDraft
    BY <1>2, DraftMade DEF StartDraft, Started, MatchingInv
  <1>3. CASE Choose
    BY <1>3, DraftMade DEF Choose, MatchingInv
  <1>4. CASE PublishProfile
    BY <1>4 DEF PublishProfile, MatchingInv, DocumentMade
  <1>5. CASE UNCHANGED mxvars
    BY <1>5 DEF mxvars, MatchingInv, DocumentMade
  <1> QED BY <1>1, <1>2, <1>3, <1>4, <1>5 DEF MatchingNext

LEMMA DocumentInItsCodes == MatchingInv => WrittenInItsCodes
  <1> SUFFICES ASSUME MatchingInv, draft # NoDraft, NEW name \in DOMAIN draft.document.bindings,
                      draft.document.bindings[name].type = "enum",
                      draft.document.bindings[name].field.domain # NoDomain
               PROVE  LET bound == draft.document.bindings[name] IN
                      InItsCodes(bound.table[1], bound.field.domain,
                                 draft.document.value_maps[bound.table])
    BY DEF WrittenInItsCodes, InItsCodes
  <1>1. /\ draft.metadata \in Schemas \cup {{}}
        /\ draft.document = build_profile_document(draft.metadata, draft.decisions)
    BY DEF MatchingInv, DocumentMade
  <1>2. Buildable(draft.metadata, draft.decisions)
    <2> SUFFICES ASSUME ~Buildable(draft.metadata, draft.decisions) PROVE FALSE
      OBVIOUS
    <2>1. draft.document = NoDocument
      BY <1>1 DEF build_profile_document
    <2>2. DOMAIN NoDocument.bindings = {}
      BY DEF NoDocument
    <2> QED BY <2>1, <2>2
  <1> DEFINE bound == draft.document.bindings[name]
  <1>3. /\ Writable(bound.table[1], bound.field.domain)
        /\ draft.document.value_maps[bound.table]
             = propose_value_map(bound.table[1], bound.field.domain)
    BY <1>1, <1>2, TableOfItsOwn
  <1> QED BY <1>3, MapInItsCodes

\* Whatever was proposed, chosen by hand or kept, for any model, vocabulary and snapshots:
\* every enumeration of a draft is written with the codes of its own field's domain, one to a
\* value, and none goes to a value that agrees with it less while another went without.
THEOREM CodesAlwaysItsOwn == MatchingSpec => []WrittenInItsCodes
  <1>1. MatchingInit => MatchingInv
    BY DEF MatchingInit, MatchingInv, DocumentMade
  <1> QED BY <1>1, MatchingStep, DocumentInItsCodes, PTL DEF MatchingSpec
=============================================================================
