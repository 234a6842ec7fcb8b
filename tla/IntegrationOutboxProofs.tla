---------------------- MODULE IntegrationOutboxProofs ----------------------
(***************************************************************************)
(* For any events, connectors, passes, batch sizes and retry budgets: the  *)
(* ledger never claims a delivery nobody took, keeps what is pending on    *)
(* the schedule, and no pass revives a settled event.                      *)
(***************************************************************************)
EXTENDS IntegrationOutbox, TLAPS

-----------------------------------------------------------------------------
(* The inductive invariant *)

\* A pass works on events of the ledger, and an answer that confirms comes
\* from a system that took the event.
PassHonest ==
  \A w \in Workers :
    /\ \A load \in pass[w].todo : load.event \in Recorded
    /\ pass[w].sent # None =>
         /\ pass[w].sent.load.event \in Recorded
         /\ Delivered(pass[w].sent.answer) => received[pass[w].sent.load.event] # {}

LedgerInv ==
  /\ TypeOK
  /\ PassHonest
  /\ DeliveredWasTaken
  /\ PendingIsScheduled

-----------------------------------------------------------------------------
(* Rows and schedules *)

\* A row is a row whichever of its columns is written.
LEMMA RowsWritten ==
  /\ NoRow \notin Row
  /\ \A row \in Row, st \in EventStatus, n \in Nat, q \in 1 .. MaxPayload :
       /\ [status |-> st, attempts |-> n, payload |-> q] \in Row
       /\ [row EXCEPT !.status = st] \in Row
       /\ [row EXCEPT !.attempts = n] \in Row
       /\ [row EXCEPT !.status = st, !.attempts = n] \in Row
       /\ [row EXCEPT !.status = st, !.payload = q] \in Row
  <1>1. NoRow.status = "none" /\ "none" \notin EventStatus
    BY DEF NoRow, EventStatus
  <1>2. \A row \in Row : row.status \in EventStatus
    BY DEF Row
  <1>3. NoRow \notin Row
    BY <1>1, <1>2
  <1> QED
    BY <1>3 DEF Row

\* Each of the three ways to write next_attempt_at leaves one next attempt per
\* event, and an order on what is due.
LEMMA Scheduled ==
  ASSUME TypeOK, NEW e \in Events, Now(e) \/ Later(e) \/ Never(e)
  PROVE  /\ due' \in SUBSET Events
         /\ waiting' \in SUBSET (Events \ due')
         /\ older' \in SUBSET (due' \X due')
         /\ (due \cup waiting) \ {e} \subseteq due' \cup waiting'
         /\ Now(e) \/ Later(e) => e \in due' \cup waiting'
  <1>1. /\ due \subseteq Events
        /\ waiting \subseteq Events \ due
        /\ older \subseteq due \X due
    BY DEF TypeOK
  <1>2. Without(e) \subseteq (due \ {e}) \X (due \ {e})
    BY <1>1 DEF Without
  <1>3. CASE Now(e)
    BY <1>1, <1>2, <1>3 DEF Now
  <1>4. CASE Later(e)
    BY <1>1, <1>2, <1>4 DEF Later
  <1>5. CASE Never(e)
    BY <1>1, <1>2, <1>5 DEF Never, Now, Later
  <1> QED
    BY <1>3, <1>4, <1>5
-----------------------------------------------------------------------------
(* The business and the integrations screen *)

\* A new row nobody has loaded, taken or delivered.
LEMMA PublishNewKeeps ==
  ASSUME LedgerInv, NEW e \in Events, PublishNew(e)
  PROVE  LedgerInv'
  <1> USE DEF LedgerInv
  <1>1. /\ e \notin Recorded /\ MaxPayload \in Nat /\ MaxPayload > 0
        /\ event' = [event EXCEPT ![e] =
             [status |-> "pendiente", attempts |-> 0, payload |-> 1]]
        /\ Now(e)
        /\ UNCHANGED <<pass, received>>
    BY LimitsGiven DEF PublishNew
  <1>2. [status |-> "pendiente", attempts |-> 0, payload |-> 1] \in Row
    BY <1>1 DEF Row, EventStatus
  <1>3. /\ event' \in [Events -> Row \cup {NoRow}]
        /\ Recorded' = Recorded \cup {e}
        /\ event'[e].status = "pendiente"
        /\ \A x \in Events \ {e} : event'[x] = event[x]
    BY <1>1, <1>2, RowsWritten DEF TypeOK, Recorded
  <1>4. TypeOK'
    BY <1>1, <1>3, Scheduled DEF TypeOK
  <1>5. PassHonest'
    BY <1>1, <1>3 DEF PassHonest
  <1>6. DeliveredWasTaken'
    BY <1>1, <1>3 DEF DeliveredWasTaken
  <1>7. PendingIsScheduled'
    BY <1>1, <1>3, Scheduled DEF PendingIsScheduled, Pending
  <1> QED
    BY <1>4, <1>5, <1>6, <1>7

\* A row on record whose columns are written and whose next attempt is set.
LEMMA RowKeeps ==
  ASSUME LedgerInv, NEW e \in Recorded, NEW row \in Row,
         event' = [event EXCEPT ![e] = row],
         Now(e) \/ Later(e) \/ Never(e),
         row.status = "entregado" => received[e] # {},
         Never(e) => row.status # "pendiente"
  PROVE  /\ event' \in [Events -> Row \cup {NoRow}]
         /\ due' \in SUBSET Events
         /\ waiting' \in SUBSET (Events \ due')
         /\ older' \in SUBSET (due' \X due')
         /\ Recorded' = Recorded
         /\ PendingIsScheduled'
         /\ \A x \in Recorded : event'[x].status = "entregado" => received[x] # {}
  <1> USE DEF LedgerInv
  <1>1. e \in Events
    BY DEF Recorded
  <1>2. /\ event' \in [Events -> Row \cup {NoRow}]
        /\ event'[e] = row
        /\ \A x \in Events \ {e} : event'[x] = event[x]
    BY <1>1 DEF TypeOK
  <1>3. Recorded' = Recorded
    BY <1>1, <1>2, RowsWritten DEF Recorded
  <1>4. /\ due' \in SUBSET Events
        /\ waiting' \in SUBSET (Events \ due')
        /\ older' \in SUBSET (due' \X due')
        /\ (due \cup waiting) \ {e} \subseteq due' \cup waiting'
        /\ Now(e) \/ Later(e) => e \in due' \cup waiting'
    BY <1>1, Scheduled
  <1>5. Pending' \subseteq Pending \cup {e}
    BY <1>2, <1>3 DEF Pending, Recorded
  <1>6. Never(e) => e \notin Pending'
    BY <1>2 DEF Pending
  <1>7. PendingIsScheduled'
    BY <1>4, <1>5, <1>6 DEF PendingIsScheduled
  <1>8. \A x \in Recorded : event'[x].status = "entregado" => received[x] # {}
    BY <1>2 DEF DeliveredWasTaken, Recorded
  <1> QED
    BY <1>2, <1>3, <1>4, <1>7, <1>8

\* Publishing again, retrying and abandoning write one row of the ledger, and
\* no pass.
LEMMA PersonKeeps ==
  ASSUME LedgerInv, NEW e \in Events,
         PublishAgain(e) \/ retry_now(e) \/ abandon(e)
  PROVE  LedgerInv'
  <1> USE DEF LedgerInv
  <1>1. e \in Recorded /\ event[e] \in Row /\ UNCHANGED <<pass, received>>
    BY DEF PublishAgain, retry_now, abandon, Recorded, TypeOK
  <1>2. \E row \in Row :
          /\ event' = [event EXCEPT ![e] = row]
          /\ Now(e) \/ Never(e)
          /\ row.status # "entregado"
          /\ Never(e) => row.status # "pendiente"
    <2>1. CASE PublishAgain(e)
      <3> DEFINE q == event[e].payload + 1
                 row == [event[e] EXCEPT !.status = "pendiente", !.payload = q]
      <3>1. event[e].payload \in 1 .. MaxPayload /\ event[e].payload < MaxPayload
        BY <1>1, <2>1 DEF PublishAgain, Row
      <3>2. q \in 1 .. MaxPayload
        BY <3>1, LimitsGiven
      <3>3. row \in Row /\ row.status = "pendiente"
        BY <1>1, <3>2, RowsWritten DEF Row, EventStatus
      <3>4. event' = [event EXCEPT ![e] = row] /\ Now(e)
        BY <2>1 DEF PublishAgain, Rescheduled
      <3>5. ~Never(e)
        BY <3>4 DEF Now, Never
      <3> QED
        BY <3>3, <3>4, <3>5
    <2>2. CASE retry_now(e)
      <3> DEFINE row == [event[e] EXCEPT !.status = "pendiente", !.attempts = 0]
      <3>1. row \in Row /\ row.status = "pendiente"
        BY <1>1, RowsWritten DEF Row, EventStatus
      <3>2. event' = [event EXCEPT ![e] = row] /\ Now(e)
        BY <2>2 DEF retry_now, Rescheduled
      <3>3. ~Never(e)
        BY <3>2 DEF Now, Never
      <3> QED
        BY <3>1, <3>2, <3>3
    <2>3. CASE abandon(e)
      <3> DEFINE row == [event[e] EXCEPT !.status = "descartado"]
      <3>1. row \in Row /\ row.status = "descartado"
        BY <1>1, RowsWritten DEF Row, EventStatus
      <3>2. event' = [event EXCEPT ![e] = row] /\ Never(e)
        BY <2>3 DEF abandon
      <3> QED
        BY <3>1, <3>2
    <2> QED BY <2>1, <2>2, <2>3
  <1>3. /\ event' \in [Events -> Row \cup {NoRow}]
        /\ due' \in SUBSET Events
        /\ waiting' \in SUBSET (Events \ due')
        /\ older' \in SUBSET (due' \X due')
        /\ Recorded' = Recorded
        /\ PendingIsScheduled'
        /\ \A x \in Recorded : event'[x].status = "entregado" => received[x] # {}
    BY <1>1, <1>2, RowKeeps
  <1>4. TypeOK'
    BY <1>1, <1>3 DEF TypeOK
  <1>5. PassHonest'
    BY <1>1, <1>3 DEF PassHonest
  <1>6. DeliveredWasTaken'
    BY <1>1, <1>3 DEF DeliveredWasTaken
  <1> QED
    BY <1>3, <1>4, <1>5, <1>6

\* A delay that ends changes the schedule only.
LEMMA ElapseKeeps ==
  ASSUME LedgerInv, NEW e \in Events, Elapse(e)
  PROVE  LedgerInv'
  <1> USE DEF LedgerInv
  <1>1. Now(e) /\ UNCHANGED <<event, pass, received>>
    BY DEF Elapse
  <1>2. Recorded' = Recorded /\ Pending' = Pending
    BY <1>1 DEF Recorded, Pending
  <1>3. TypeOK' /\ PendingIsScheduled'
    BY <1>1, <1>2, Scheduled DEF TypeOK, PendingIsScheduled
  <1>4. PassHonest' /\ DeliveredWasTaken'
    BY <1>1, <1>2 DEF PassHonest, DeliveredWasTaken
  <1> QED
    BY <1>3, <1>4

-----------------------------------------------------------------------------
(* The pass *)

\* What a pass may do with itself and with the corporate system, the ledger
\* left as it is.
LEMMA PassKeeps ==
  ASSUME LedgerInv, NEW w \in Workers, NEW k \in Pass,
         UNCHANGED <<event, due, older, waiting>>,
         pass' = [pass EXCEPT ![w] = k],
         received' \in [Events -> SUBSET (1 .. MaxPayload)],
         \A x \in Events : received[x] \subseteq received'[x],
         \A load \in k.todo : load.event \in Recorded,
         k.sent # None =>
           /\ k.sent.load.event \in Recorded
           /\ Delivered(k.sent.answer) => received'[k.sent.load.event] # {}
  PROVE  LedgerInv'
  <1> USE DEF LedgerInv
  <1>1. Recorded' = Recorded /\ Pending' = Pending /\ Recorded \subseteq Events
    BY DEF Recorded, Pending
  <1>2. /\ pass' \in [Workers -> Pass]
        /\ pass'[w] = k
        /\ \A v \in Workers \ {w} : pass'[v] = pass[v]
    BY DEF TypeOK
  <1>3. TypeOK'
    BY <1>2 DEF TypeOK
  <1>4. PassHonest'
    <2> SUFFICES ASSUME NEW v \in Workers
                 PROVE  /\ \A load \in pass'[v].todo : load.event \in Recorded
                        /\ pass'[v].sent # None =>
                             /\ pass'[v].sent.load.event \in Recorded
                             /\ Delivered(pass'[v].sent.answer)
                                  => received'[pass'[v].sent.load.event] # {}
      BY <1>1 DEF PassHonest, Delivered
    <2>1. CASE v = w
      BY <1>2, <2>1
    <2>2. CASE v # w
      BY <1>1, <1>2, <2>2 DEF PassHonest
    <2> QED BY <2>1, <2>2
  <1>5. DeliveredWasTaken'
    BY <1>1 DEF DeliveredWasTaken
  <1>6. PendingIsScheduled'
    BY <1>1 DEF PendingIsScheduled
  <1> QED
    BY <1>3, <1>4, <1>5, <1>6

\* A pass lists rows of the ledger.
LEMMA BeginPassKeeps ==
  ASSUME LedgerInv, NEW w \in Workers, BeginPass(w)
  PROVE  LedgerInv'
  <1> USE DEF LedgerInv
  <1> DEFINE list == {[event |-> e, attempts |-> event[e].attempts,
                       payload |-> event[e].payload] : e \in due_events}
             k == [todo |-> list, sent |-> None]
  <1>1. due_events \subseteq Pending
    BY DEF due_events
  <1>2. \A e \in due_events : e \in Events /\ e \in Recorded /\ event[e] \in Row
    BY <1>1 DEF Pending, Recorded, TypeOK
  <1>3. list \in SUBSET Loaded /\ \A load \in list : load.event \in Recorded
    BY <1>2 DEF Row, Loaded
  <1>4. k \in Pass /\ k.todo = list /\ k.sent = None
    BY <1>3 DEF Pass
  <1>5. pass' = [pass EXCEPT ![w] = k]
    <2>1. pass[w] = [todo |-> {}, sent |-> None]
      BY DEF BeginPass, Idle
    <2>2. pass' = [pass EXCEPT ![w] = [pass[w] EXCEPT !.todo = list]]
      BY DEF BeginPass
    <2>3. ASSUME NEW l PROVE [pass[w] EXCEPT !.todo = l] = [todo |-> l, sent |-> None]
      BY <2>1
    <2>4. [pass[w] EXCEPT !.todo = list] = k
      BY <2>3
    <2> QED BY <2>2, <2>4
  <1>6. UNCHANGED <<event, due, older, waiting, received>>
    BY DEF BeginPass
  <1> HIDE DEF list, k
  <1> QED
    BY <1>3, <1>4, <1>5, <1>6, PassKeeps DEF TypeOK

\* Going past a connector without URL, and being killed, only shorten the list.
LEMMA ShorterKeeps ==
  ASSUME LedgerInv, NEW w \in Workers, Skip(w) \/ Kill(w)
  PROVE  LedgerInv'
  <1> USE DEF LedgerInv
  <1>1. pass[w] \in Pass
    BY DEF TypeOK
  <1>2. PICK k \in Pass : /\ pass' = [pass EXCEPT ![w] = k]
                          /\ k.todo \subseteq pass[w].todo
                          /\ k.sent = None
    <2>1. CASE Skip(w)
      <3>1. PICK load \in pass[w].todo : pass' = [pass EXCEPT ![w].todo = @ \ {load}]
        BY <2>1 DEF Skip
      <3> DEFINE k == [pass[w] EXCEPT !.todo = @ \ {load}]
      <3>2. k \in Pass /\ k.todo \subseteq pass[w].todo /\ k.sent = pass[w].sent
        BY <1>1 DEF Pass
      <3>3. pass' = [pass EXCEPT ![w] = k]
        BY <3>1
      <3>4. pass[w].sent = None
        BY <2>1 DEF Skip
      <3> HIDE DEF k
      <3> QED
        BY <3>2, <3>3, <3>4
    <2>2. CASE Kill(w)
      <3>1. Idle \in Pass /\ Idle.todo = {} /\ Idle.sent = None
        BY DEF Idle, Pass
      <3>2. pass' = [pass EXCEPT ![w] = Idle]
        BY <2>2 DEF Kill
      <3> QED
        BY <3>1, <3>2
    <2> QED BY <2>1, <2>2
  <1>3. UNCHANGED <<event, due, older, waiting, received>>
    BY DEF Skip, Kill
  <1>4. \A load \in k.todo : load.event \in Recorded
    BY <1>2 DEF PassHonest
  <1> QED
    BY <1>2, <1>3, <1>4, PassKeeps DEF TypeOK

\* What goes out was loaded from the ledger, and "ok" means it was taken.
LEMMA PostKeeps ==
  ASSUME LedgerInv, NEW w \in Workers, Post(w)
  PROVE  LedgerInv'
  <1> USE DEF LedgerInv
  <1>1. pass[w] \in Pass
    BY DEF TypeOK
  <1>2. PICK load \in pass[w].todo, answer \in Answer, taken \in BOOLEAN :
          /\ answer = "ok" => taken
          /\ pass' = [pass EXCEPT ![w] = [todo |-> pass[w].todo \ {load},
                                          sent |-> [load |-> load, answer |-> answer]]]
          /\ received' =
               IF taken THEN [received EXCEPT ![load.event] = @ \cup {load.payload}]
                        ELSE received
    BY DEF Post
  <1> DEFINE s == [load |-> load, answer |-> answer]
             k == [todo |-> pass[w].todo \ {load}, sent |-> s]
  <1>3. /\ load \in Loaded /\ load.event \in Recorded
        /\ load.event \in Events /\ load.payload \in 1 .. MaxPayload
    BY <1>1 DEF Pass, PassHonest, Loaded
  <1>4. s \in Sent /\ s.load = load /\ s.answer = answer
    BY <1>3 DEF Sent
  <1>5. k \in Pass /\ k.todo = pass[w].todo \ {load} /\ k.sent = s
    BY <1>1, <1>4 DEF Pass
  <1>6. received' \in [Events -> SUBSET (1 .. MaxPayload)]
    BY <1>2, <1>3 DEF TypeOK
  <1>7. /\ \A x \in Events : received[x] \subseteq received'[x]
        /\ taken => received'[load.event] # {}
    BY <1>2, <1>3 DEF TypeOK
  <1>8. \A l \in k.todo : l.event \in Recorded
    BY <1>5 DEF PassHonest
  <1>9. /\ pass' = [pass EXCEPT ![w] = k]
        /\ UNCHANGED <<event, due, older, waiting>>
    BY <1>2 DEF Post
  <1>10. Delivered(k.sent.answer) => received'[k.sent.load.event] # {}
    BY <1>2, <1>4, <1>5, <1>7 DEF Delivered
  <1> HIDE DEF k, s
  <1> QED
    BY <1>3, <1>4, <1>5, <1>6, <1>7, <1>8, <1>9, <1>10, PassKeeps

\* What a pass writes when it records an answer: the status of a settled event,
\* or of a retried one only the attempts.
LEMMA RecordWrites ==
  ASSUME LedgerInv, NEW w \in Workers, Record(w),
         NEW load, load = pass[w].sent.load
  PROVE  \E row \in Row :
           /\ event' = [event EXCEPT ![load.event] = row]
           /\ Later(load.event) \/ Never(load.event)
           /\ row.status = "entregado" =>
                \/ event[load.event].status = "entregado"
                \/ Delivered(pass[w].sent.answer)
           /\ Never(load.event) => row.status # "pendiente"
           /\ row.status = "pendiente" => event[load.event].status = "pendiente"
  <1> USE DEF LedgerInv
  <1>1. /\ pass[w].sent # None /\ pass[w].sent \in Sent
        /\ load \in Loaded /\ load.event \in Recorded
    BY DEF Record, TypeOK, Pass, Sent, PassHonest
  <1> DEFINE e == load.event
             n == load.attempts + 1
  <1>2. n \in Nat /\ e \in Events /\ event[e] \in Row
    BY <1>1 DEF Loaded, Recorded, TypeOK
  <1>3. ASSUME NEW st \in {"entregado", "fallido"}, event' = Settle(load, st), Never(e),
               st = "entregado" => Delivered(pass[w].sent.answer)
        PROVE  \E row \in Row :
                 /\ event' = [event EXCEPT ![e] = row]
                 /\ Later(e) \/ Never(e)
                 /\ row.status = "entregado" =>
                      \/ event[e].status = "entregado"
                      \/ Delivered(pass[w].sent.answer)
                 /\ Never(e) => row.status # "pendiente"
                 /\ row.status = "pendiente" => event[e].status = "pendiente"
    <2> DEFINE row == [event[e] EXCEPT !.status = st, !.attempts = n]
    <2>1. row \in Row /\ row.status = st
      BY <1>2, RowsWritten DEF Row, EventStatus
    <2>2. event' = [event EXCEPT ![e] = row]
      BY <1>2, <1>3 DEF Settle, TypeOK
    <2> HIDE DEF row
    <2> QED
      BY <1>3, <2>1, <2>2
  <1>4. CASE Delivered(pass[w].sent.answer) /\ event' = Settle(load, "entregado") /\ Never(e)
    BY <1>3, <1>4
  <1>5. CASE event' = Settle(load, "fallido") /\ Never(e)
    BY <1>3, <1>5
  <1>6. CASE event' = Retried(load) /\ Later(e)
    <2> DEFINE row == [event[e] EXCEPT !.attempts = n]
    <2>1. row \in Row /\ row.status = event[e].status
      BY <1>2, RowsWritten DEF Row
    <2>2. event' = [event EXCEPT ![e] = row]
      BY <1>2, <1>6 DEF Retried
    <2>3. ~Never(e)
      BY <1>6 DEF Later, Never
    <2> HIDE DEF row
    <2> QED
      BY <1>6, <2>1, <2>2, <2>3
  <1> QED
    BY <1>4, <1>5, <1>6 DEF Record

\* An answer is recorded on the row it is about.
LEMMA RecordKeeps ==
  ASSUME LedgerInv, NEW w \in Workers, Record(w)
  PROVE  LedgerInv'
  <1> USE DEF LedgerInv
  <1> DEFINE load == pass[w].sent.load
             e == load.event
  <1>1. /\ pass[w] \in Pass /\ pass[w].sent # None /\ e \in Recorded
        /\ Delivered(pass[w].sent.answer) => received[e] # {}
    BY DEF Record, TypeOK, PassHonest
  <1>2. event[e].status = "entregado" => received[e] # {}
    BY <1>1 DEF DeliveredWasTaken
  <1>3. PICK row \in Row :
          /\ event' = [event EXCEPT ![e] = row]
          /\ Later(e) \/ Never(e)
          /\ row.status = "entregado" =>
               event[e].status = "entregado" \/ Delivered(pass[w].sent.answer)
          /\ Never(e) => row.status # "pendiente"
    BY RecordWrites
  <1>4. /\ event' \in [Events -> Row \cup {NoRow}]
        /\ due' \in SUBSET Events
        /\ waiting' \in SUBSET (Events \ due')
        /\ older' \in SUBSET (due' \X due')
        /\ Recorded' = Recorded
        /\ PendingIsScheduled'
        /\ \A x \in Recorded : event'[x].status = "entregado" => received[x] # {}
    BY <1>1, <1>2, <1>3, RowKeeps
  <1>5. pass' = [pass EXCEPT ![w].sent = None] /\ received' = received
    BY DEF Record, Advanced
  <1>6. /\ pass' \in [Workers -> Pass]
        /\ pass'[w].todo = pass[w].todo /\ pass'[w].sent = None
        /\ \A v \in Workers \ {w} : pass'[v] = pass[v]
    BY <1>1, <1>5 DEF TypeOK, Pass
  <1>7. TypeOK'
    BY <1>4, <1>5, <1>6 DEF TypeOK
  <1>8. PassHonest'
    <2> SUFFICES ASSUME NEW v \in Workers
                 PROVE  /\ \A l \in pass'[v].todo : l.event \in Recorded
                        /\ pass'[v].sent # None =>
                             /\ pass'[v].sent.load.event \in Recorded
                             /\ Delivered(pass'[v].sent.answer)
                                  => received[pass'[v].sent.load.event] # {}
      BY <1>4, <1>5 DEF PassHonest, Delivered
    <2>1. CASE v = w
      BY <1>6, <2>1 DEF PassHonest
    <2>2. CASE v # w
      BY <1>6, <2>2 DEF PassHonest
    <2> QED BY <2>1, <2>2
  <1>9. DeliveredWasTaken'
    BY <1>4, <1>5 DEF DeliveredWasTaken
  <1> QED
    BY <1>4, <1>7, <1>8, <1>9

-----------------------------------------------------------------------------
(* The theorems *)

LEMMA LedgerInductive == Spec => []LedgerInv
  <1>1. Init => LedgerInv
    <2> SUFFICES ASSUME Init PROVE LedgerInv
      OBVIOUS
    <2>1. Recorded = {} /\ Pending = {}
      BY DEF Init, Recorded, Pending
    <2>2. Idle \in Pass /\ Idle.todo = {} /\ Idle.sent = None
      BY DEF Idle, Pass
    <2>3. TypeOK
      BY <2>2 DEF Init, TypeOK
    <2>4. PassHonest
      BY <2>2 DEF Init, PassHonest
    <2> QED
      BY <2>1, <2>3, <2>4 DEF LedgerInv, DeliveredWasTaken, PendingIsScheduled
  <1>2. LedgerInv /\ [Next]_vars => LedgerInv'
    <2> SUFFICES ASSUME LedgerInv, [Next]_vars PROVE LedgerInv'
      OBVIOUS
    <2>1. CASE UNCHANGED vars
      BY <2>1 DEF vars, LedgerInv, TypeOK, PassHonest, DeliveredWasTaken, PendingIsScheduled,
                  Recorded, Pending, Delivered
    <2>2. ASSUME NEW e \in Events,
                 Elapse(e) \/ PublishNew(e) \/ PublishAgain(e) \/ retry_now(e) \/ abandon(e)
          PROVE  LedgerInv'
      BY <2>2, ElapseKeeps, PublishNewKeeps, PersonKeeps
    <2>3. ASSUME NEW w \in Workers,
                 BeginPass(w) \/ Skip(w) \/ Post(w) \/ Record(w) \/ Kill(w)
          PROVE  LedgerInv'
      BY <2>3, BeginPassKeeps, ShorterKeeps, PostKeeps, RecordKeeps
    <2> QED
      BY <2>1, <2>2, <2>3 DEF Next
  <1> QED
    BY <1>1, <1>2, PTL DEF Spec

\* Every reachable state of the ledger, its schedule and its passes is typed:
\* an event has one next attempt.
THEOREM LedgerTyped == Spec => []TypeOK
  BY LedgerInductive, PTL DEF LedgerInv

\* However many passes overlap, die or lose answers, an event the ledger calls
\* delivered was taken by the corporate system.
THEOREM NoFalseDelivery == Spec => []DeliveredWasTaken
  BY LedgerInductive, PTL DEF LedgerInv

\* Whoever wrote its row last, what is pending has a next attempt.
THEOREM NeverUnscheduled == Spec => []PendingIsScheduled
  BY LedgerInductive, PTL DEF LedgerInv

\* No pass puts a settled event back in the queue.
THEOREM SettledStays == Spec => SettledByPass
  <1> DEFINE Step ==
        \A w \in Workers : \A e \in Recorded \ Pending :
          (Record(w) /\ pass[w].sent.load.event = e) => event'[e].status # "pendiente"
  <1>1. LedgerInv /\ [Next]_vars => [Step]_vars
    <2> SUFFICES ASSUME LedgerInv, NEW w \in Workers, NEW e \in Recorded \ Pending,
                        Record(w), pass[w].sent.load.event = e
                 PROVE  event'[e].status # "pendiente"
      OBVIOUS
    <2>1. PICK row \in Row :
            /\ event' = [event EXCEPT ![e] = row]
            /\ row.status = "pendiente" => event[e].status = "pendiente"
      BY RecordWrites
    <2>2. e \in Events /\ event[e].status # "pendiente"
      BY DEF Pending, Recorded
    <2> QED
      BY <2>1, <2>2 DEF LedgerInv, TypeOK
  <1> QED
    BY <1>1, LedgerInductive, PTL DEF Spec, SettledByPass
=============================================================================
