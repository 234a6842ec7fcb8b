------------------------- MODULE IntegrationOutbox -------------------------
(***************************************************************************)
(* The transactional outbox towards the corporate systems: the ledger of   *)
(* integrations/service.py, the passes of workers/integration_delivery.py  *)
(* that drain it, and the buttons of the integrations screen.              *)
(*                                                                         *)
(* A pass lists what is due once, in one database session that keeps its   *)
(* objects as they were loaded, and then posts and commits one event at a  *)
(* time.  Celery starts a pass every minute whether or not the last one    *)
(* ended, so several may work on the same events; the columns a pass       *)
(* writes are those that differ from what it loaded.                       *)
(***************************************************************************)
EXTENDS Naturals, FiniteSets

CONSTANTS
  Events,        \* outbound events, by idempotency key
  Configured,    \* events whose connector has a URL
  Workers,       \* passes that may run at the same time
  None,
  MAX_ATTEMPTS,
  BatchSize,     \* integration_batch_size
  MaxPayload     \* bound: times the payload of an event is published

ASSUME ConfiguredEvents == Configured \subseteq Events
ASSUME LimitsGiven ==
  /\ MAX_ATTEMPTS \in Nat \ {0}
  /\ BatchSize \in Nat \ {0}
  /\ MaxPayload \in Nat

VARIABLES
  event,     \* integration_event rows
  due,       \* events whose next_attempt_at has come
  older,     \* the order of next_attempt_at among those
  waiting,   \* events whose next_attempt_at is still ahead
  pass,      \* what each pass has yet to deliver and to record
  received   \* payloads of each event that the corporate system took

vars == <<event, due, older, waiting, pass, received>>

EventStatus == {"pendiente", "entregado", "fallido", "descartado"}
Row == [status: EventStatus, attempts: Nat, payload: 1 .. MaxPayload]
NoRow == [status |-> "none"]

\* An event of a pass, with the columns as the pass loaded them.
Loaded == [event: Events, attempts: Nat, payload: 1 .. MaxPayload]
Answer == {"ok", "retry", "refused"}
Sent == [load: Loaded, answer: Answer]
Idle == [todo |-> {}, sent |-> None]
Pass == [todo: SUBSET Loaded, sent: Sent \cup {None}]

Recorded == {e \in Events : event[e] # NoRow}
Pending == {e \in Recorded : event[e].status = "pendiente"}

-----------------------------------------------------------------------------
(* next_attempt_at: now, later, or null *)

\* Mutant: what is no longer due keeps its place.
KeepsItsPlace(e) == older

Without(e) == {pair \in older : e \notin {pair[1], pair[2]}}

Now(e) == /\ due' = due \cup {e}
          /\ older' = Without(e) \cup ((due \ {e}) \X {e})
          /\ waiting' = waiting \ {e}
Later(e) == /\ due' = due \ {e}
            /\ older' = Without(e)
            /\ waiting' = waiting \cup {e}
Never(e) == /\ due' = due \ {e}
            /\ older' = Without(e)
            /\ waiting' = waiting \ {e}

Init ==
  /\ event = [e \in Events |-> NoRow]
  /\ due = {}
  /\ older = {}
  /\ waiting = {}
  /\ pass = [w \in Workers |-> Idle]
  /\ received = [e \in Events |-> {}]

Elapse(e) ==
  /\ e \in waiting
  /\ Now(e)
  /\ UNCHANGED <<event, pass, received>>

-----------------------------------------------------------------------------
(* The business and the integrations screen *)

\* Mutant: publishing again leaves the next attempt as it is.
NotRescheduled(e) == UNCHANGED <<due, older, waiting>>

\* Any change of an event by the business or a person puts it up for delivery.
Rescheduled(e) == Now(e)

\* `publish` of a key nobody published before.
PublishNew(e) ==
  /\ e \notin Recorded
  /\ MaxPayload > 0
  /\ event' = [event EXCEPT ![e] =
       [status |-> "pendiente", attempts |-> 0, payload |-> 1]]
  /\ Now(e)
  /\ UNCHANGED <<pass, received>>

\* `publish` of a key on record: its payload is replaced and it is up for
\* delivery again, with the attempts it had.  Once delivered nothing happens.
PublishAgain(e) ==
  /\ e \in Recorded
  /\ event[e].status # "entregado"
  /\ event[e].payload < MaxPayload
  /\ event' = [event EXCEPT ![e].status = "pendiente",
                            ![e].payload = event[e].payload + 1]
  /\ Rescheduled(e)
  /\ UNCHANGED <<pass, received>>

retry_now(e) ==
  /\ e \in Recorded
  /\ event[e].status # "entregado"
  /\ event' = [event EXCEPT ![e].status = "pendiente", ![e].attempts = 0]
  /\ Rescheduled(e)
  /\ UNCHANGED <<pass, received>>

abandon(e) ==
  /\ e \in Recorded
  /\ event' = [event EXCEPT ![e].status = "descartado"]
  /\ Never(e)
  /\ UNCHANGED <<pass, received>>

-----------------------------------------------------------------------------
(* The pass *)

\* `due_events`: the oldest that are due, whatever their connector.
due_events ==
  LET open == due \cap Pending
  IN  {e \in open : Cardinality({x \in open : <<x, e>> \in older}) < BatchSize}

\* The list is read once, and every row of it as it is then.  What the limit
\* lets in is modelled; the order inside the batch is left open.
BeginPass(w) ==
  /\ pass[w] = Idle
  /\ due_events # {}
  /\ pass' = [pass EXCEPT ![w].todo =
       {[event |-> e, attempts |-> event[e].attempts, payload |-> event[e].payload] :
          e \in due_events}]
  /\ UNCHANGED <<event, due, older, waiting, received>>

\* A connector without a URL: the event is left as it is, due as it was.
Skip(w) ==
  /\ pass[w].sent = None
  /\ \E load \in pass[w].todo :
       /\ load.event \notin Configured
       /\ pass' = [pass EXCEPT ![w].todo = @ \ {load}]
  /\ UNCHANGED <<event, due, older, waiting, received>>

\* `deliver`: the payload that was loaded goes out.  It may be taken although
\* no answer, or one that makes no sense, comes back.
Post(w) ==
  /\ pass[w].sent = None
  /\ \E load \in pass[w].todo, answer \in Answer, taken \in BOOLEAN :
       /\ load.event \in Configured
       /\ answer = "ok" => taken
       /\ pass' = [pass EXCEPT ![w] = [todo |-> pass[w].todo \ {load},
                                       sent |-> [load |-> load, answer |-> answer]]]
       /\ received' =
            IF taken THEN [received EXCEPT ![load.event] = @ \cup {load.payload}]
                     ELSE received
  /\ UNCHANGED <<event, due, older, waiting>>

\* Mutant: no answer counts as delivery.
SilenceIsConsent(answer) == answer # "refused"

Delivered(answer) == answer = "ok"

\* Mutant: the row is written whole, as loaded.
WholeRow(load) ==
  [event EXCEPT ![load.event] = [status |-> "pendiente", attempts |-> load.attempts + 1,
                                 payload |-> load.payload]]

\* Mutant: the attempt is not counted.
NotCounted(load) == event

\* A retryable failure sets the status to what it was when loaded, which writes
\* nothing: only the attempts go to the row.
Retried(load) == [event EXCEPT ![load.event].attempts = load.attempts + 1]

\* Delivered and failed write the status too.
Settle(load, status) ==
  [event EXCEPT ![load.event].status = status, ![load.event].attempts = load.attempts + 1]

Exhausted(load, answer) ==
  answer = "refused" \/ load.attempts + 1 >= MAX_ATTEMPTS

\* The pass goes on with the next event, and ends after the last.
Advanced(w) == [pass EXCEPT ![w].sent = None]

\* `mark_delivered` and `mark_failed`, committed event by event.
Record(w) ==
  LET load == pass[w].sent.load
      answer == pass[w].sent.answer
  IN
  /\ pass[w].sent # None
  /\ \/ /\ Delivered(answer)
        /\ event' = Settle(load, "entregado")
        /\ Never(load.event)
     \/ /\ ~Delivered(answer)
        /\ Exhausted(load, answer)
        /\ event' = Settle(load, "fallido")
        /\ Never(load.event)
     \/ /\ ~Delivered(answer)
        /\ ~Exhausted(load, answer)
        /\ event' = Retried(load)
        /\ Later(load.event)
  /\ pass' = Advanced(w)
  /\ UNCHANGED received

\* The task hits its time limit, or its process dies.
Kill(w) ==
  /\ pass' = [pass EXCEPT ![w] = Idle]
  /\ UNCHANGED <<event, due, older, waiting, received>>

-----------------------------------------------------------------------------
Next ==
  \/ \E e \in Events :
       Elapse(e) \/ PublishNew(e) \/ PublishAgain(e) \/ retry_now(e) \/ abandon(e)
  \/ \E w \in Workers :
       BeginPass(w) \/ Skip(w) \/ Post(w) \/ Record(w) \/ Kill(w)

Spec == Init /\ [][Next]_vars

\* A delay ends, a pass starts every minute and gets on with its work.
Fairness ==
  /\ \A e \in Events : WF_vars(Elapse(e))
  /\ \A w \in Workers : WF_vars(BeginPass(w) \/ Skip(w) \/ Post(w) \/ Record(w))

FairSpec == Spec /\ Fairness

-----------------------------------------------------------------------------
(* Properties *)

\* The order of what is due is an order, and an event has one next attempt.
TypeOK ==
  /\ event \in [Events -> Row \cup {NoRow}]
  /\ due \in SUBSET Events
  /\ waiting \in SUBSET (Events \ due)
  /\ older \in SUBSET (due \X due)
  /\ pass \in [Workers -> Pass]
  /\ received \in [Events -> SUBSET (1 .. MaxPayload)]

\* What the ledger calls delivered, the corporate system has: no crash, lost
\* answer or second pass marks an event that nobody took.
DeliveredWasTaken ==
  \A e \in Recorded : event[e].status = "entregado" => received[e] # {}

\* "It can never be silently lost": what is pending is scheduled, whichever
\* passes and people wrote its row last.
PendingIsScheduled ==
  Pending \subseteq due \cup waiting

\* Retries end, and then wait for a person: only a person or the business puts
\* a settled event back in the queue, never a pass that loaded it earlier.
SettledByPass ==
  [][\A w \in Workers : \A e \in Recorded \ Pending :
       (Record(w) /\ pass[w].sent.load.event = e) => event'[e].status # "pendiente"]_vars

\* A pass cut short, and a person's retry: steps that only they explain.
Interrupted(w) == Kill(w) /\ ~Skip(w) /\ ~Record(w)
PutBack(e) == retry_now(e) /\ ~Elapse(e)

\* What is pending on a connector that is configured is delivered in the end or
\* waits for a person, after the last crash and the last time a person puts it
\* back.
Settled ==
  <>[][/\ \A e \in Events : ~PutBack(e)
       /\ \A w \in Workers : ~Interrupted(w)]_vars =>
    \A e \in Configured : (e \in Pending) ~> (e \notin Pending)

(* What the documents say and the code does not keep *)

\* "The newest truth is what should be delivered": an event on record as
\* delivered had the payload that was published last taken.
NewestDelivered ==
  \A e \in Recorded : event[e].status = "entregado" => event[e].payload \in received[e]
=============================================================================
