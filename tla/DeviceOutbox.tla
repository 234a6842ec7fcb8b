---------------------------- MODULE DeviceOutbox ----------------------------
(***************************************************************************)
(* The outbox of a phone (android/core/sync/.../Outbox.kt) against the     *)
(* ledger of the server (push in api/sync.py, push_operation in            *)
(* sync/service.py), with a network between them that loses and delays.    *)
(*                                                                         *)
(* The outbox is pure code: the worker that calls it, persists what it     *)
(* returns and makes the HTTP calls is outside the repository, and is      *)
(* modelled from what Outbox.kt says of it.  It can be killed at any       *)
(* moment.  The server runs one session for each call it receives, so a    *)
(* call the phone gave up on may still run beside the one that repeats it. *)
(*                                                                         *)
(* An operation is a number, in the order of capture.                      *)
(***************************************************************************)
EXTENDS Naturals, FiniteSets, FiniteSetsExt

CONSTANTS
  Ops,            \* operations, numbered as they are captured
  Rank,           \* [Ops -> 0 .. 4]: UploadPriority of each
  Size,           \* [Ops -> Nat]: sizeBytes of each
  Needs,          \* [Ops -> SUBSET Ops]: what the server must have applied first
  Calls,          \* HTTP calls that may exist at one time
  maxOperations,  \* operations in a batch
  Budgets,        \* transfer budgets the worker may ask a batch to keep: maxBytes
  maxAttempts,    \* RetryPolicy.maxAttempts
  None

ASSUME OpsNumbered   == Ops \subseteq Nat
ASSUME RanksGiven    == Rank \in [Ops -> 0 .. 4]
ASSUME SizesGiven    == Size \in [Ops -> Nat]
ASSUME NeedsGiven    == Needs \in [Ops -> SUBSET Ops]
ASSUME NoneIsNoCall  == None \notin Calls
ASSUME LimitsGiven   == /\ maxOperations \in Nat \ {0}
                        /\ Budgets \subseteq Nat \ {0}
                        /\ maxAttempts \in Nat \ {0}

VARIABLES
  captured,   \* operations the technician recorded
  entries,    \* the outbox: what it holds of each operation
  network,    \* NetworkQuality
  current,    \* the call the worker waits for, None when it waits for none
  calls,      \* every call: its batch and how far the server got with it
  ledger,     \* sync_operation_log: the recorded outcome of each operation
  effects     \* how many times each operation was applied

vars == <<captured, entries, network, current, calls, ledger, effects>>

OperationState == {"PENDING", "IN_FLIGHT", "PARKED"}
NetworkQuality == {"NONE", "CONSTRAINED", "UNMETERED"}

\* `backoff`: notBeforeMillis is still ahead.
Entry == [state: OperationState, attempts: 0 .. maxAttempts, backoff: BOOLEAN]
Absent == [state |-> "absent"]
Fresh == [state |-> "PENDING", attempts |-> 0, backoff |-> FALSE]

\* A session's outcomes: `yes` and `no` were answered so far, `new` of them are
\* its own, in nobody's ledger until it commits.
Call ==
  [stage: {"free", "sent", "running", "answered", "failed"},
   batch: SUBSET Ops, yes: SUBSET Ops, no: SUBSET Ops, new: SUBSET Ops]
FreeCall ==
  [stage |-> "free", batch |-> {}, yes |-> {}, no |-> {}, new |-> {}]

In(state) == {op \in Ops : entries[op].state = state}
Held == {op \in Ops : entries[op] # Absent}

\* The outbox with some of its entries changed.
Updated(ids, Change(_)) ==
  [op \in Ops |-> IF op \in ids /\ entries[op] # Absent
                    THEN Change(entries[op]) ELSE entries[op]]

-----------------------------------------------------------------------------
Init ==
  /\ captured = {}
  /\ entries = [op \in Ops |-> Absent]
  /\ network = "NONE"
  /\ current = None
  /\ calls = [c \in Calls |-> FreeCall]
  /\ ledger = [op \in Ops |-> "none"]
  /\ effects = [op \in Ops |-> 0]

-----------------------------------------------------------------------------
(* The phone *)

\* `enqueue`: a new capture, or one the capture layer saves again.  An id the
\* outbox holds changes nothing; one it already delivered comes back.
enqueue(op) ==
  /\ entries[op] = Absent
  /\ \A earlier \in Ops : earlier < op => earlier \in captured
  /\ captured' = captured \cup {op}
  /\ entries' = [entries EXCEPT ![op] = Fresh]
  /\ UNCHANGED <<network, current, calls, ledger, effects>>

\* Mutant: every connection is taken for a metered one.
AlwaysMetered(op) == network # "NONE" /\ Rank[op] <= 1

\* `NetworkQuality.allows`
allows(op) ==
  CASE network = "NONE"        -> FALSE
    [] network = "CONSTRAINED" -> Rank[op] <= 1
    [] network = "UNMETERED"   -> TRUE

\* `isReady`
Ready == {op \in In("PENDING") : ~entries[op].backoff /\ allows(op)}

\* The upload order: by band, then by age.
Before(a, b) == Rank[a] < Rank[b] \/ (Rank[a] = Rank[b] /\ a < b)

\* `nextBatch`: the first ready operation, whatever its size, and those after
\* it as long as the count and the transfer budget last.
nextBatch(maxBytes) ==
  {op \in Ready :
     LET ahead == {a \in Ready : Before(a, op)} IN
     ahead # {} =>
       /\ Cardinality(ahead) < maxOperations
       /\ MapThenSumSet(LAMBDA a : Size[a], ahead \cup {op}) <= maxBytes}

\* The worker picks a batch, marks it in flight, saves that and calls.
Send(c, batch) ==
  /\ current = None
  /\ batch # {}
  /\ calls[c].stage = "free"
  /\ entries' = Updated(batch, LAMBDA e : [e EXCEPT !.state = "IN_FLIGHT"])
  /\ calls' = [calls EXCEPT ![c] = [FreeCall EXCEPT !.stage = "sent", !.batch = batch]]
  /\ current' = c
  /\ UNCHANGED <<captured, network, ledger, effects>>

\* Mutant: an operation whose budget ran out is dropped.
Dropped(ids) ==
  [op \in Ops |->
     IF op \in ids /\ entries[op] # Absent
       THEN IF entries[op].attempts + 1 < maxAttempts
              THEN [state |-> "PENDING", attempts |-> entries[op].attempts + 1,
                    backoff |-> TRUE]
              ELSE Absent
       ELSE entries[op]]

\* Mutant: one attempt more than the budget.
OneMore(ids) ==
  Updated(ids, LAMBDA e :
    IF e.attempts < maxAttempts
      THEN [state |-> "PENDING", attempts |-> e.attempts + 1, backoff |-> TRUE]
      ELSE [e EXCEPT !.state = "PARKED", !.attempts = e.attempts + 1])

\* Mutant: the first failure parks.
ParkedAtOnce(ids) == Updated(ids, LAMBDA e : [e EXCEPT !.state = "PARKED"])

\* `retryLater`: back to pending after a wait, or parked when the budget is out.
retryLater(ids) ==
  Updated(ids, LAMBDA e :
    IF e.attempts + 1 < maxAttempts
      THEN [state |-> "PENDING", attempts |-> e.attempts + 1, backoff |-> TRUE]
      ELSE [e EXCEPT !.state = "PARKED", !.attempts = e.attempts + 1])

\* No answer in time, a connection cut or a 5xx: the worker gives the call up.
GiveUp(c) ==
  /\ current = c
  /\ entries' = retryLater(calls[c].batch)
  /\ current' = None
  /\ UNCHANGED <<captured, network, calls, ledger, effects>>

\* Mutant: everything in an answered batch leaves the outbox.
WholeBatch(c) == calls[c].batch

\* `acknowledge` takes what the server confirmed.
Confirmed(c) == calls[c].yes

\* The answer arrives: what was confirmed leaves the outbox (`acknowledge`) and
\* what was rejected waits for a person (`park`).
Answered(c) ==
  /\ current = c
  /\ calls[c].stage = "answered"
  /\ entries' = [op \in Ops |->
       CASE op \in Confirmed(c) -> Absent
         [] op \in calls[c].no \ Confirmed(c) /\ entries[op] # Absent ->
              [entries[op] EXCEPT !.state = "PARKED"]
         [] OTHER -> entries[op]]
  /\ calls' = [calls EXCEPT ![c] = FreeCall]
  /\ current' = None
  /\ UNCHANGED <<captured, network, ledger, effects>>

\* The system kills the worker.
Kill ==
  /\ current # None
  /\ current' = None
  /\ UNCHANGED <<captured, entries, network, calls, ledger, effects>>

\* A worker that starts and finds operations in flight that nobody waits for
\* treats them as failed: no operation of the outbox does it by itself.
Restart ==
  /\ current = None
  /\ In("IN_FLIGHT") # {}
  /\ entries' = retryLater(In("IN_FLIGHT"))
  /\ UNCHANGED <<captured, network, current, calls, ledger, effects>>

Elapse(op) ==
  /\ op \in In("PENDING")
  /\ entries[op].backoff
  /\ entries' = [entries EXCEPT ![op].backoff = FALSE]
  /\ UNCHANGED <<captured, network, current, calls, ledger, effects>>

\* "Forzar sync": every wait ends now; parked operations stay parked.
expedite ==
  /\ \E op \in In("PENDING") : entries[op].backoff
  /\ entries' = Updated(In("PENDING"), LAMBDA e : [e EXCEPT !.backoff = FALSE])
  /\ UNCHANGED <<captured, network, current, calls, ledger, effects>>

\* A person puts a parked operation back in the queue.
requeue(op) ==
  /\ op \in In("PARKED")
  /\ entries' = [entries EXCEPT ![op] = Fresh]
  /\ UNCHANGED <<captured, network, current, calls, ledger, effects>>

NetworkChange(quality) ==
  /\ network # quality
  /\ network' = quality
  /\ UNCHANGED <<captured, entries, current, calls, ledger, effects>>

-----------------------------------------------------------------------------
(* The server *)

Receive(c) ==
  /\ calls[c].stage = "sent"
  /\ calls' = [calls EXCEPT ![c].stage = "running"]
  /\ UNCHANGED <<captured, entries, network, current, ledger, effects>>

\* The operations of the batch that are still to be looked at, and the first.
Remaining(c) == calls[c].batch \ (calls[c].yes \cup calls[c].no)
IsNext(c, op) == op \in Remaining(c) /\ \A o \in Remaining(c) : o = op \/ Before(op, o)

\* One more outcome in the session's answer (`_outcome`).
Outcome(call, op, accepted) ==
  IF accepted THEN [call EXCEPT !.yes = call.yes \cup {op}]
              ELSE [call EXCEPT !.no = call.no \cup {op}]

\* `already_processed` finds it: the recorded outcome is returned again.
Replay(c, op) ==
  /\ calls[c].stage = "running"
  /\ IsNext(c, op)
  /\ ledger[op] # "none"
  /\ calls' = [calls EXCEPT ![c] =
       Outcome(calls[c], op, ledger[op] = "accepted")]
  /\ UNCHANGED <<captured, entries, network, current, ledger, effects>>

\* The unique key of the ledger: an entry another session has inserted and not
\* committed makes this one wait, and fail once that one commits.
Claimable(c, op) ==
  \A other \in Calls \ {c} :
    calls[other].stage = "running" => op \notin calls[other].new

\* `push_operation` and `apply_operation`: the entry is inserted, and the
\* operation is applied or refused with a reason.  What it builds on must be
\* there: a photo its response, a state the one before it.
Apply(c, op) ==
  /\ calls[c].stage = "running"
  /\ IsNext(c, op)
  /\ ledger[op] = "none"
  /\ Claimable(c, op)
  /\ calls' = [calls EXCEPT ![c] =
       Outcome([calls[c] EXCEPT !.new = calls[c].new \cup {op}], op,
               \A o \in Needs[op] : ledger[o] = "accepted" \/ o \in calls[c].yes)]
  /\ UNCHANGED <<captured, entries, network, current, ledger, effects>>

Commit(c) ==
  LET call == calls[c] IN
  /\ call.stage = "running"
  /\ Remaining(c) = {}
  /\ ledger' = [op \in Ops |->
       CASE op \in call.new \cap call.yes -> "accepted"
         [] op \in call.new \ call.yes    -> "rejected"
         [] OTHER                         -> ledger[op]]
  /\ effects' = [op \in Ops |->
       IF op \in call.new \cap call.yes THEN effects[op] + 1 ELSE effects[op]]
  /\ calls' = [calls EXCEPT ![c].stage = "answered", ![c].new = {}]
  /\ UNCHANGED <<captured, entries, network, current>>

\* An error, a broken key or a killed process: the session rolls back.
Fail(c) ==
  /\ calls[c].stage = "running"
  /\ calls' = [calls EXCEPT ![c] = [FreeCall EXCEPT !.stage = "failed", !.batch = calls[c].batch]]
  /\ UNCHANGED <<captured, entries, network, current, ledger, effects>>

\* A request, or an answer nobody waits for, is lost.
Lose(c) ==
  /\ calls[c].stage \in {"sent", "answered", "failed"}
  /\ current # c
  /\ calls' = [calls EXCEPT ![c] = FreeCall]
  /\ UNCHANGED <<captured, entries, network, current, ledger, effects>>

-----------------------------------------------------------------------------
Next ==
  \/ \E op \in Ops : enqueue(op) \/ Elapse(op) \/ requeue(op)
  \/ \E c \in Calls :
       \/ \E maxBytes \in Budgets : Send(c, nextBatch(maxBytes))
       \/ GiveUp(c) \/ Answered(c)
       \/ Receive(c) \/ Commit(c) \/ Fail(c) \/ Lose(c)
  \/ \E c \in Calls, op \in Ops : Replay(c, op) \/ Apply(c, op)
  \/ Kill \/ Restart \/ expedite
  \/ \E quality \in NetworkQuality : NetworkChange(quality)

Spec == Init /\ [][Next]_vars

Sends(op) ==
  \E c \in Calls, maxBytes \in Budgets :
    op \in nextBatch(maxBytes) /\ Send(c, nextBatch(maxBytes))

\* What the phone and the server keep doing: the worker runs again after it is
\* killed, gives up a call nobody answers, and does not forever miss the moment
\* to send what is next; waits end; the server finishes what it began.
Fairness ==
  /\ \A op \in Ops : WF_vars(Elapse(op))
  /\ \A op \in Ops : SF_vars(Sends(op))
  /\ \A c \in Calls : WF_vars(GiveUp(c)) /\ WF_vars(Lose(c))
  /\ \A c \in Calls :
       WF_vars(Receive(c) \/ Commit(c) \/ \E op \in Ops : Replay(c, op) \/ Apply(c, op))
  /\ SF_vars(Restart)

FairSpec == Spec /\ Fairness

-----------------------------------------------------------------------------
(* Properties *)

TypeOK ==
  /\ captured \in SUBSET Ops
  /\ entries \in [Ops -> Entry \cup {Absent}]
  /\ network \in NetworkQuality
  /\ current \in Calls \cup {None}
  /\ calls \in [Calls -> Call]
  /\ ledger \in [Ops -> {"none", "accepted", "rejected"}]
  /\ effects \in [Ops -> Nat]

\* "Nothing is ever dropped": an operation leaves the outbox only when the
\* server recorded it as accepted, whatever was lost, killed or repeated.
NothingDropped == \A op \in captured \ Held : ledger[op] = "accepted"

\* "Re-sending is safe": a duplicate request is never duplicate data.
AppliedOnce ==
  \A op \in Ops : effects[op] = IF ledger[op] = "accepted" THEN 1 ELSE 0

\* The two together: what the phone let go of took effect, once.
SettledOnce == NothingDropped /\ AppliedOnce

\* What asks for a person's attention deserves it: the server said no, or the
\* retry budget is spent.
ParkedForCause ==
  \A op \in In("PARKED") :
    entries[op].attempts = maxAttempts \/ ledger[op] = "rejected"

\* The detailed protocol delivers as promised.
Promise == INSTANCE Delivery WITH
  held <- Held,
  refused <- {op \in Ops : ledger[op] = "rejected"}
Delivers == Promise!DeliverySpec

\* On a phone that is finally back on a good network, whatever is captured is
\* delivered in the end, or shown to a person: under any transfer budget, with
\* payloads larger than it, once people stop capturing and requeueing ahead.
NothingStuck ==
  /\ <>[](network = "UNMETERED")
  /\ <>[][\A op \in Ops : ~enqueue(op) /\ ~requeue(op)]_vars
  => \A op \in Ops : (op \in Held) ~> (op \notin Held \/ op \in In("PARKED"))

-----------------------------------------------------------------------------
(* What the code says of itself and does not keep *)

\* An operation goes back to the queue "after a human fixed whatever was wrong":
\* the server refuses it only while something it builds on is missing.
RefusedForCause ==
  [][\A c \in Calls : \A op \in calls'[c].no \ calls[c].no :
       \E o \in Needs[op] : ledger[o] # "accepted" /\ o \notin calls[c].yes]_vars
=============================================================================
