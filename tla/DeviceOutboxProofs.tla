------------------------- MODULE DeviceOutboxProofs -------------------------
(***************************************************************************)
(* Whatever the network loses, repeats or delays, and whenever the worker  *)
(* or the server is killed: nothing captured is dropped, nothing is        *)
(* applied twice, and the protocol is an implementation of Delivery.  For  *)
(* any number of operations and calls, and any limits.                     *)
(***************************************************************************)
EXTENDS DeviceOutbox, TLAPS

-----------------------------------------------------------------------------
(* The inductive invariant *)

\* An entry that may still be tried has budget left.
BudgetLeft ==
  \A op \in Ops : entries[op] # Absent /\ entries[op].state # "PARKED"
                    => entries[op].attempts < maxAttempts

\* The worker waits for operations the outbox has in flight.
WaitsForItsOwn ==
  current # None =>
    \A op \in calls[current].batch : entries[op] # Absent /\ entries[op].state = "IN_FLIGHT"

\* A session answers about its batch; what it did not insert itself it read in
\* the ledger, and what it inserted is in nobody else's hands.
Honest(call) ==
  /\ call.batch \subseteq captured
  /\ call.yes \subseteq call.batch
  /\ call.no \subseteq call.batch
  /\ call.yes \cap call.no = {}
  /\ call.new \subseteq call.yes \cup call.no
  /\ call.stage # "running" => call.new = {}
  /\ \A op \in call.new : ledger[op] = "none"
  /\ \A op \in call.yes \ call.new : ledger[op] = "accepted"
  /\ \A op \in call.no \ call.new : ledger[op] = "rejected"

CallsHonest == \A c \in Calls : Honest(calls[c])

\* No two sessions insert the same ledger entry.
ClaimsDisjoint ==
  \A c, e \in Calls : c # e => calls[c].new \cap calls[e].new = {}

OutboxInv ==
  /\ TypeOK
  /\ BudgetLeft
  /\ WaitsForItsOwn
  /\ Held \subseteq captured
  /\ CallsHonest
  /\ ClaimsDisjoint
  /\ NothingDropped
  /\ AppliedOnce
  /\ ParkedForCause

-----------------------------------------------------------------------------
(* The outbox's own operations *)

\* An entry the outbox holds is never the absent one.
LEMMA EntriesPresent ==
  /\ Absent \notin Entry
  /\ Fresh \in Entry
  /\ Fresh.state = "PENDING" /\ Fresh.attempts = 0
  /\ Absent.state = "absent"
  /\ \A e \in Entry, st \in OperationState : [e EXCEPT !.state = st] \in Entry
  <1>1. Absent.state \notin OperationState
    BY DEF Absent, OperationState
  <1>2. \A e \in Entry : e.state \in OperationState
    BY DEF Entry
  <1>3. Absent \notin Entry
    BY <1>1, <1>2
  <1>4. 0 \in 0 .. maxAttempts
    BY LimitsGiven
  <1>5. \A e \in Entry, st \in OperationState : [e EXCEPT !.state = st] \in Entry
    BY DEF Entry
  <1>6. Absent.state = "absent"
    BY DEF Absent
  <1> QED
    BY <1>3, <1>4, <1>5, <1>6 DEF Fresh, Entry, OperationState

\* What is held and what is in a given state, element by element.
LEMMA HeldEntries ==
  ASSUME TypeOK, NEW op \in Ops
  PROVE  /\ op \in Held => entries[op] \in Entry
         /\ op \notin Held => entries[op] = Absent
         /\ \A st \in OperationState : op \in In(st) => op \in Held
  BY EntriesPresent DEF TypeOK, Held, In, Absent, OperationState

\* A call that failed leaves its operations in the outbox: pending while there
\* is budget left, parked when it is spent, and every other one as it was.
LEMMA RetriedStays ==
  ASSUME TypeOK, BudgetLeft, NEW ids \in SUBSET Ops,
         \A op \in ids : entries[op] # Absent => entries[op].state # "PARKED"
  PROVE  /\ retryLater(ids) \in [Ops -> Entry \cup {Absent}]
         /\ \A op \in Ops :
              LET e == retryLater(ids)[op] IN
              /\ e = Absent <=> entries[op] = Absent
              /\ op \notin ids => e = entries[op]
              /\ (e # Absent /\ e.state # "PARKED") => e.attempts < maxAttempts
              /\ (op \in ids /\ e # Absent /\ e.state = "PARKED") => e.attempts = maxAttempts
  <1> DEFINE r == retryLater(ids)
  <1>1. r = [op \in Ops |->
              IF op \in ids /\ entries[op] # Absent
                THEN IF entries[op].attempts + 1 < maxAttempts
                       THEN [state |-> "PENDING", attempts |-> entries[op].attempts + 1,
                             backoff |-> TRUE]
                       ELSE [entries[op] EXCEPT !.state = "PARKED",
                                                !.attempts = entries[op].attempts + 1]
                ELSE entries[op]]
    BY DEF retryLater, Updated
  <1> HIDE DEF r
  <1>2. ASSUME NEW op \in Ops
        PROVE  /\ r[op] \in Entry \cup {Absent}
               /\ r[op] = Absent <=> entries[op] = Absent
               /\ op \notin ids => r[op] = entries[op]
               /\ (r[op] # Absent /\ r[op].state # "PARKED") => r[op].attempts < maxAttempts
               /\ (op \in ids /\ r[op] # Absent /\ r[op].state = "PARKED")
                    => r[op].attempts = maxAttempts
    <2>1. CASE op \in ids /\ entries[op] # Absent
      <3>1. /\ entries[op] \in Entry
            /\ entries[op].attempts \in Nat
            /\ entries[op].attempts < maxAttempts
            /\ entries[op].backoff \in BOOLEAN
        BY <2>1, LimitsGiven DEF TypeOK, BudgetLeft, Entry
      <3>2. CASE entries[op].attempts + 1 < maxAttempts
        <4>1. r[op] = [state |-> "PENDING", attempts |-> entries[op].attempts + 1,
                       backoff |-> TRUE]
          BY <1>1, <2>1, <3>2
        <4>2. entries[op].attempts + 1 \in 0 .. maxAttempts
          BY <3>1, <3>2, LimitsGiven
        <4>3. r[op] \in Entry
          BY <4>1, <4>2 DEF Entry, OperationState
        <4>4. r[op].state = "PENDING" /\ r[op].attempts = entries[op].attempts + 1
          BY <4>1
        <4>5. r[op] # Absent
          BY <4>3, EntriesPresent
        <4> QED BY <2>1, <3>2, <4>3, <4>4, <4>5
      <3>3. CASE ~(entries[op].attempts + 1 < maxAttempts)
        <4>1. r[op] = [entries[op] EXCEPT !.state = "PARKED",
                                          !.attempts = entries[op].attempts + 1]
          BY <1>1, <2>1, <3>3
        <4>2. entries[op].attempts + 1 = maxAttempts
          BY <3>1, <3>3, LimitsGiven
        <4>3. maxAttempts \in 0 .. maxAttempts
          BY LimitsGiven
        <4>4. /\ r[op] \in Entry
              /\ r[op].state = "PARKED"
              /\ r[op].attempts = maxAttempts
          BY <3>1, <4>1, <4>2, <4>3 DEF Entry, OperationState
        <4> QED BY <2>1, <4>4, EntriesPresent
      <3> QED BY <3>2, <3>3
    <2>2. CASE ~(op \in ids /\ entries[op] # Absent)
      <3>1. r[op] = entries[op]
        BY <1>1, <2>2
      <3>2. entries[op] \in Entry \cup {Absent}
        BY DEF TypeOK
      <3>3. (entries[op] # Absent /\ entries[op].state # "PARKED")
              => entries[op].attempts < maxAttempts
        BY DEF BudgetLeft
      <3> QED BY <2>2, <3>1, <3>2, <3>3
    <2> QED BY <2>1, <2>2
  <1>3. r \in [Ops -> Entry \cup {Absent}]
    BY <1>1, <1>2
  <1> QED
    BY <1>2, <1>3 DEF r

-----------------------------------------------------------------------------
(* What the phone does *)

\* A step that changes only what the outbox holds, and drops nothing from it,
\* keeps the invariant when what it leaves is well formed.
LEMMA OutboxStep ==
  ASSUME OutboxInv,
         UNCHANGED <<captured, current, calls, ledger, effects>>,
         network' \in NetworkQuality,
         entries' \in [Ops -> Entry \cup {Absent}],
         \A op \in Ops : entries'[op] = Absent <=> entries[op] = Absent,
         BudgetLeft', WaitsForItsOwn', ParkedForCause'
  PROVE  OutboxInv'
  <1>1. Held' = Held
    BY DEF Held
  <1>2. TypeOK' /\ NothingDropped'
    BY <1>1 DEF OutboxInv, TypeOK, NothingDropped
  <1>3. CallsHonest' /\ ClaimsDisjoint' /\ AppliedOnce'
    BY DEF OutboxInv, CallsHonest, Honest, ClaimsDisjoint, AppliedOnce
  <1> QED
    BY <1>1, <1>2, <1>3 DEF OutboxInv

\* Saving a capture, for the first time or again.
LEMMA EnqueueKeeps ==
  ASSUME OutboxInv, NEW op \in Ops, enqueue(op)
  PROVE  OutboxInv'
  <1> USE DEF OutboxInv
  <1>1. /\ entries' = [entries EXCEPT ![op] = Fresh]
        /\ captured' = captured \cup {op}
        /\ UNCHANGED <<network, current, calls, ledger, effects>>
        /\ entries[op] = Absent
    BY DEF enqueue
  <1>2. /\ entries \in [Ops -> Entry \cup {Absent}]
        /\ entries' \in [Ops -> Entry \cup {Absent}]
        /\ entries'[op] = Fresh
        /\ \A o \in Ops \ {op} : entries'[o] = entries[o]
    BY <1>1, EntriesPresent DEF TypeOK
  <1>3. Held' = Held \cup {op}
    BY <1>2, EntriesPresent DEF Held
  <1>4. TypeOK'
    BY <1>1, <1>2 DEF TypeOK
  <1>5. BudgetLeft'
    BY <1>2, EntriesPresent, LimitsGiven DEF BudgetLeft
  <1>6. WaitsForItsOwn'
    <2> SUFFICES ASSUME current # None,
                        NEW o \in calls[current].batch
                 PROVE  entries'[o] # Absent /\ entries'[o].state = "IN_FLIGHT"
      BY <1>1 DEF WaitsForItsOwn
    <2>1. entries[o] # Absent /\ entries[o].state = "IN_FLIGHT"
      BY DEF WaitsForItsOwn
    <2>2. o \in Ops
      BY DEF TypeOK, Call
    <2> QED BY <1>1, <1>2, <2>1, <2>2
  <1>7. CallsHonest' /\ ClaimsDisjoint' /\ AppliedOnce'
    <2>1. ASSUME NEW c \in Calls, Honest(calls[c]) PROVE Honest(calls[c])'
      BY <1>1, <2>1 DEF Honest
    <2>2. CallsHonest'
      BY <1>1, <2>1 DEF CallsHonest
    <2> QED BY <1>1, <2>2 DEF ClaimsDisjoint, AppliedOnce
  <1>8. NothingDropped'
    BY <1>1, <1>3 DEF NothingDropped
  <1>9. ParkedForCause'
    <2> SUFFICES ASSUME NEW o \in Ops, entries'[o].state = "PARKED"
                 PROVE  entries'[o].attempts = maxAttempts \/ ledger[o] = "rejected"
      BY <1>1 DEF ParkedForCause, In
    <2>1. o # op
      BY <1>2, EntriesPresent
    <2> QED BY <1>2, <2>1 DEF ParkedForCause, In
  <1> QED
    BY <1>1, <1>3, <1>4, <1>5, <1>6, <1>7, <1>8, <1>9

\* Whatever is retried was being tried, so nothing parked is touched.
LEMMA RetryKeeps ==
  ASSUME OutboxInv, NEW ids \in SUBSET Ops,
         \A op \in ids : entries[op] # Absent => entries[op].state = "IN_FLIGHT",
         entries' = retryLater(ids), current' = None,
         UNCHANGED <<captured, network, calls, ledger, effects>>
  PROVE  OutboxInv'
  <1> USE DEF OutboxInv
  <1>1. /\ entries' \in [Ops -> Entry \cup {Absent}]
        /\ \A op \in Ops :
             /\ entries'[op] = Absent <=> entries[op] = Absent
             /\ op \notin ids => entries'[op] = entries[op]
             /\ (entries'[op] # Absent /\ entries'[op].state # "PARKED")
                  => entries'[op].attempts < maxAttempts
             /\ (op \in ids /\ entries'[op] # Absent /\ entries'[op].state = "PARKED")
                  => entries'[op].attempts = maxAttempts
    BY RetriedStays
  <1>2. Held' = Held
    BY <1>1 DEF Held
  <1>3. TypeOK' /\ BudgetLeft' /\ NothingDropped' /\ WaitsForItsOwn'
    BY <1>1, <1>2 DEF TypeOK, BudgetLeft, NothingDropped, WaitsForItsOwn
  <1>4. CallsHonest' /\ ClaimsDisjoint' /\ AppliedOnce'
    BY DEF CallsHonest, Honest, ClaimsDisjoint, AppliedOnce
  <1>5. ParkedForCause'
    <2> SUFFICES ASSUME NEW op \in Ops, entries'[op].state = "PARKED"
                 PROVE  entries'[op].attempts = maxAttempts \/ ledger[op] = "rejected"
      BY DEF ParkedForCause, In
    <2>1. entries'[op] # Absent
      BY DEF Absent
    <2>2. CASE op \in ids
      BY <1>1, <2>1, <2>2
    <2>3. CASE op \notin ids
      BY <1>1, <2>3 DEF ParkedForCause, In
    <2> QED BY <2>2, <2>3
  <1> QED
    BY <1>2, <1>3, <1>4, <1>5

\* Sending marks in flight what the worker will wait for.
LEMMA SendKeeps ==
  ASSUME OutboxInv, NEW c \in Calls, NEW maxBytes \in Budgets,
         Send(c, nextBatch(maxBytes))
  PROVE  OutboxInv'
  <1> USE DEF OutboxInv
  <1> DEFINE batch == nextBatch(maxBytes)
  <1>1. batch \subseteq Ops /\ \A op \in batch : entries[op].state = "PENDING"
    BY DEF nextBatch, Ready, In
  <1>0. entries' = Updated(batch, LAMBDA e : [e EXCEPT !.state = "IN_FLIGHT"])
    BY DEF Send
  <1>2. /\ calls' = [calls EXCEPT ![c] = [FreeCall EXCEPT !.stage = "sent", !.batch = batch]]
        /\ current' = c
        /\ UNCHANGED <<captured, network, ledger, effects>>
    BY DEF Send
  <1> HIDE DEF batch
  <1>3. \A op \in batch : entries[op] \in Entry /\ entries[op] # Absent
    BY <1>1, EntriesPresent DEF TypeOK, Absent
  <1>4. /\ entries' = [op \in Ops |-> IF op \in batch
                         THEN [entries[op] EXCEPT !.state = "IN_FLIGHT"] ELSE entries[op]]
    BY <1>0, <1>3 DEF Updated
  <1>5. \A op \in batch : /\ entries'[op] \in Entry
                          /\ entries'[op].state = "IN_FLIGHT"
                          /\ entries'[op].attempts = entries[op].attempts
    BY <1>1, <1>3, <1>4 DEF Entry, OperationState
  <1>6. entries' \in [Ops -> Entry \cup {Absent}]
    BY <1>4, <1>5 DEF TypeOK
  <1>7. \A op \in Ops : entries'[op] = Absent <=> entries[op] = Absent
    BY <1>3, <1>4, <1>5, EntriesPresent
  <1>8. Held' = Held /\ batch \subseteq captured
    BY <1>1, <1>3, <1>7 DEF Held
  <1>9. /\ calls'[c] = [stage |-> "sent", batch |-> batch, yes |-> {}, no |-> {}, new |-> {}]
        /\ \A e \in Calls \ {c} : calls'[e] = calls[e]
        /\ calls' \in [Calls -> Call]
    BY <1>1, <1>2 DEF TypeOK, FreeCall, Call
  <1>10. TypeOK' /\ NothingDropped' /\ AppliedOnce'
    <2>1. TypeOK'
      BY <1>2, <1>6, <1>9 DEF TypeOK
    <2>2. NothingDropped'
      BY <1>2, <1>8 DEF NothingDropped
    <2>3. AppliedOnce'
      BY <1>2 DEF AppliedOnce
    <2> QED BY <2>1, <2>2, <2>3
  <1>11. BudgetLeft'
    BY <1>1, <1>3, <1>4, <1>5 DEF BudgetLeft
  <1>12. WaitsForItsOwn'
    BY <1>2, <1>5, <1>9, EntriesPresent DEF WaitsForItsOwn
  <1>13. CallsHonest'
    <2> SUFFICES ASSUME NEW e \in Calls
                 PROVE  Honest(calls[e])'
      BY <1>2 DEF CallsHonest
    <2>1. CASE e = c
      <3> DEFINE k == [stage |-> "sent", batch |-> batch, yes |-> {}, no |-> {}, new |-> {}]
      <3>1. calls'[e] = k
        BY <1>9, <2>1
      <3>2. /\ k.stage = "sent" /\ k.batch = batch
            /\ k.yes = {} /\ k.no = {} /\ k.new = {}
        OBVIOUS
      <3> HIDE DEF k
      <3>3. k.batch \subseteq captured'
        BY <1>2, <1>8, <3>2
      <3> QED
        BY ONLY <3>1, <3>2, <3>3 DEF Honest
    <2>2. CASE e # c
      <3>1. calls'[e] = calls[e] /\ Honest(calls[e])
        BY <1>9, <2>2 DEF CallsHonest
      <3> QED
        BY ONLY <1>2, <3>1 DEF Honest
    <2> QED BY ONLY <2>1, <2>2
  <1>14. ClaimsDisjoint'
    BY <1>9 DEF ClaimsDisjoint
  <1>15. ParkedForCause'
    BY <1>2, <1>4, <1>5 DEF ParkedForCause, In
  <1> QED
    BY <1>2, <1>8, <1>10, <1>11, <1>12, <1>13, <1>14, <1>15

\* An answer clears what the server recorded as accepted, and nothing else.
LEMMA AnsweredKeeps ==
  ASSUME OutboxInv, NEW c \in Calls, Answered(c)
  PROVE  OutboxInv'
  <1> USE DEF OutboxInv
  <1>1. /\ current = c /\ current' = None
        /\ calls[c].stage = "answered"
        /\ calls' = [calls EXCEPT ![c] = FreeCall]
        /\ UNCHANGED <<captured, network, ledger, effects>>
    BY DEF Answered
  <1> DEFINE yes == calls[c].yes
             no == calls[c].no
  <1>2. /\ \A op \in yes : ledger[op] = "accepted"
        /\ \A op \in no : ledger[op] = "rejected"
        /\ yes \cap no = {} /\ no \subseteq calls[c].batch
    BY <1>1 DEF CallsHonest, Honest
  <1>3. current # None
    BY <1>1, NoneIsNoCall
  <1>4. \A op \in no : entries[op] # Absent /\ entries[op].state = "IN_FLIGHT"
    BY <1>1, <1>2, <1>3 DEF WaitsForItsOwn
  <1>5. /\ yes \subseteq Ops /\ no \subseteq Ops
    BY DEF TypeOK, Call
  <1>6. ASSUME NEW op \in Ops
        PROVE  /\ op \in yes => entries'[op] = Absent
               /\ op \in no => entries'[op] = [entries[op] EXCEPT !.state = "PARKED"]
               /\ op \notin yes \cup no => entries'[op] = entries[op]
    BY <1>2, <1>4 DEF Answered, Confirmed
  <1>7. \A op \in no : entries[op] \in Entry /\ entries'[op] \in Entry
                       /\ entries'[op].state = "PARKED"
    <2> SUFFICES ASSUME NEW op \in no
                 PROVE  /\ entries[op] \in Entry /\ entries'[op] \in Entry
                        /\ entries'[op].state = "PARKED"
      OBVIOUS
    <2>1. op \in Ops /\ entries[op] \in Entry
      BY <1>4, <1>5 DEF TypeOK
    <2>2. entries'[op] = [entries[op] EXCEPT !.state = "PARKED"]
      BY <1>6, <2>1
    <2>3. entries'[op] \in Entry
      BY <2>1, <2>2, EntriesPresent DEF OperationState
    <2> QED BY <2>1, <2>2, <2>3 DEF Entry
  <1>8. entries' \in [Ops -> Entry \cup {Absent}]
    <2>1. \A op \in Ops : entries'[op] \in Entry \cup {Absent}
      BY <1>6, <1>7 DEF TypeOK
    <2>2. entries' = [op \in Ops |-> entries'[op]]
      BY DEF Answered
    <2> QED BY <2>1, <2>2
  <1>9. /\ calls'[c] = FreeCall
        /\ \A e \in Calls \ {c} : calls'[e] = calls[e]
        /\ calls' \in [Calls -> Call]
    BY <1>1 DEF TypeOK, FreeCall, Call
  <1>10. TypeOK'
    BY <1>1, <1>8, <1>9 DEF TypeOK
  <1>11. Held \ yes \subseteq Held' /\ Held' \subseteq Held
    <2> SUFFICES ASSUME NEW op \in Ops
                 PROVE  /\ (entries[op] # Absent /\ op \notin yes) => entries'[op] # Absent
                        /\ entries'[op] # Absent => entries[op] # Absent
      BY DEF Held
    <2>1. CASE op \in yes
      BY <1>6, <2>1
    <2>2. CASE op \in no
      BY <1>2, <1>4, <1>7, <2>2, EntriesPresent
    <2>3. CASE op \notin yes \cup no
      BY <1>6, <2>3
    <2> QED BY <2>1, <2>2, <2>3
  <1>12. NothingDropped' /\ AppliedOnce'
    BY <1>1, <1>2, <1>11 DEF NothingDropped, AppliedOnce
  <1>13. BudgetLeft' /\ WaitsForItsOwn'
    BY <1>1, <1>6, <1>7 DEF BudgetLeft, WaitsForItsOwn
  <1>14. CallsHonest' /\ ClaimsDisjoint'
    BY <1>1, <1>9 DEF CallsHonest, ClaimsDisjoint, FreeCall, Honest
  <1>15. ParkedForCause'
    <2> SUFFICES ASSUME NEW op \in Ops, entries'[op].state = "PARKED"
                 PROVE  entries'[op].attempts = maxAttempts \/ ledger[op] = "rejected"
      BY <1>1 DEF ParkedForCause, In
    <2>1. op \notin yes
      BY <1>6, EntriesPresent
    <2>2. CASE op \in no
      BY <1>2, <2>2
    <2>3. CASE op \notin no
      BY <1>6, <2>1, <2>3 DEF ParkedForCause, In
    <2> QED BY <2>2, <2>3
  <1> QED
    BY <1>1, <1>10, <1>11, <1>12, <1>13, <1>14, <1>15

\* A wait that ends, one or all of them.
LEMMA WaitsEnd ==
  ASSUME OutboxInv, \/ \E op \in Ops : Elapse(op)
                    \/ expedite
  PROVE  OutboxInv'
  <1> USE DEF OutboxInv
  <1>1. /\ UNCHANGED <<captured, network, current, calls, ledger, effects>>
        /\ entries' \in [Ops -> Entry \cup {Absent}]
        /\ \A op \in Ops :
             \/ entries'[op] = entries[op]
             \/ entries[op] \in Entry /\ entries[op].state = "PENDING"
                /\ entries'[op] = [entries[op] EXCEPT !.backoff = FALSE]
    <2>1. ASSUME NEW op \in Ops, Elapse(op) PROVE <1>1
      <3>1. /\ entries[op] \in Entry /\ entries[op].state = "PENDING"
        BY <2>1, HeldEntries, EntriesPresent DEF Elapse, In, TypeOK, Absent
      <3>2. [entries[op] EXCEPT !.backoff = FALSE] \in Entry
        BY <3>1 DEF Entry
      <3>3. entries' = [entries EXCEPT ![op] = [entries[op] EXCEPT !.backoff = FALSE]]
        BY <2>1 DEF Elapse
      <3> QED BY <2>1, <3>1, <3>2, <3>3 DEF Elapse, TypeOK
    <2>2. ASSUME expedite PROVE <1>1
      <3>1. entries' = [op \in Ops |-> IF op \in In("PENDING") /\ entries[op] # Absent
                          THEN [entries[op] EXCEPT !.backoff = FALSE] ELSE entries[op]]
        BY <2>2 DEF expedite, Updated
      <3>2. \A e \in Entry : [e EXCEPT !.backoff = FALSE] \in Entry
        BY DEF Entry
      <3> QED BY <2>2, <3>1, <3>2 DEF expedite, In, TypeOK
    <2> QED BY <2>1, <2>2
  <1>2. \A e \in Entry : LET f == [e EXCEPT !.backoff = FALSE] IN
          f.state = e.state /\ f.attempts = e.attempts /\ f \in Entry
    BY DEF Entry
  <1>3. \A op \in Ops : entries'[op] = Absent <=> entries[op] = Absent
    BY <1>1, <1>2, EntriesPresent
  <1>4. \A op \in Ops : entries[op] \in Entry =>
          entries'[op].state = entries[op].state /\ entries'[op].attempts = entries[op].attempts
    BY <1>1, <1>2
  <1>5. BudgetLeft'
    BY <1>1, <1>3, <1>4 DEF BudgetLeft, TypeOK
  <1>6. ParkedForCause'
    <2> SUFFICES ASSUME NEW op \in Ops, entries'[op].state = "PARKED"
                 PROVE  entries'[op].attempts = maxAttempts \/ ledger[op] = "rejected"
      BY <1>1 DEF ParkedForCause, In
    <2>1. entries'[op] # Absent
      BY EntriesPresent
    <2>2. entries[op] \in Entry
      BY <1>3, <2>1 DEF TypeOK
    <2> QED BY <1>4, <2>2 DEF ParkedForCause, In
  <1>7. WaitsForItsOwn'
    BY <1>1, <1>3, <1>4 DEF WaitsForItsOwn, TypeOK, Call
  <1> QED
    BY <1>1, <1>3, <1>5, <1>6, <1>7, OutboxStep DEF TypeOK

\* A step of the phone: capture, send, answer, failure, kill, restart, waits.
LEMMA PhoneKeeps ==
  ASSUME OutboxInv,
         \/ \E op \in Ops : enqueue(op) \/ Elapse(op) \/ requeue(op)
         \/ \E c \in Calls, maxBytes \in Budgets : Send(c, nextBatch(maxBytes))
         \/ \E c \in Calls : GiveUp(c) \/ Answered(c)
         \/ Kill \/ Restart \/ expedite
         \/ \E quality \in NetworkQuality : NetworkChange(quality)
  PROVE  OutboxInv'
  <1>1. ASSUME NEW op \in Ops, enqueue(op) PROVE OutboxInv'
    BY <1>1, EnqueueKeeps
  <1>2. ASSUME (\E op \in Ops : Elapse(op)) \/ expedite PROVE OutboxInv'
    BY <1>2, WaitsEnd
  <1>3. ASSUME NEW op \in Ops, requeue(op) PROVE OutboxInv'
    <2>1. entries' = [entries EXCEPT ![op] = Fresh] /\ entries[op].state = "PARKED"
          /\ UNCHANGED <<captured, network, current, calls, ledger, effects>>
      BY <1>3 DEF requeue, In
    <2>2. entries[op] # Absent /\ Fresh # Absent
      BY <2>1, EntriesPresent
    <2>3. /\ entries' \in [Ops -> Entry \cup {Absent}]
          /\ \A o \in Ops : entries'[o] = Absent <=> entries[o] = Absent
      BY <2>1, <2>2, EntriesPresent DEF OutboxInv, TypeOK
    <2>4. BudgetLeft' /\ ParkedForCause'
      BY <2>1, EntriesPresent, LimitsGiven
      DEF OutboxInv, TypeOK, BudgetLeft, ParkedForCause, In
    <2>5. WaitsForItsOwn'
      <3> SUFFICES ASSUME current # None, NEW o \in calls[current].batch
                   PROVE  entries'[o] # Absent /\ entries'[o].state = "IN_FLIGHT"
        BY <2>1 DEF WaitsForItsOwn
      <3>1. entries[o] # Absent /\ entries[o].state = "IN_FLIGHT"
        BY DEF OutboxInv, WaitsForItsOwn
      <3>2. o # op
        BY <2>1, <3>1
      <3> QED BY <2>1, <3>1, <3>2 DEF OutboxInv, TypeOK
    <2> QED BY <2>1, <2>3, <2>4, <2>5, OutboxStep DEF OutboxInv, TypeOK
  <1>4. ASSUME NEW c \in Calls, NEW maxBytes \in Budgets, Send(c, nextBatch(maxBytes))
        PROVE  OutboxInv'
    BY <1>4, SendKeeps
  <1>5. ASSUME NEW c \in Calls, GiveUp(c) PROVE OutboxInv'
    <2>1. current # None
      BY <1>5, NoneIsNoCall DEF GiveUp
    <2>2. calls[c].batch \in SUBSET Ops
      BY DEF OutboxInv, TypeOK, Call
    <2>3. \A op \in calls[c].batch : entries[op].state = "IN_FLIGHT"
      BY <1>5, <2>1 DEF GiveUp, OutboxInv, WaitsForItsOwn
    <2> QED BY <1>5, <2>2, <2>3, RetryKeeps DEF GiveUp
  <1>6. ASSUME NEW c \in Calls, Answered(c) PROVE OutboxInv'
    BY <1>6, AnsweredKeeps
  <1>7. ASSUME Kill PROVE OutboxInv'
    <2>1. UNCHANGED <<captured, entries, network, calls, ledger, effects>> /\ current' = None
      BY <1>7 DEF Kill
    <2>2. Held' = Held /\ In("PARKED")' = In("PARKED")
      BY <2>1 DEF Held, In
    <2> QED BY <2>1, <2>2
        DEF OutboxInv, TypeOK, BudgetLeft, WaitsForItsOwn, CallsHonest, Honest, ClaimsDisjoint,
            NothingDropped, AppliedOnce, ParkedForCause
  <1>8. ASSUME Restart PROVE OutboxInv'
    <2>1. In("IN_FLIGHT") \in SUBSET Ops /\ \A op \in In("IN_FLIGHT") : entries[op].state = "IN_FLIGHT"
      BY DEF In
    <2> QED BY <1>8, <2>1, RetryKeeps DEF Restart
  <1>9. ASSUME NEW quality \in NetworkQuality, NetworkChange(quality) PROVE OutboxInv'
    <2>1. UNCHANGED <<captured, entries, current, calls, ledger, effects>>
          /\ network' \in NetworkQuality
      BY <1>9 DEF NetworkChange
    <2>2. BudgetLeft' /\ WaitsForItsOwn' /\ ParkedForCause'
      BY <2>1 DEF OutboxInv, BudgetLeft, WaitsForItsOwn, ParkedForCause, In
    <2> QED BY <2>1, <2>2, OutboxStep DEF OutboxInv, TypeOK
  <1> QED
    BY <1>1, <1>2, <1>3, <1>4, <1>5, <1>6, <1>7, <1>8, <1>9

-----------------------------------------------------------------------------
(* What the server does *)

\* A step that only moves one call on keeps the invariant when the call stays
\* honest, claims nothing claimed, and the phone still waits for its own.
LEMMA CallStep ==
  ASSUME OutboxInv, NEW c \in Calls, NEW k \in Call,
         Honest(k),
         \A e \in Calls \ {c} : k.new \cap calls[e].new = {},
         k.batch = calls[c].batch \/ current # c,
         calls' = [calls EXCEPT ![c] = k],
         UNCHANGED <<captured, entries, network, current, ledger, effects>>
  PROVE  OutboxInv'
  <1> USE DEF OutboxInv
  <1>1. /\ calls'[c] = k
        /\ \A e \in Calls \ {c} : calls'[e] = calls[e]
        /\ calls' \in [Calls -> Call]
    BY DEF TypeOK
  <1>2. Held' = Held /\ In("PARKED")' = In("PARKED")
    BY DEF Held, In
  <1>3. TypeOK'
    BY <1>1 DEF TypeOK
  <1>4. BudgetLeft' /\ NothingDropped' /\ AppliedOnce' /\ ParkedForCause'
    BY <1>2 DEF BudgetLeft, NothingDropped, AppliedOnce, ParkedForCause
  <1>5. WaitsForItsOwn'
    BY <1>1, NoneIsNoCall DEF WaitsForItsOwn, TypeOK
  <1>6. CallsHonest'
    <2> SUFFICES ASSUME NEW e \in Calls PROVE Honest(calls[e])'
      BY DEF CallsHonest
    <2>1. Honest(calls'[e])
      BY <1>1 DEF CallsHonest
    <2> QED BY <2>1 DEF Honest
  <1>7. ClaimsDisjoint'
    BY <1>1 DEF ClaimsDisjoint
  <1> QED
    BY <1>2, <1>3, <1>4, <1>5, <1>6, <1>7

\* Receiving, failing and losing a call.
LEMMA CallMoves ==
  ASSUME OutboxInv, NEW c \in Calls, Receive(c) \/ Fail(c) \/ Lose(c)
  PROVE  OutboxInv'
  <1>1. calls[c] \in Call /\ Honest(calls[c])
    BY DEF OutboxInv, TypeOK, CallsHonest
  <1>2. ASSUME Receive(c) PROVE OutboxInv'
    <2> DEFINE k == [calls[c] EXCEPT !.stage = "running"]
    <2>1. k \in Call /\ Honest(k) /\ k.new = {} /\ k.batch = calls[c].batch
      BY <1>1, <1>2 DEF Receive, Call, Honest
    <2>2. calls' = [calls EXCEPT ![c] = k]
      BY <1>2 DEF Receive
    <2> HIDE DEF k
    <2> QED BY <1>2, <2>1, <2>2, CallStep DEF Receive
  <1>3. ASSUME Fail(c) PROVE OutboxInv'
    <2> DEFINE k == [FreeCall EXCEPT !.stage = "failed", !.batch = calls[c].batch]
    <2>1. k \in Call /\ Honest(k) /\ k.new = {} /\ k.batch = calls[c].batch
      BY <1>1 DEF FreeCall, Call, Honest
    <2> HIDE DEF k
    <2> QED BY <1>3, <2>1, CallStep DEF Fail, k
  <1>4. ASSUME Lose(c) PROVE OutboxInv'
    <2>1. FreeCall \in Call /\ Honest(FreeCall) /\ FreeCall.new = {}
      BY DEF FreeCall, Call, Honest
    <2> QED BY <1>4, <2>1, CallStep DEF Lose
  <1> QED
    BY <1>2, <1>3, <1>4

\* One more operation of the batch is answered, from the ledger or afresh.
LEMMA BatchMoves ==
  ASSUME OutboxInv, NEW c \in Calls, NEW op \in Ops, Replay(c, op) \/ Apply(c, op)
  PROVE  OutboxInv'
  <1>1. calls[c] \in Call /\ Honest(calls[c])
    BY DEF OutboxInv, TypeOK, CallsHonest
  <1>2. /\ calls[c].stage = "running"
        /\ op \in calls[c].batch \ (calls[c].yes \cup calls[c].no)
    BY DEF Replay, Apply, IsNext, Remaining
  <1>3. \A e \in Calls \ {c} : calls[c].new \cap calls[e].new = {}
    BY DEF OutboxInv, ClaimsDisjoint
  <1>4. ledger[op] \in {"none", "accepted", "rejected"}
    BY DEF OutboxInv, TypeOK
  <1>5. ASSUME Replay(c, op) PROVE OutboxInv'
    <2> DEFINE k == Outcome(calls[c], op, ledger[op] = "accepted")
    <2>1. k.new = calls[c].new /\ k.batch = calls[c].batch /\ k \in Call
      BY <1>1, <1>2 DEF Call, Outcome
    <2>2. Honest(k)
      <3>1. CASE ledger[op] = "accepted"
        BY <1>1, <1>2, <3>1 DEF Call, Honest, Outcome
      <3>2. CASE ledger[op] = "rejected"
        BY <1>1, <1>2, <3>2 DEF Call, Honest, Outcome
      <3> QED BY <1>4, <1>5, <3>1, <3>2 DEF Replay
    <2>3. calls' = [calls EXCEPT ![c] = k]
      BY <1>5 DEF Replay
    <2> HIDE DEF k
    <2> QED BY <1>3, <1>5, <2>1, <2>2, <2>3, CallStep DEF Replay
  <1>6. ASSUME Apply(c, op) PROVE OutboxInv'
    <2>1. \A e \in Calls \ {c} : (calls[c].new \cup {op}) \cap calls[e].new = {}
      <3> SUFFICES ASSUME NEW e \in Calls \ {c} PROVE op \notin calls[e].new
        BY <1>3
      <3>1. CASE calls[e].stage = "running"
        BY <1>6, <3>1 DEF Apply, Claimable
      <3>2. CASE calls[e].stage # "running"
        BY <3>2 DEF OutboxInv, CallsHonest, Honest
      <3> QED BY <3>1, <3>2
    <2>2. PICK ok \in BOOLEAN :
            calls' = [calls EXCEPT ![c] =
              Outcome([calls[c] EXCEPT !.new = calls[c].new \cup {op}], op, ok)]
      BY <1>6 DEF Apply
    <2> DEFINE claim == [calls[c] EXCEPT !.new = calls[c].new \cup {op}]
               k == Outcome(claim, op, ok)
    <2>3. claim \in Call /\ claim.new = calls[c].new \cup {op} /\ claim.stage = "running"
          /\ claim.batch = calls[c].batch /\ claim.yes = calls[c].yes /\ claim.no = calls[c].no
      BY <1>1, <1>2 DEF Call
    <2> HIDE DEF claim
    <2>4. /\ k.new = claim.new /\ k.batch = claim.batch /\ k \in Call /\ k.stage = claim.stage
          /\ \/ k.yes = claim.yes \cup {op} /\ k.no = claim.no
             \/ k.yes = claim.yes /\ k.no = claim.no \cup {op}
      BY <1>1, <1>2, <2>3 DEF Call, Outcome
    <2>5. ledger[op] = "none"
      BY <1>6 DEF Apply
    <2>6. Honest(k)
      BY <1>1, <1>2, <2>3, <2>4, <2>5 DEF Honest
    <2>7. calls' = [calls EXCEPT ![c] = k]
      BY <2>2 DEF claim
    <2>8. UNCHANGED <<captured, entries, network, current, ledger, effects>>
      BY <1>6 DEF Apply
    <2> HIDE DEF k
    <2> QED BY <2>1, <2>3, <2>4, <2>6, <2>7, <2>8, CallStep
  <1> QED
    BY <1>5, <1>6

\* What a commit does to the ledger: it settles what the session inserted,
\* which nobody settled before, and leaves the rest.
LEMMA CommitSettles ==
  ASSUME OutboxInv, NEW c \in Calls, Commit(c), NEW op \in Ops
  PROVE  /\ op \in calls[c].new \cap calls[c].yes =>
              /\ ledger[op] = "none" /\ ledger'[op] = "accepted"
              /\ effects[op] = 0 /\ effects'[op] = 1
         /\ op \in calls[c].new \cap calls[c].no =>
              /\ ledger[op] = "none" /\ ledger'[op] = "rejected"
              /\ effects[op] = 0 /\ effects'[op] = 0
         /\ op \notin calls[c].new => ledger'[op] = ledger[op] /\ effects'[op] = effects[op]
  <1>1. Honest(calls[c])
    BY DEF OutboxInv, CallsHonest
  <1>2. /\ ledger'[op] = CASE op \in calls[c].new \cap calls[c].yes -> "accepted"
                           [] op \in calls[c].new \ calls[c].yes    -> "rejected"
                           [] OTHER                                 -> ledger[op]
        /\ effects'[op] = IF op \in calls[c].new \cap calls[c].yes
                            THEN effects[op] + 1 ELSE effects[op]
    BY DEF Commit
  <1>3. op \in calls[c].new => ledger[op] = "none" /\ effects[op] = 0
    BY <1>1 DEF Honest, OutboxInv, AppliedOnce
  <1>4. calls[c].yes \cap calls[c].no = {}
    BY <1>1 DEF Honest
  <1>5. CASE op \in calls[c].new \cap calls[c].yes
    BY <1>2, <1>3, <1>4, <1>5
  <1>6. CASE op \in calls[c].new \ calls[c].yes
    BY <1>2, <1>3, <1>4, <1>6
  <1>7. CASE op \notin calls[c].new
    BY <1>2, <1>7
  <1> QED
    BY <1>5, <1>6, <1>7

\* A commit keeps the invariant: the ledger and the effects move together.
LEMMA CommitKeeps ==
  ASSUME OutboxInv, NEW c \in Calls, Commit(c)
  PROVE  OutboxInv'
  <1> USE DEF OutboxInv
  <1> DEFINE new == calls[c].new
             yes == calls[c].yes
             no  == calls[c].no
  <1>1. calls[c] \in Call /\ Honest(calls[c])
    BY DEF TypeOK, CallsHonest
  <1>2. new \subseteq Ops /\ yes \subseteq Ops /\ no \subseteq Ops
        /\ new \subseteq yes \cup no
    BY <1>1 DEF Call, Honest
  <1>3. UNCHANGED <<captured, entries, network, current>>
    BY DEF Commit
  <1>4. ASSUME NEW op \in Ops
        PROVE  /\ op \in new \cap yes => ledger[op] = "none" /\ ledger'[op] = "accepted"
                                         /\ effects'[op] = 1
               /\ op \in new \cap no => ledger[op] = "none" /\ ledger'[op] = "rejected"
                                        /\ effects'[op] = 0
               /\ op \notin new => ledger'[op] = ledger[op] /\ effects'[op] = effects[op]
    BY CommitSettles
  <1>5. \A op \in Ops : ledger[op] # "none" => ledger'[op] = ledger[op]
    BY <1>2, <1>4
  <1>6. /\ calls'[c].stage = "answered" /\ calls'[c].new = {}
        /\ calls'[c].batch = calls[c].batch /\ calls'[c].yes = yes /\ calls'[c].no = no
        /\ \A e \in Calls \ {c} : calls'[e] = calls[e]
        /\ calls' \in [Calls -> Call]
    BY <1>1 DEF Commit, TypeOK, Call
  <1>7. TypeOK'
    <2>1. ledger' \in [Ops -> {"none", "accepted", "rejected"}]
      <3>1. ledger' = [op \in Ops |-> ledger'[op]]
        BY DEF Commit
      <3>2. \A op \in Ops : ledger'[op] \in {"none", "accepted", "rejected"}
        BY <1>2, <1>4 DEF TypeOK
      <3> QED BY <3>1, <3>2
    <2>2. effects' \in [Ops -> Nat]
      <3>1. effects' = [op \in Ops |-> effects'[op]]
        BY DEF Commit
      <3>2. \A op \in Ops : effects'[op] \in Nat
        BY <1>2, <1>4 DEF TypeOK
      <3> QED BY <3>1, <3>2
    <2> QED BY <1>3, <1>6, <2>1, <2>2 DEF TypeOK
  <1>8. Held' = Held /\ In("PARKED")' = In("PARKED")
    BY <1>3 DEF Held, In
  <1>9. BudgetLeft' /\ WaitsForItsOwn'
    BY <1>3, <1>6 DEF BudgetLeft, WaitsForItsOwn, TypeOK
  <1>10. NothingDropped' /\ ParkedForCause'
    <2>1. \A op \in captured : op \in Ops
      BY DEF TypeOK
    <2>2. NothingDropped'
      BY <1>3, <1>5, <1>8, <2>1 DEF NothingDropped
    <2>3. \A op \in In("PARKED") : op \in Ops
      BY DEF In
    <2>4. ParkedForCause'
      BY <1>3, <1>5, <1>8, <2>3 DEF ParkedForCause
    <2> QED BY <2>2, <2>4
  <1>11. AppliedOnce'
    <2> SUFFICES ASSUME NEW op \in Ops
                 PROVE  effects'[op] = IF ledger'[op] = "accepted" THEN 1 ELSE 0
      BY DEF AppliedOnce
    <2>1. CASE op \in new
      BY <1>2, <1>4, <2>1
    <2>2. CASE op \notin new
      BY <1>4, <2>2 DEF AppliedOnce
    <2> QED BY <2>1, <2>2
  <1>12. CallsHonest'
    <2> SUFFICES ASSUME NEW e \in Calls PROVE Honest(calls[e])'
      BY DEF CallsHonest
    <2>1. CASE e = c
      BY <1>1, <1>2, <1>3, <1>4, <1>6, <2>1 DEF Honest
    <2>2. CASE e # c
      <3>1. calls'[e] = calls[e] /\ Honest(calls[e]) /\ calls[e] \in Call
        BY <1>6, <2>2 DEF CallsHonest, TypeOK
      <3>2. calls[e].new \cap new = {}
        BY <2>2 DEF ClaimsDisjoint
      <3>3. \A op \in calls[e].new : ledger'[op] = "none"
        BY <1>4, <3>1, <3>2 DEF Honest, Call
      <3> QED BY <1>3, <1>5, <3>1, <3>3 DEF Honest, Call
    <2> QED BY <2>1, <2>2
  <1>13. ClaimsDisjoint'
    BY <1>6 DEF ClaimsDisjoint
  <1> QED
    BY <1>3, <1>7, <1>8, <1>9, <1>10, <1>11, <1>12, <1>13

-----------------------------------------------------------------------------
(* The theorems *)

\* An empty outbox and an empty ledger satisfy the invariant.
LEMMA OutboxInit == Init => OutboxInv
  <1> SUFFICES ASSUME Init PROVE OutboxInv
    OBVIOUS
  <1>1. FreeCall \in Call
    BY DEF FreeCall, Call
  <1>2. TypeOK
    BY <1>1 DEF Init, TypeOK, NetworkQuality
  <1>3. Held = {} /\ In("PARKED") = {}
    BY DEF Init, Held, In, Absent
  <1>4. BudgetLeft /\ WaitsForItsOwn /\ NothingDropped /\ AppliedOnce /\ ParkedForCause
    BY <1>3 DEF Init, BudgetLeft, WaitsForItsOwn, NothingDropped, AppliedOnce, ParkedForCause
  <1>5. CallsHonest /\ ClaimsDisjoint
    BY DEF Init, CallsHonest, Honest, ClaimsDisjoint, FreeCall
  <1> QED
    BY <1>2, <1>3, <1>4, <1>5 DEF OutboxInv

\* Every step of the phone, the network and the server keeps the invariant.
LEMMA OutboxNext == OutboxInv /\ [Next]_vars => OutboxInv'
  <1> SUFFICES ASSUME OutboxInv, [Next]_vars PROVE OutboxInv'
    OBVIOUS
  <1>1. CASE UNCHANGED vars
    <2>1. Held' = Held /\ In("PARKED")' = In("PARKED")
      BY <1>1 DEF vars, Held, In
    <2> QED BY <1>1, <2>1
        DEF vars, OutboxInv, TypeOK, BudgetLeft, WaitsForItsOwn, CallsHonest, Honest,
            ClaimsDisjoint, NothingDropped, AppliedOnce, ParkedForCause
  <1>2. CASE \/ \E op \in Ops : enqueue(op) \/ Elapse(op) \/ requeue(op)
             \/ \E c \in Calls, maxBytes \in Budgets : Send(c, nextBatch(maxBytes))
             \/ \E c \in Calls : GiveUp(c) \/ Answered(c)
             \/ Kill \/ Restart \/ expedite
             \/ \E quality \in NetworkQuality : NetworkChange(quality)
    BY <1>2, PhoneKeeps
  <1>3. ASSUME NEW c \in Calls, Receive(c) \/ Fail(c) \/ Lose(c) PROVE OutboxInv'
    BY <1>3, CallMoves
  <1>4. ASSUME NEW c \in Calls, Commit(c) PROVE OutboxInv'
    BY <1>4, CommitKeeps
  <1>5. ASSUME NEW c \in Calls, NEW op \in Ops, Replay(c, op) \/ Apply(c, op) PROVE OutboxInv'
    BY <1>5, BatchMoves
  <1> QED
    BY <1>1, <1>2, <1>3, <1>4, <1>5 DEF Next

\* The invariant holds in every reachable state.
LEMMA OutboxAlways == Spec => []OutboxInv
  BY OutboxInit, OutboxNext, PTL DEF Spec

\* Outbox.kt's first invariant: an operation leaves the outbox only when the
\* server confirmed it, whatever is lost, repeated or killed.
THEOREM NeverDropped == Spec => []NothingDropped
  <1>1. OutboxInv => NothingDropped
    BY DEF OutboxInv
  <1> QED BY <1>1, OutboxAlways, PTL

\* Outbox.kt's second invariant: however many times it is sent, and however many
\* sessions of the server run at once, an operation takes effect at most once.
THEOREM ExactlyOnce == Spec => []AppliedOnce
  <1>1. OutboxInv => AppliedOnce
    BY DEF OutboxInv
  <1> QED BY <1>1, OutboxAlways, PTL

\* Every value in the protocol has its type, the attempts within the budget.
THEOREM OutboxTyped == Spec => []TypeOK
  <1>1. OutboxInv => TypeOK
    BY DEF OutboxInv
  <1> QED BY <1>1, OutboxAlways, PTL

\* What the phone shows as in need of a person has spent its attempts or was
\* refused by the server.
THEOREM ParkedWithReason == Spec => []ParkedForCause
  <1>1. OutboxInv => ParkedForCause
    BY DEF OutboxInv
  <1> QED BY <1>1, OutboxAlways, PTL

\* The protocol implements the delivery promised: every step of it is a capture,
\* a settlement or a clearance of Delivery, or none of them.
THEOREM ImplementsDelivery == Spec => Delivers
  <1>1. Init => Promise!DeliveryInit
    BY DEF Init, Promise!DeliveryInit, Held
  <1>2. OutboxInv /\ [Next]_vars => [Promise!DeliveryNext]_(Promise!delivery)
    <2> SUFFICES ASSUME OutboxInv, [Next]_vars
                 PROVE  Promise!DeliveryNext \/ UNCHANGED Promise!delivery
      OBVIOUS
    <2> DEFINE Refused == {op \in Ops : ledger[op] = "rejected"}
    <2>1. ASSUME NEW op \in Ops, enqueue(op) PROVE Promise!Keep(op)
      <3>1. entries'[op] = Fresh /\ \A o \in Ops \ {op} : entries'[o] = entries[o]
        BY <2>1 DEF enqueue, OutboxInv, TypeOK
      <3>2. Held' = Held \cup {op}
        BY <3>1, EntriesPresent DEF Held
      <3> QED BY <2>1, <3>2 DEF enqueue, Promise!Keep
    <2>2. ASSUME NEW c \in Calls, Answered(c) PROVE Promise!Forget(calls[c].yes)
      <3>1. Honest(calls[c]) /\ calls[c].stage = "answered" /\ calls[c].yes \subseteq Ops
        BY <2>2 DEF Answered, OutboxInv, CallsHonest, TypeOK, Call
      <3>2. \A op \in calls[c].yes : effects[op] = 1
        BY <3>1 DEF Honest, OutboxInv, AppliedOnce
      <3>3. Held' = Held \ calls[c].yes
        <4>1. current # None
          BY <2>2, NoneIsNoCall DEF Answered
        <4>2. \A op \in calls[c].no :
                entries[op] \in Entry /\ op \in Ops
          BY <2>2, <3>1, <4>1 DEF Answered, OutboxInv, WaitsForItsOwn, Honest, TypeOK, Call
        <4> SUFFICES ASSUME NEW op \in Ops
                     PROVE  entries'[op] # Absent <=>
                              (entries[op] # Absent /\ op \notin calls[c].yes)
          BY DEF Held
        <4>3. CASE op \in calls[c].yes
          BY <2>2, <4>3 DEF Answered, Confirmed
        <4>4. CASE op \in calls[c].no \ calls[c].yes
          <5>1. entries[op] \in Entry /\ entries[op] # Absent
            BY <4>2, <4>4, EntriesPresent
          <5>2. entries'[op] = [entries[op] EXCEPT !.state = "PARKED"]
            BY <2>2, <4>4, <5>1 DEF Answered, Confirmed
          <5>3. entries'[op] \in Entry
            BY <5>1, <5>2, EntriesPresent DEF OperationState
          <5> QED BY <4>4, <5>1, <5>3, EntriesPresent
        <4>5. CASE op \notin calls[c].yes \cup calls[c].no
          BY <2>2, <4>5 DEF Answered, Confirmed
        <4> QED BY <4>3, <4>4, <4>5
      <3> QED BY <2>2, <3>2, <3>3 DEF Answered, Promise!Forget
    <2>3. ASSUME NEW c \in Calls, Commit(c)
          PROVE  Promise!Settle(calls[c].new \cap calls[c].yes, calls[c].new \cap calls[c].no)
      <3> DEFINE yes == calls[c].new \cap calls[c].yes
                 no  == calls[c].new \cap calls[c].no
      <3>1. Honest(calls[c]) /\ calls[c] \in Call
        BY DEF OutboxInv, CallsHonest, TypeOK
      <3>2. /\ yes \cap no = {}
            /\ yes \cup no = calls[c].new
            /\ calls[c].new \subseteq captured /\ calls[c].new \subseteq Ops
        BY <3>1 DEF Honest, Call
      <3>3. ASSUME NEW op \in Ops
            PROVE  /\ op \in yes => ledger[op] = "none" /\ ledger'[op] = "accepted"
                                    /\ effects[op] = 0 /\ effects'[op] = 1
                   /\ op \in no => ledger[op] = "none" /\ ledger'[op] = "rejected"
                                   /\ effects[op] = 0 /\ effects'[op] = 0
                   /\ op \notin calls[c].new =>
                        ledger'[op] = ledger[op] /\ effects'[op] = effects[op]
        BY <2>3, CommitSettles
      <3>4. Refused' = Refused \cup no
        BY <3>2, <3>3
      <3>5. effects' = [op \in Ops |-> IF op \in yes THEN effects[op] + 1 ELSE effects[op]]
        BY <2>3 DEF Commit
      <3>6. Held' = Held /\ captured' = captured
        BY <2>3 DEF Commit, Held
      <3>7. \A op \in yes \cup no : op \in captured /\ effects[op] = 0 /\ op \notin Refused
        BY <3>2, <3>3
      <3> QED BY <3>2, <3>4, <3>5, <3>6, <3>7 DEF Promise!Settle
    <2>4. ASSUME UNCHANGED <<captured, ledger, effects>>, Held' = Held
          PROVE  UNCHANGED Promise!delivery
      BY <2>4 DEF Promise!delivery
    <2>5. ASSUME NEW c \in Calls, NEW maxBytes \in Budgets, Send(c, nextBatch(maxBytes))
          PROVE  UNCHANGED Promise!delivery
      <3>1. entries' = Updated(nextBatch(maxBytes), LAMBDA e : [e EXCEPT !.state = "IN_FLIGHT"])
        BY <2>5 DEF Send
      <3>2. \A op \in Ops : entries'[op] # Absent <=> entries[op] # Absent
        <4> SUFFICES ASSUME NEW op \in Ops
                     PROVE  entries'[op] # Absent <=> entries[op] # Absent
          OBVIOUS
        <4>1. entries[op] # Absent => [entries[op] EXCEPT !.state = "IN_FLIGHT"] # Absent
          BY EntriesPresent DEF OutboxInv, TypeOK, OperationState
        <4> QED BY <3>1, <4>1 DEF Updated
      <3> QED BY <2>4, <2>5, <3>2 DEF Send, Held
    <2>6. ASSUME NEW ids \in SUBSET Ops, entries' = retryLater(ids),
                 \A op \in ids : entries[op] # Absent => entries[op].state # "PARKED"
          PROVE  Held' = Held
      BY <2>6, RetriedStays DEF Held, OutboxInv
    <2>7. ASSUME NEW c \in Calls, GiveUp(c) PROVE UNCHANGED Promise!delivery
      <3>1. current # None /\ calls[c].batch \in SUBSET Ops
        BY <2>7, NoneIsNoCall DEF GiveUp, OutboxInv, TypeOK, Call
      <3>2. \A op \in calls[c].batch : entries[op].state = "IN_FLIGHT"
        BY <2>7, <3>1 DEF GiveUp, OutboxInv, WaitsForItsOwn
      <3> QED BY <2>4, <2>6, <2>7, <3>1, <3>2 DEF GiveUp
    <2>8. ASSUME Restart PROVE UNCHANGED Promise!delivery
      <3>1. In("IN_FLIGHT") \in SUBSET Ops
            /\ \A op \in In("IN_FLIGHT") : entries[op].state = "IN_FLIGHT"
        BY DEF In
      <3> QED BY <2>4, <2>6, <2>8, <3>1 DEF Restart
    <2>9. ASSUME \/ \E op \in Ops : Elapse(op) \/ requeue(op)
                 \/ expedite
          PROVE  UNCHANGED Promise!delivery
      <3>1. \A e \in Entry : [e EXCEPT !.backoff = FALSE] \in Entry
        BY DEF Entry
      <3>2. ASSUME NEW op \in Ops, Elapse(op) PROVE Held' = Held
        <4>1. entries[op] \in Entry
          BY <3>2, HeldEntries DEF Elapse, OutboxInv, OperationState
        <4>2. entries' = [entries EXCEPT ![op] = [entries[op] EXCEPT !.backoff = FALSE]]
          BY <3>2 DEF Elapse
        <4> QED BY <3>1, <4>1, <4>2, EntriesPresent DEF Held, OutboxInv, TypeOK
      <3>3. ASSUME NEW op \in Ops, requeue(op) PROVE Held' = Held
        <4>1. entries[op] \in Entry
          BY <3>3, HeldEntries DEF requeue, OutboxInv, OperationState
        <4> QED BY <3>3, <4>1, EntriesPresent DEF requeue, Held, OutboxInv, TypeOK
      <3>4. ASSUME expedite PROVE Held' = Held
        <4>1. entries' = [op \in Ops |-> IF op \in In("PENDING") /\ entries[op] # Absent
                            THEN [entries[op] EXCEPT !.backoff = FALSE] ELSE entries[op]]
          BY <3>4 DEF expedite, Updated
        <4>2. \A op \in Ops : entries'[op] # Absent <=> entries[op] # Absent
          BY <3>1, <4>1, EntriesPresent DEF OutboxInv, TypeOK
        <4> QED BY <4>2 DEF Held
      <3> QED BY <2>4, <2>9, <3>2, <3>3, <3>4 DEF Elapse, requeue, expedite
    <2>10. ASSUME UNCHANGED <<captured, entries, ledger, effects>>
           PROVE  UNCHANGED Promise!delivery
      BY <2>4, <2>10 DEF Held
    <2>11. ASSUME \/ Kill
                  \/ \E quality \in NetworkQuality : NetworkChange(quality)
                  \/ \E c \in Calls : Receive(c) \/ Fail(c) \/ Lose(c)
                  \/ \E c \in Calls, op \in Ops : Replay(c, op) \/ Apply(c, op)
                  \/ UNCHANGED vars
           PROVE  UNCHANGED Promise!delivery
      BY <2>10, <2>11 DEF Kill, NetworkChange, Receive, Fail, Lose, Replay, Apply, vars
    <2>12. \A c \in Calls : /\ calls[c].yes \in SUBSET Ops
                            /\ calls[c].new \cap calls[c].yes \in SUBSET Ops
                            /\ calls[c].new \cap calls[c].no \in SUBSET Ops
      BY DEF OutboxInv, TypeOK, Call
    <2>13. ASSUME NEW op \in Ops, enqueue(op) PROVE Promise!DeliveryNext
      BY <2>1, <2>13 DEF Promise!DeliveryNext
    <2>14. ASSUME NEW c \in Calls, Answered(c) PROVE Promise!DeliveryNext
      BY <2>2, <2>12, <2>14 DEF Promise!DeliveryNext
    <2>15. ASSUME NEW c \in Calls, Commit(c) PROVE Promise!DeliveryNext
      <3> DEFINE yes == calls[c].new \cap calls[c].yes
                 no  == calls[c].new \cap calls[c].no
      <3>1. Promise!Settle(yes, no)
        BY <2>3, <2>15
      <3>2. yes \in SUBSET Ops /\ no \in SUBSET Ops
        BY <2>12
      <3> HIDE DEF yes, no
      <3>3. \E y, n \in SUBSET Ops : Promise!Settle(y, n)
        BY <3>1, <3>2 DEF Promise!Settle
      <3> QED BY <3>3 DEF Promise!DeliveryNext
    <2> HIDE DEF OutboxInv
    <2> QED
      BY <2>5, <2>7, <2>8, <2>9, <2>11, <2>13, <2>14, <2>15 DEF Next
  <1> QED
    BY <1>1, <1>2, OutboxAlways, PTL DEF Spec, Delivers, Promise!DeliverySpec

\* NothingDropped and AppliedOnce together, as the run checks them.
THEOREM NothingLostNothingTwice == Spec => []SettledOnce
  BY NeverDropped, ExactlyOnce, PTL DEF SettledOnce
=============================================================================
