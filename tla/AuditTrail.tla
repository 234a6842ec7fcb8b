----------------------------- MODULE AuditTrail -----------------------------
(***************************************************************************)
(* The trail of each business unit (audit/service.py): a chain of events   *)
(* in which each names the digest of the one before.  Every service calls  *)
(* `record` inside the transaction of what it records; the advisory lock   *)
(* of the unit makes the appends of a unit wait for each other.            *)
(*                                                                         *)
(* A digest is the sequence of all that was hashed into it, so two chains  *)
(* have one digest only when they are one chain.                           *)
(***************************************************************************)
EXTENDS Naturals, Sequences

CONSTANTS
  Units, Facts,  \* business units; what an event may say
  Writers,       \* transactions that may be open at once
  MaxChain       \* bound: events of a unit

VARIABLES
  chain,   \* committed events of each unit
  holder,  \* writer that holds the lock of each unit, or nobody
  writing  \* events each open transaction appended, per unit

tvars == <<chain, holder, writing>>

GENESIS == <<>>
Digest == Seq(Nat \X Facts)
Nobody == "nobody"

ASSUME NobodyWrites == Nobody \notin Writers

TrailInit ==
  /\ chain = [u \in Units |-> <<>>]
  /\ holder = [u \in Units |-> Nobody]
  /\ writing = [w \in Writers |-> [u \in Units |-> <<>>]]

\* What the digest covers.
canonical(sequence, fact) == <<sequence, fact>>
digest(prev_hash, text) == Append(prev_hash, text)
recompute(event) == digest(event.prev_hash, canonical(event.sequence, event.fact))

\* `_tail`: what is committed, and what this transaction appended.
Visible(w, u) == chain[u] \o writing[w][u]

\* The event `record` appends after what the transaction sees.
NextEvent(seen, fact) ==
  LET sequence == Len(seen) + 1
      prev_hash == IF seen = <<>> THEN GENESIS ELSE seen[Len(seen)].hash IN
  [sequence |-> sequence, fact |-> fact, prev_hash |-> prev_hash,
   hash |-> digest(prev_hash, canonical(sequence, fact))]

\* Mutant: appends do not wait for each other.
NoLock(w, u) == TRUE

\* `_lock`
Locks(w, u) == holder[u] \in {Nobody, w}

record(w, u) ==
  /\ Locks(w, u)
  /\ Len(Visible(w, u)) < MaxChain
  /\ holder' = [holder EXCEPT ![u] = w]
  /\ \E fact \in Facts :
       writing' = [writing EXCEPT ![w][u] = Append(@, NextEvent(Visible(w, u), fact))]
  /\ UNCHANGED chain

Released(w) == [u \in Units |-> IF holder[u] = w THEN Nobody ELSE holder[u]]
Empty == [u \in Units |-> <<>>]

TrailCommit(w) ==
  /\ writing[w] # Empty
  /\ chain' = [u \in Units |-> Visible(w, u)]
  /\ writing' = [writing EXCEPT ![w] = Empty]
  /\ holder' = Released(w)

\* The domain work fails, the process dies, or two writers wait for the lock
\* the other holds and PostgreSQL ends one.
TrailRollback(w) ==
  /\ writing[w] # Empty
  /\ writing' = [writing EXCEPT ![w] = Empty]
  /\ holder' = Released(w)
  /\ UNCHANGED chain

TrailNext ==
  \E w \in Writers :
    (\E u \in Units : record(w, u)) \/ TrailCommit(w) \/ TrailRollback(w)

TrailSpec == TrailInit /\ [][TrailNext]_tvars

-----------------------------------------------------------------------------
(* Verification *)

\* `verify`: the first place where the chain breaks, 0 when it holds.
broken_at(events) ==
  LET expected_prev(i) == IF i = 1 THEN GENESIS ELSE events[i - 1].hash
      Breaks(i) == \/ events[i].sequence # i
                   \/ events[i].prev_hash # expected_prev(i)
                   \/ recompute(events[i]) # events[i].hash
      broken == {i \in DOMAIN events : Breaks(i)} IN
  IF broken = {} THEN 0
  ELSE events[CHOOSE i \in broken : \A j \in broken : i <= j].sequence

Without(events, i) == [j \in 1..(Len(events) - 1) |-> events[IF j < i THEN j ELSE j + 1]]

-----------------------------------------------------------------------------
(* Properties *)

Event == [sequence: Nat, fact: Facts, prev_hash: Digest, hash: Digest]

TrailTypeOK ==
  /\ chain \in [Units -> Seq(Event)]
  /\ holder \in [Units -> Writers \cup {Nobody}]
  /\ writing \in [Writers -> [Units -> Seq(Event)]]

\* "Append ... without losing the domain work": whatever transactions append to
\* a unit, roll back and append again, what a transaction is about to commit
\* continues the chain as it is committed by then, so no commit is refused and
\* no two events claim one predecessor.
AppendsContinue ==
  \A w \in Writers, u \in Units :
    writing[w][u] # <<>> => broken_at(Visible(w, u)) = 0

\* RF-160: an event that is taken out of the middle, or rewritten in place,
\* breaks the chain at or after its place, and only then.
TamperingShows ==
  \A u \in Units :
    /\ broken_at(chain[u]) = 0
    /\ \A i \in DOMAIN chain[u] :
         /\ i < Len(chain[u]) => broken_at(Without(chain[u], i)) # 0
         /\ \A fact \in Facts \ {chain[u][i].fact} :
              broken_at([chain[u] EXCEPT ![i].fact = fact]) = i

\* The trail holds: what is appended continues it, and what is altered breaks it.
TrailHolds == AppendsContinue /\ TamperingShows

(* What the documents say and the code does not keep *)

\* "A gap in the sequence is somebody removing the last one."
LastRemovalShows ==
  \A u \in Units : chain[u] # <<>> => broken_at(Without(chain[u], Len(chain[u]))) # 0
=============================================================================
