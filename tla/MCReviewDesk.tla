---------------------------- MODULE MCReviewDesk ----------------------------
(* Instances of ReviewDesk for TLC: a claim of the call centre that        *)
(* recorded an interruption, from its first synchronisation, beside an     *)
(* order that was rated already and can be held back from a batch.         *)
EXTENDS ReviewDesk, TLC

CONSTANTS o1, o2, r1, r2

InitBeside ==
  /\ order = (o1 :> "closed_field" @@ o2 :> "synced")
  /\ response = (o1 :> [state |-> "none", capture |-> 0] @@
                 o2 :> [state |-> "enviada", capture |-> MaxCaptures])
  /\ runs = (o1 :> <<>> @@
             o2 :> <<[state |-> "terminado", risk |-> "low", capture |-> MaxCaptures]>>)
  /\ draw = [o \in Orders |-> Undrawn]
  /\ decisions = [o \in Orders |-> <<>>]
  /\ ledger = [key \in Keys |-> NoEvent]
  /\ txn = [s \in Sessions |-> Idle]
  /\ pass = [w \in Workers |-> {}]
  /\ seen = {}
  /\ kills = 0

MCRefOf == o1 :> r1 @@ o2 :> r2
MCMaxDecisions == o1 :> 2 @@ o2 :> 0

SpecBeside == InitBeside /\ [][Next]_vars /\ Fairness
=============================================================================
