------------------------------ MODULE Delivery ------------------------------
(***************************************************************************)
(* What the synchronisation of captured work promises, with no network and *)
(* no queue in it: an operation captured on the phone takes effect on the  *)
(* server at most once, is answered once and for all, and is forgotten by  *)
(* the phone only after it took effect.                                    *)
(***************************************************************************)
EXTENDS Naturals

CONSTANT Ops   \* the operations a phone can capture

VARIABLES
  captured,    \* operations the technician recorded
  held,        \* operations the phone keeps
  effects,     \* how many times each took effect on the server
  refused      \* operations the server answered no to

delivery == <<captured, held, effects, refused>>

DeliveryInit ==
  /\ captured = {}
  /\ held = {}
  /\ effects = [op \in Ops |-> 0]
  /\ refused = {}

\* Saving again what was saved before keeps it on the phone a little longer.
Keep(op) ==
  /\ captured' = captured \cup {op}
  /\ held' = held \cup {op}
  /\ UNCHANGED <<effects, refused>>

\* The server settles operations nobody settled before.
Settle(yes, no) ==
  /\ yes \cap no = {}
  /\ \A op \in yes \cup no : op \in captured /\ effects[op] = 0 /\ op \notin refused
  /\ effects' = [op \in Ops |-> IF op \in yes THEN effects[op] + 1 ELSE effects[op]]
  /\ refused' = refused \cup no
  /\ UNCHANGED <<captured, held>>

\* The phone forgets what took effect.
Forget(done) ==
  /\ \A op \in done : effects[op] = 1
  /\ held' = held \ done
  /\ UNCHANGED <<captured, effects, refused>>

DeliveryNext ==
  \/ \E op \in Ops : Keep(op)
  \/ \E yes, no \in SUBSET Ops : Settle(yes, no)
  \/ \E done \in SUBSET Ops : Forget(done)

DeliverySpec == DeliveryInit /\ [][DeliveryNext]_delivery
=============================================================================
