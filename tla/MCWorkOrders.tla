---------------------------- MODULE MCWorkOrders ----------------------------
(* Instances of WorkOrders for TLC: one order, two phones, one crew each.  *)
EXTENDS WorkOrders, TLC

CONSTANTS d1, d2, c1, c2

MCAnswersFor == d1 :> {c1} @@ d2 :> {c2}
MCTargets == {<<c1, d1>>, <<c2, None>>}

(* The same handlers from an order that one phone is executing, reached   *)
(* one handler after another.                                              *)
InitWorked ==
  /\ order = [o \in Orders |->
       [state |-> "in_execution", version |-> 6, assignee |-> c1,
        planner |-> CHOOSE p \in Planners : TRUE]]
  /\ custody = [o \in Orders |->
       <<[device |-> d1, assignee |-> c1, open |-> TRUE, unsynced |-> FALSE]>>]
  /\ response \in [Orders -> {[state |-> "borrador", by |-> d1],
                              [state |-> "enviada", by |-> d1]}]
  /\ milestones = [o \in Orders |-> Milestone \ {"fin"}]
  /\ handed = [o \in Orders |-> {d1}]
  /\ arrived = [o \in Orders |-> {d1}]
  /\ txn = [s \in Sessions |-> Idle]

SpecWorked == InitWorked /\ [][Next]_vars

MCSymmetry == Permutations(Sessions) \cup Permutations(Planners)
=============================================================================
