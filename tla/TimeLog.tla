------------------------------ MODULE TimeLog ------------------------------
(***************************************************************************)
(* When the work was done: the times a phone notes as an order moves, what *)
(* it corrects, what arrives of it, and the supervisor who corrects the    *)
(* same times (TimeLog.kt, workorders/service.py, sync/operations.py,      *)
(* api/planning.py).                                                       *)
(*                                                                         *)
(* One order.  A phone's operations leave in order, each until it is       *)
(* answered, and count once (module DeviceOutbox).  Whether the order can  *)
(* still make a transition is module WorkOrders: here it can or cannot.    *)
(***************************************************************************)
EXTENDS Integers, Sequences, OrderLifecycle

CONSTANTS
  Moments,        \* bound: the milestones followed
  Handhelds,      \* phones that work on the order
  Ahead,          \* how far the clock of each is ahead of the server's
  Supervisors,    \* sessions at the desk
  FUTURE_SLACK,
  Slots,          \* the times anybody corrects to
  MaxHour,        \* bound: the server's clock
  MaxOps          \* bound: operations of a phone

ASSUME MomentsAssumption == Moments \subseteq Milestone
\* Times are since the epoch; a clock may be ahead of the server's or behind it.
ASSUME ClocksGiven ==
  /\ Ahead \in [Handhelds -> Int] /\ FUTURE_SLACK \in Nat
  /\ Slots \subseteq Nat
\* The trail tells the desk from a phone.
ASSUME NobodyIsAPhone == Supervisors \cap Handhelds = {}

VARIABLES
  hour,      \* the server's clock
  logs,      \* the time log of each phone
  outbox,    \* its operations not answered yet
  times,     \* work_order_milestone rows
  timeTrail, \* the entries of the audit trail about them
  forms,     \* a correction at the desk, read and not written
  answered   \* history: operations of each phone applied, and refused

tlvars == <<hour, logs, outbox, times, timeTrail, forms, answered>>

NoTime == -1
NotReached == [device |-> NoTime]
NoForm == [milestone |-> "none"]
Clock(p) == hour + Ahead[p]

\* `effective_time`: the correction, else the phone's.
effective_time(row) == IF row.corrected # NoTime THEN row.corrected ELSE row.device

TimeLogInit ==
  /\ hour = 1
  /\ logs = [p \in Handhelds |-> [m \in Moments |-> NotReached]]
  /\ outbox = [p \in Handhelds |-> <<>>]
  /\ times = [m \in Moments |-> NotReached]
  /\ timeTrail = <<>>
  /\ forms = [s \in Supervisors |-> NoForm]
  /\ answered = [p \in Handhelds |-> [applied |-> 0, refused |-> 0]]

Room(p) == Len(outbox[p]) + answered[p].applied + answered[p].refused < MaxOps

-----------------------------------------------------------------------------
(* The phone *)

\* The first time only: a resumed job does not restart its clock.
onTransition(log, m, time) ==
  IF log[m] # NotReached THEN log ELSE [log EXCEPT ![m] = [device |-> time, corrected |-> NoTime]]

\* The transition leaves with the time of this one, first or not.
PhoneMoves(p, m) ==
  /\ Room(p)
  /\ m = "fin" => logs[p]["inicio"] # NotReached
  /\ logs' = [logs EXCEPT ![p] = onTransition(@, m, Clock(p))]
  /\ outbox' = [outbox EXCEPT ![p] =
       Append(@, [kind |-> "transition", milestone |-> m, time |-> Clock(p), made |-> hour])]
  /\ UNCHANGED <<hour, times, timeTrail, forms, answered>>

correct(p, m, time) ==
  /\ Room(p)
  /\ logs[p][m] # NotReached
  /\ time <= Clock(p) + FUTURE_SLACK
  /\ logs' = [logs EXCEPT ![p][m].corrected = time]
  /\ outbox' = [outbox EXCEPT ![p] =
       Append(@, [kind |-> "time_correction", milestone |-> m, time |-> time, made |-> hour])]
  /\ UNCHANGED <<hour, times, timeTrail, forms, answered>>

-----------------------------------------------------------------------------
(* The server *)

\* Mutant: the last time an order passes is the one that stays.
RestartedClock(m, time) ==
  [times EXCEPT ![m] = [device |-> time, corrected |-> IF @ = NotReached THEN NoTime ELSE @.corrected]]

_record_milestone(m, time) ==
  IF times[m] # NotReached THEN times ELSE [times EXCEPT ![m] = [device |-> time, corrected |-> NoTime]]

\* `correct_milestone`: not before it was reached, not in the future.  The trail says
\* from what, as it was read, to what.
Correctable(m, time) == times[m] # NotReached /\ time <= hour + FUTURE_SLACK
Corrected(m, time) == [times EXCEPT ![m].corrected = time]
Entry(m, from, time, by, made) == [milestone |-> m, from |-> from, to |-> time, by |-> by, made |-> made]

\* An operation is applied or refused, and counted; a refused one the phone parks.
Applied(p, yes) ==
  /\ outbox' = [outbox EXCEPT ![p] = Tail(@)]
  /\ answered' = IF yes THEN [answered EXCEPT ![p].applied = @ + 1]
                 ELSE [answered EXCEPT ![p].refused = @ + 1]
  /\ UNCHANGED <<hour, logs, forms>>

DeliverTransition(p) ==
  /\ outbox[p] # <<>> /\ Head(outbox[p]).kind = "transition"
  /\ \E possible \in BOOLEAN :
       /\ Applied(p, possible)
       /\ times' = IF possible THEN _record_milestone(Head(outbox[p]).milestone, Head(outbox[p]).time)
                   ELSE times
  /\ UNCHANGED timeTrail

_apply_time_correction(p) ==
  /\ outbox[p] # <<>> /\ Head(outbox[p]).kind = "time_correction"
  /\ LET op == Head(outbox[p])
         yes == Correctable(op.milestone, op.time)
     IN /\ Applied(p, yes)
        /\ times' = IF yes THEN Corrected(op.milestone, op.time) ELSE times
        /\ timeTrail' = IF yes THEN Append(timeTrail, Entry(op.milestone,
                          effective_time(times[op.milestone]), op.time, p, op.made)) ELSE timeTrail

\* `put_milestone`, until it writes.
PutMilestone(s, m, time) ==
  /\ forms[s] = NoForm
  /\ Len(timeTrail) < MaxOps
  /\ Correctable(m, time)
  /\ forms' = [forms EXCEPT ![s] = [milestone |-> m, time |-> time, made |-> hour,
                                    from |-> effective_time(times[m])]]
  /\ UNCHANGED <<hour, logs, outbox, times, timeTrail, answered>>

\* Only the columns of the correction are written; the row is held until the commit,
\* and the trail is written after it.
PutCommit(s) ==
  /\ forms[s] # NoForm
  /\ times' = Corrected(forms[s].milestone, forms[s].time)
  /\ timeTrail' = Append(timeTrail,
       Entry(forms[s].milestone, forms[s].from, forms[s].time, s, forms[s].made))
  /\ forms' = [forms EXCEPT ![s] = NoForm]
  /\ UNCHANGED <<hour, logs, outbox, answered>>

Tick == hour < MaxHour /\ hour' = hour + 1
        /\ UNCHANGED <<logs, outbox, times, timeTrail, forms, answered>>

TimeLogNext ==
  \/ Tick
  \/ \E p \in Handhelds :
       \/ \E m \in Moments : PhoneMoves(p, m) \/ \E time \in Slots : correct(p, m, time)
       \/ DeliverTransition(p) \/ _apply_time_correction(p)
  \/ \E s \in Supervisors :
       \/ \E m \in Moments, time \in Slots : PutMilestone(s, m, time)
       \/ PutCommit(s)
TimeLogSpec == TimeLogInit /\ [][TimeLogNext]_tlvars

-----------------------------------------------------------------------------
(* Properties *)

\* The entries of the trail about a milestone, and the last of them.
Noted(m) == {i \in DOMAIN timeTrail : timeTrail[i].milestone = m}
LastNoted(m, i) == i \in Noted(m) /\ \A j \in Noted(m) : j <= i
WorkedAlone(p) == \A other \in Handhelds \ {p} : answered[other].applied = 0

\* The times of the server are those of the phone, whenever they arrive and whoever
\* corrects them meanwhile: a phone that worked alone, with nothing left to send and
\* nothing refused, finds the very times it noted, and its corrections unless the desk
\* made one; a time in force is what the last entry of the trail says, or what the
\* phone noted; and the one it was first is still beside it.
PhoneTimesStand ==
  /\ \A m \in Moments : times[m] # NotReached =>
       /\ IF Noted(m) = {} THEN effective_time(times[m]) = times[m].device
          ELSE \E i \in Noted(m) : LastNoted(m, i) /\ effective_time(times[m]) = timeTrail[i].to
       /\ \E p \in Handhelds : logs[p][m] # NotReached /\ times[m].device >= logs[p][m].device
       /\ Noted(m) # {} => times[m].corrected # NoTime
  /\ \A p \in Handhelds :
       WorkedAlone(p) /\ outbox[p] = <<>> /\ answered[p].refused = 0 =>
         \A m \in Moments :
           /\ (logs[p][m] = NotReached) = (times[m] = NotReached)
           /\ times[m] # NotReached =>
                /\ times[m].device = logs[p][m].device
                /\ (\A i \in Noted(m) : timeTrail[i].by = p) => times[m] = logs[p][m]

(* What the documents say and the code does not keep *)

\* "What the phone accepts the server accepts": each allows five minutes past its own
\* clock, so a phone ahead by less than that may correct what the server refuses.
ServerAcceptsTheSame ==
  \A p \in Handhelds :
    (outbox[p] # <<>> /\ Head(outbox[p]).kind = "time_correction" /\ answered[p].refused = 0)
      => Correctable(Head(outbox[p]).milestone, Head(outbox[p]).time)

\* "Correcting again replaces the correction": the one that stands is the last to
\* arrive, not the last made.
LastMadeStands ==
  \A m \in Moments : \A i, j \in Noted(m) :
    LastNoted(m, i) => timeTrail[j].made <= timeTrail[i].made

\* "The trail records from what to what": two corrections at once start from the same.
TrailChains ==
  \A m \in Moments : \A i, j \in Noted(m) :
    i < j /\ (\A k \in Noted(m) : k <= i \/ j <= k) => timeTrail[j].from = timeTrail[i].to

\* The end of the work is not before its beginning: nothing compares the two.
EndsAfterItStarts ==
  \A m \in Moments : (times["inicio"] # NotReached /\ times["fin"] # NotReached) =>
    effective_time(times["inicio"]) <= effective_time(times["fin"])
=============================================================================
