--------------------------- MODULE CapturePolicies ---------------------------
(***************************************************************************)
(* The capture policy of a unit and of its zones (policy/service.py,       *)
(* api/policy.py) and the working hours a phone reports its position in    *)
(* (PositionSchedule.kt, which repeats within_workday).                    *)
(*                                                                         *)
(* Two of the fields are kept, the ones the hours depend on; the rest are  *)
(* columns of the same kind.  A screen reads the row of its scope and      *)
(* writes, when its transaction ends, the columns whose value it changed.  *)
(***************************************************************************)
EXTENDS Integers, FiniteSets

CONSTANTS
  Editors,      \* sessions of the administrators
  Hours,        \* hours an administrator may set
  DefaultStart, DefaultEnd,
  DayLength, WeekLength,
  WorkingDays,  \* workdays, of 1 .. WeekLength
  ReportEvery,  \* position_report_minutes, in the unit of the clock
  NoOpinion, Unsent,
  MaxRows       \* bound: rows ever created

ASSUME ClockGiven ==
  /\ DayLength \in Nat \ {0} /\ WeekLength \in Nat \ {0} /\ ReportEvery \in 1 .. DayLength
  /\ Hours \subseteq 0 .. DayLength
  /\ DefaultStart \in 0 .. DayLength - 1 /\ DefaultEnd \in 0 .. DayLength
  /\ NoOpinion \notin 0 .. DayLength /\ Unsent \notin Hours \cup {NoOpinion}
  /\ MaxRows \in Nat
  /\ WorkingDays \subseteq 1 .. WeekLength /\ WorkingDays # {}

VARIABLES
  policy,     \* capture_policy, one row per scope
  rows_made,  \* rows created so far
  asking      \* open screens

pcvars == <<policy, rows_made, asking>>

FIELDS == {"workday_start", "workday_end"}
Scope == {"unidad", "zona"}
DEFAULTS == [workday_start |-> DefaultStart, workday_end |-> DefaultEnd]

Opinion == [FIELDS -> Hours \cup {NoOpinion}]
Silence == [f \in FIELDS |-> NoOpinion]

\* Row 0 is no row.
PolicyRow == [id: 0 .. MaxRows, says: Opinion]
NoPolicy == [id |-> 0, says |-> Silence]

Closed == [act |-> "none"]

PolicyInit ==
  /\ policy = [s \in Scope |-> NoPolicy]
  /\ rows_made = 0
  /\ asking = [e \in Editors |-> Closed]

\* Most specific first; a scope without a row has no opinion.
resolve_field(f) ==
  IF policy["zona"].says[f] # NoOpinion THEN [value |-> policy["zona"].says[f], source |-> "zona"]
  ELSE IF policy["unidad"].says[f] # NoOpinion
       THEN [value |-> policy["unidad"].says[f], source |-> "unidad"]
       ELSE [value |-> DEFAULTS[f], source |-> "por omision"]

effective == [f \in FIELDS |-> resolve_field(f).value]

-----------------------------------------------------------------------------
(* The screens *)

Changes == [FIELDS -> Hours \cup {NoOpinion, Unsent}]

\* `_validate` looks at the fields of one request: the midnight that ends a day
\* starts none, and a day that starts and ends at the same hour is refused when
\* both come together.
_validate(changes) ==
  /\ changes["workday_start"] # DayLength
  /\ ~(changes["workday_start"] \in Hours /\ changes["workday_start"] = changes["workday_end"])

SetBegin(e) ==
  /\ asking[e] = Closed
  /\ \E s \in Scope, changes \in Changes :
       /\ _validate(changes)
       /\ \E f \in FIELDS : changes[f] # Unsent
       /\ asking' = [asking EXCEPT ![e] =
            [act |-> "set", scope |-> s, read |-> policy[s], asked |-> changes]]
  /\ UNCHANGED <<policy, rows_made>>

\* The columns the screen sent with another value than the one it had read.
Written(screen) ==
  {f \in FIELDS : screen.asked[f] # Unsent /\ screen.asked[f] # screen.read.says[f]}

Saved(screen, says) ==
  [f \in FIELDS |->
     IF f \notin Written(screen) THEN says[f]
     ELSE IF screen.asked[f] = Unsent THEN screen.read.says[f] ELSE screen.asked[f]]

\* An insertion meets the unique index of the scope; an update of a row that
\* is gone matches nothing and fails.
SetCommit(e) ==
  LET screen == asking[e]
      s == screen.scope
      creates == screen.read = NoPolicy
      fails == policy[s].id # screen.read.id
  IN /\ screen.act = "set"
     /\ creates /\ ~fails => rows_made < MaxRows
     /\ IF fails THEN UNCHANGED <<policy, rows_made>>
        ELSE /\ policy' = [policy EXCEPT ![s] =
                  [id |-> IF creates THEN rows_made + 1 ELSE @.id, says |-> Saved(screen, @.says)]]
             /\ rows_made' = IF creates THEN rows_made + 1 ELSE rows_made
     /\ asking' = [asking EXCEPT ![e] = Closed]

ClearBegin(e) ==
  /\ asking[e] = Closed
  /\ policy["zona"] # NoPolicy
  /\ asking' = [asking EXCEPT ![e] = [act |-> "clear", id |-> policy["zona"].id]]
  /\ UNCHANGED <<policy, rows_made>>

\* The deletion names the row that was read: gone, it deletes nothing.
ClearCommit(e) ==
  /\ asking[e].act = "clear"
  /\ policy' = IF policy["zona"].id = asking[e].id THEN [policy EXCEPT !["zona"] = NoPolicy] ELSE policy
  /\ asking' = [asking EXCEPT ![e] = Closed]
  /\ UNCHANGED rows_made

PolicyNext ==
  \E e \in Editors : SetBegin(e) \/ SetCommit(e) \/ ClearBegin(e) \/ ClearCommit(e)

PolicySpec == PolicyInit /\ [][PolicyNext]_pcvars

-----------------------------------------------------------------------------
(* The working hours, by the server's clock and by the phone's scheduler.   *)
(* A moment counts the hours from a Monday at midnight.                     *)

DayOf(m) == m \div DayLength
Weekday(day) == (day % WeekLength) + 1
HourOf(m) == m % DayLength

\* Mutant: the small hours are counted to the day they fall on.
within_today(p, m) ==
  LET start == p["workday_start"]
      end == p["workday_end"]
      today == Weekday(DayOf(m)) \in WorkingDays
  IN today /\ IF start < end THEN start <= HourOf(m) /\ HourOf(m) < end
              ELSE HourOf(m) >= start \/ HourOf(m) < end

\* A window that ends before it starts belongs to the day it started on.
within_workday(p, m) ==
  LET start == p["workday_start"]
      end == p["workday_end"]
      today == Weekday(DayOf(m)) \in WorkingDays
  IN IF start < end THEN today /\ start <= HourOf(m) /\ HourOf(m) < end
     ELSE IF HourOf(m) >= start THEN today
     ELSE HourOf(m) < end /\ Weekday(DayOf(m) + WeekLength - 1) \in WorkingDays

\* `last` is the last report, or a moment long past.
decide(p, consented, last, now) ==
  IF ~consented THEN "NO_CONSENT"
  ELSE IF ~within_workday(p, now) THEN "OFF_HOURS"
  ELSE IF now - last < ReportEvery THEN "WAIT"
  ELSE "REPORT_NOW"

Never == -1
Earliest(moments) == CHOOSE m \in moments : \A n \in moments : m <= n

\* The first minute of the day from the candidate on, within a week and a day.
nextWakeMillis(p, consented, last, now) ==
  LET decision == decide(p, consented, last, now)
      candidate == IF decision = "WAIT" THEN last + ReportEvery ELSE now + 1
      open == {m \in candidate .. now + (WeekLength + 1) * DayLength : within_workday(p, m)}
  IN IF ~consented THEN Never
     ELSE IF decision = "REPORT_NOW" THEN now
     ELSE IF open = {} THEN Never ELSE Earliest(open)

-----------------------------------------------------------------------------
(* Properties *)

PolicyTypeOK ==
  /\ policy \in [Scope -> PolicyRow]
  /\ rows_made \in 0 .. MaxRows

\* The shifts themselves: each starts on a working day and lasts up to its
\* end, on the next day when that hour is not after the start.
OnShift(p, m) ==
  LET length == IF p["workday_start"] < p["workday_end"]
                THEN p["workday_end"] - p["workday_start"]
                ELSE p["workday_end"] + DayLength - p["workday_start"]
  IN \E day \in {DayOf(m) - 1, DayOf(m)} :
       /\ Weekday(day + WeekLength) \in WorkingDays
       /\ m - (day * DayLength + p["workday_start"]) \in 0 .. length - 1

\* Whatever the administrators saved, in one request or in several: a phone
\* wakes inside a shift, and sleeps through no moment of one at which its last
\* report was old enough.
SleepsThroughNothing ==
  rows_made # 0 /\ (\A e \in Editors : asking[e] = Closed) =>
    \A now \in 0 .. WeekLength * DayLength - 1, ago \in 0 .. ReportEvery :
      LET wake == nextWakeMillis(effective, TRUE, now - ago, now) IN
      /\ OnShift(effective, wake)
      /\ \A m \in now .. wake - 1 : ~(OnShift(effective, m) /\ m - (now - ago) >= ReportEvery)

(* What the documents say and the code does not keep *)

\* "la jornada no puede empezar y terminar a la misma hora": two requests, or
\* a zone and its unit, can still leave it so.
DayHasAnEnd == effective["workday_start"] # effective["workday_end"]
=============================================================================
