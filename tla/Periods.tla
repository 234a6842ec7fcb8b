------------------------------- MODULE Periods -------------------------------
(***************************************************************************)
(* The calendar of a preventive plan (plans/periods.py): the label of the  *)
(* period a date falls in, and whether the plan fires on a date.           *)
(***************************************************************************)
EXTENDS Integers, Sequences

Cadence == {"mensual", "trimestral", "semestral", "anual", "dias"}

MONTHS ==
  [c \in Cadence |-> CASE c = "mensual" -> 1 [] c = "trimestral" -> 3
                       [] c = "semestral" -> 6 [] c = "anual" -> 12 [] OTHER -> 1]

MAX_DAY_OF_MONTH == 28

\* datetime.date, from year 1.
Leap(year) == year % 4 = 0 /\ (year % 100 # 0 \/ year % 400 = 0)
DaysBefore(month) ==
  <<0, 31, 59, 90, 120, 151, 181, 212, 243, 273, 304, 334>>[month]
Ordinal(d) ==
  LET past == d.year - 1 IN
  past * 365 + past \div 4 - past \div 100 + past \div 400
    + DaysBefore(d.month) + (IF d.month > 2 /\ Leap(d.year) THEN 1 ELSE 0) + d.day

Date == [year: Nat \ {0}, month: 1..12, day: 1..31]
Rule == [cadence: Cadence, cadence_days: Nat, day_of_month: 1..MAX_DAY_OF_MONTH]

CONSTANT CalendarPlans  \* rules of the calendar, each with the day its plan starts

VARIABLE asked  \* the one that is looked at, or none

NoPlan == [rule |-> "none"]

ASSUME CalendarPlansGiven ==
  \A p \in CalendarPlans : p.rule \in Rule /\ p.rule.cadence # "dias" /\ p.anchor \in Date

\* A label names the cadence and the number of the period: two labels are
\* written the same when they are equal.
period_of(rule, on, anchor) ==
  LET days == IF rule.cadence_days = 0 THEN 1 ELSE rule.cadence_days
      elapsed == Ordinal(on) - Ordinal(anchor)
      index == IF elapsed >= 0 THEN elapsed \div days ELSE 0 IN
  IF rule.cadence = "dias" THEN <<"dias", Ordinal(anchor) + index * days>>
  ELSE <<rule.cadence, on.year, (on.month - 1) \div MONTHS[rule.cadence] + 1>>

\* Mutant: a calendar plan fires in every month of its period.
start_every_month(months, on_month, anchor_month) == on_month

\* The first month of the period, anchored by the month the plan starts in.
start_month(months, on_month, anchor_month) == ((anchor_month - 1) % months) + 1

is_due(rule, on, anchor) ==
  LET months == MONTHS[rule.cadence] IN
  /\ Ordinal(on) >= Ordinal(anchor)
  /\ \/ rule.cadence = "dias"
     \/ /\ (on.month - start_month(months, on.month, anchor.month)) % months = 0
        /\ on.day >= rule.day_of_month

-----------------------------------------------------------------------------
(* Properties *)

Days(year) == [year: {year}, month: 1..12, day: 1..MAX_DAY_OF_MONTH]
DueDays(rule, year, anchor) == {d \in Days(year) : is_due(rule, d, anchor)}

\* "Without losing a month of preventive work", "the period label stops it
\* issuing them twice": in a year after the one a calendar plan starts in, every
\* period has days the plan fires on, all in one month, and none of its labels
\* comes back the year after.
FiresOncePerPeriod(rule, anchor) ==
  LET year == anchor.year + 1
      due == DueDays(rule, year, anchor)
      label(d) == period_of(rule, d, anchor) IN
  /\ {label(d) : d \in due} = {label(d) : d \in Days(year)}
  /\ \A d, e \in due : label(d) = label(e) => d.month = e.month
  /\ {label(d) : d \in due} \cap {label(d) : d \in DueDays(rule, year + 1, anchor)} = {}

\* Any calendar plan is looked at, and left.
CalendarInit == asked = NoPlan
CalendarNext == \/ asked = NoPlan /\ asked' \in CalendarPlans
                \/ asked # NoPlan /\ asked' = NoPlan
CalendarSpec == CalendarInit /\ [][CalendarNext]_asked

\* Of every calendar plan: monthly, quarterly, half-yearly and yearly.
CalendarFires == asked # NoPlan => FiresOncePerPeriod(asked.rule, asked.anchor)
=============================================================================
