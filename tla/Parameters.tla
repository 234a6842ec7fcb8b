----------------------------- MODULE Parameters -----------------------------
(***************************************************************************)
(* The limits the regulator sets and what the rules make of them           *)
(* (regulatory/service.py, regulatory/rules.py, api/regulatory.py).  A     *)
(* limit has periods, one per first day; a rule asks for the one that      *)
(* covers the day of the capture, under the code of its zone first and     *)
(* under the general one else.                                             *)
(*                                                                         *)
(* A session reads the periods of a code and writes later.                 *)
(***************************************************************************)
EXTENDS Naturals, FiniteSets

CONSTANTS
  LastDay,   \* days 1 .. LastDay
  Limits,    \* values a resolution sets, numbers
  Measured,  \* what the capture measured
  Strictness, \* values of `requires_verification` in the calls
  Admins,    \* sessions of administrators
  NoPeriod,
  MaxCalls   \* bound: calls committed

ASSUME LimitsAreNumbers == Limits \subseteq Nat /\ Measured \in Nat /\ LastDay \in Nat /\ Strictness \subseteq BOOLEAN

VARIABLES
  period,  \* regulatory_parameter rows, by code and effective_from
  readAs,  \* values somebody verified, by code and effective_from (regulatory_revision)
  admin,   \* open sessions
  calls,   \* calls committed
  touched  \* code and first day of the last call committed

rvars == <<period, readAs, admin, calls, touched>>

\* The code with the zone class, and the one without.
ParameterCode == {"keyed", "base"}
Dates == 1 .. LastDay
Forever == LastDay + 1  \* effective_to of an open period

PeriodRow == [value: Limits, to: Dates \cup {Forever}, verified: BOOLEAN, strict: BOOLEAN]

ASSUME NoPeriodIsNoRow == NoPeriod \notin PeriodRow

NoAdmin == [act |-> "none"]

ParameterInit ==
  /\ period = [c \in ParameterCode |-> [d \in Dates |-> NoPeriod]]
  /\ readAs = [c \in ParameterCode |-> [d \in Dates |-> {}]]
  /\ admin = [a \in Admins |-> NoAdmin]
  /\ calls = 0
  /\ touched = <<"base", 1>>

-----------------------------------------------------------------------------
(* What is in force *)

Periods(code) == {d \in Dates : period[code][d] # NoPeriod}

in_force_on(code, start, day) == start <= day /\ day <= period[code][start].to

Covering(code, day) == {d \in Periods(code) : in_force_on(code, d, day)}

\* A rule's finding of the capture of a day: `_resolve` falls back to the base
\* code when nothing of the keyed one covers the day.  Two that do are an error
\* nobody handles.
Judged(day) ==
  LET code == IF Covering("keyed", day) # {} THEN "keyed" ELSE "base"
      rows == {period[code][d] : d \in Covering(code, day)}
  IN IF Covering(code, day) = {} THEN [outcome |-> "no_determinable"]
     ELSE IF Cardinality(Covering(code, day)) > 1 THEN [outcome |-> "error"]
     ELSE LET row == CHOOSE r \in rows : TRUE IN
          IF row.strict /\ ~row.verified THEN [outcome |-> "no_determinable"]
          ELSE [outcome |-> IF Measured <= row.value THEN "cumple" ELSE "incumple",
                verified |-> row.verified]

-----------------------------------------------------------------------------
(* Setting a value *)

Calling(a, call) ==
  /\ admin[a] = NoAdmin
  /\ calls < MaxCalls
  /\ admin' = [admin EXCEPT ![a] = call]
  /\ UNCHANGED <<period, readAs, calls, touched>>

\* The periods refuse a new one that starts on `from`: a closed one reaches it,
\* or an open one starts on it or later.
Overlaps(code, from) ==
  \E d \in Periods(code) :
    IF period[code][d].to = Forever THEN d >= from ELSE period[code][d].to >= from

\* Mutant: the new period ends whatever came before it.
EverythingBefore(code, from) == {d \in Periods(code) : d < from}

\* What a new period ends: the open one.
ToClose(code, from) == {d \in Periods(code) : period[code][d].to = Forever}

\* `set_parameter` from the API: nobody can say it is verified.  One that starts
\* the same day is corrected in place, its end included.
SetBegin(a) ==
  \E code \in ParameterCode, from \in Dates, to \in Dates \cup {Forever},
     value \in Limits, strict \in Strictness :
    /\ period[code][from] # NoPeriod \/ ~Overlaps(code, from)
    /\ Calling(a,
         [act |-> IF period[code][from] # NoPeriod THEN "corregido" ELSE "creado",
          code |-> code, from |-> from, to |-> to, value |-> value, strict |-> strict,
          closes |-> IF period[code][from] # NoPeriod THEN {} ELSE ToClose(code, from)])

\* `verify_parameter`
VerifyBegin(a) ==
  \E code \in ParameterCode : \E from \in Periods(code) :
    Calling(a, [act |-> "verificado", code |-> code, from |-> from])

Committed(a) ==
  /\ calls' = calls + 1
  /\ touched' = <<admin[a].code, admin[a].from>>
  /\ admin' = [admin EXCEPT ![a] = NoAdmin]

\* uq_regulatory_code_from lets one of two that create the same period commit.
SetCommit(a) ==
  LET call == admin[a] IN
  /\ call.act \in {"creado", "corregido"}
  /\ call.act = "creado" => period[call.code][call.from] = NoPeriod
  /\ period' = [period EXCEPT ![call.code] = [d \in Dates |->
       IF d = call.from
       THEN [value |-> call.value, to |-> call.to, strict |-> call.strict,
             verified |-> IF call.act = "creado" THEN FALSE ELSE @[d].verified]
       ELSE IF d \in call.closes THEN [@[d] EXCEPT !.to = call.from - 1]
       ELSE @[d]]]
  /\ UNCHANGED readAs
  /\ Committed(a)

VerifyCommit(a) ==
  LET call == admin[a] IN
  /\ call.act = "verificado"
  /\ period' = [period EXCEPT ![call.code][call.from].verified = TRUE]
  /\ readAs' = [readAs EXCEPT ![call.code][call.from] =
       @ \cup {period[call.code][call.from].value}]
  /\ Committed(a)

AdminEnds(a) ==
  /\ admin[a] # NoAdmin
  /\ admin' = [admin EXCEPT ![a] = NoAdmin]
  /\ UNCHANGED <<period, readAs, calls, touched>>

ParameterNext ==
  \E a \in Admins :
    SetBegin(a) \/ VerifyBegin(a) \/ SetCommit(a) \/ VerifyCommit(a) \/ AdminEnds(a)

ParameterSpec == ParameterInit /\ [][ParameterNext]_rvars

-----------------------------------------------------------------------------
(* Properties *)

ParameterTypeOK ==
  /\ period \in [ParameterCode -> [Dates -> PeriodRow \cup {NoPeriod}]]
  /\ readAs \in [ParameterCode -> [Dates -> SUBSET Limits]]
  /\ calls \in 0 .. MaxCalls
  /\ touched \in ParameterCode \X Dates

\* "A supervisor's approval from March must stay explicable against March's
\* limit": what a rule makes of a capture of some day is changed by no
\* resolution, correction or verification of a period that starts later,
\* whatever periods it ends.
PastStands ==
  [][\A day \in Dates : calls' # calls /\ day < touched'[2] => Judged(day)' = Judged(day)]_rvars

(* What the documents say and the code does not keep *)

\* "Overlaps are refused rather than resolved by picking one, because two
\* limits in force on the same day means somebody imported a resolution wrong."
PeriodsApart ==
  \A c \in ParameterCode, day \in Dates : Cardinality(Covering(c, day)) <= 1

\* "A person read the official text and this value matches it."
VerifiedAsRead ==
  \A c \in ParameterCode : \A d \in Periods(c) :
    period[c][d].verified => period[c][d].value \in readAs[c][d]
=============================================================================
