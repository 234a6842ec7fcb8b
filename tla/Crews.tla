------------------------------- MODULE Crews -------------------------------
(***************************************************************************)
(* The roster of crews, which of them to send, and the selection that      *)
(* sends one (workorders/service.py, assignment/suggest.py, auth/scope.py, *)
(* api/crews.py, api/planning.py).                                         *)
(*                                                                         *)
(* Places lie on a line, by kilometre.  An order's zone, form and due date *)
(* do not change here; agencies narrow as zones do and are left out.  An   *)
(* answer is read before anything else happens.                            *)
(***************************************************************************)
EXTENDS Integers, Sequences, FiniteSets, SequencesExt

CONSTANTS
  CrewCodes,     \* codes of crews, in their order
  ContractorOf,  \* the contractor of each, which no screen edits
  Rows,          \* what the administrator may write: competencies and zone
  Tasks,          \* orders
  TaskOf,         \* form, place, zone and due date of each
  CrewPhones,    \* telephones that report where they are
  ServedBy,      \* the crews whose work each one carries
  ReportedFrom,  \* the places they report
  ZonesAt,       \* the active zones a place lies in
  Demands,       \* the competencies of each form that can be read
  AreaOfForm,    \* its area
  Planners,      \* who asks: areas, zones and contractor, and whether everywhere
  Upper,         \* a zone in capitals
  NoOne, NoPlace, NoZone, TOP_N

ASSUME CrewsGiven ==
  /\ CrewCodes \in Seq(ToSet(CrewCodes)) /\ IsFiniteSet(Tasks) /\ TOP_N \in Nat
  /\ NoPlace \notin Int /\ ReportedFrom \subseteq Int
  /\ \A o \in Tasks : TaskOf[o].place \in Int \cup {NoPlace}

VARIABLES
  roster,   \* crew rows by code
  tasks,     \* state and crew of each order
  fixes,    \* the last position of each telephone, and whether it is stale
  screens,  \* an edition of a crew under way, by administrator
  edits,    \* how often the roster was edited
  answer    \* the answer to the last request, until it is read

CONSTANTS
  Administrators,
  MaxEdits       \* bound: editions of the roster

crvars == <<roster, tasks, fixes, screens, edits, answer>>

OnRoster(c) == roster[c] # NoOne
OPEN_STATES == {"assigned", "in_execution"}
is_assignable(o) == tasks[o].state \in {"planned", "assigned"}

-----------------------------------------------------------------------------
(* The scope of who asks: for lists, and for one row by its identifier *)

crew_scope(who, c) ==
  who.corporate \/
    /\ who.zones = {} \/ roster[c].zone = NoZone \/ roster[c].zone \in who.zones
    /\ who.contractor = NoOne \/ ContractorOf[c] = who.contractor

area_of_form_code(form) == IF form \in DOMAIN AreaOfForm THEN AreaOfForm[form] ELSE NoOne

\* The forms of other areas are excluded; one nobody declares is not.
work_order_scope(who, o) ==
  who.corporate \/
    /\ who.areas = {} \/ area_of_form_code(TaskOf[o].form) \in who.areas \cup {NoOne}
    /\ who.zones = {} \/ TaskOf[o].zone = NoZone \/ TaskOf[o].zone \in who.zones
    /\ who.contractor = NoOne \/
         (tasks[o].crew # NoOne /\ ContractorOf[tasks[o].crew] = who.contractor)

\* `may_see`: capitals or not.
may_see(who, zone, contractor) ==
  who.corporate \/
    /\ who.zones = {} \/ zone = NoZone \/ Upper[zone] \in {Upper[z] : z \in who.zones}
    /\ who.contractor = NoOne \/ contractor = who.contractor

may_see_crew(who, c) == may_see(who, roster[c].zone, ContractorOf[c])
may_see_order(who, o) ==
  /\ may_see(who, TaskOf[o].zone, IF tasks[o].crew = NoOne THEN NoOne ELSE ContractorOf[tasks[o].crew])
  /\ who.corporate \/ who.areas = {} \/ area_of_form_code(TaskOf[o].form) \in who.areas \cup {NoOne}

-----------------------------------------------------------------------------
(* What a crew carries *)

\* Mutant: the order itself counts against the crew that has it.
HeldAll(work, o, c) ==
  {w \in Tasks : work[w].crew = c /\ work[w].state \in OPEN_STATES}

Held(work, o, c) ==
  {w \in Tasks \ {o} : work[w].crew = c /\ work[w].state \in OPEN_STATES}

\* `crew_workload`: the board several planners share.
crew_workload(c) == Cardinality({o \in Tasks : tasks[o].crew = c /\ tasks[o].state \in OPEN_STATES})

\* Kilometres are a fraction, as the middle of several places is.
Km(n, d) == [n |-> n, d |-> d]
Unmeasured == Km(0, 0)
Known(km) == km.d # 0
Nearer(a, b) == a.n * b.d <= b.n * a.d
Away(place, other) == Km(IF place < other THEN other - place ELSE place - other, 1)

\* The telephones that said lately where they are.
_gps_distances_km(c, place) ==
  {Away(fixes[p].place, place) :
     p \in {p \in CrewPhones : c \in ServedBy[p] /\ fixes[p] # NoPlace /\ ~fixes[p].stale}}

SumOf(legs) ==
  LET upto[i \in 0 .. Len(legs)] == IF i = 0 THEN 0 ELSE upto[i - 1] + legs[i]
  IN upto[Len(legs)]

\* From the middle of the open work, or unknown.
FromWork(located, place) ==
  LET n == Cardinality(located)
      listed == SetToSeq(located)
      off == SumOf([i \in 1 .. n |-> TaskOf[listed[i]].place]) - n * place
  IN IF n = 0 THEN Unmeasured ELSE Km(IF off < 0 THEN -off ELSE off, n)

\* `_workloads`: a fresh position replaces the estimate.
Workload(work, o, c) ==
  LET held == Held(work, o, c)
      place == TaskOf[o].place
      gps == _gps_distances_km(c, place)
  IN [open_orders |-> Cardinality(held),
      due_soon |-> Cardinality({w \in held : TaskOf[w].due \in {"overdue", "soon"}}),
      distance_km |-> IF place = NoPlace THEN Unmeasured
                      ELSE IF gps # {} THEN CHOOSE km \in gps : \A other \in gps : Nearer(km, other)
                      ELSE FromWork({w \in held : TaskOf[w].place # NoPlace}, place)]

-----------------------------------------------------------------------------
(* Points *)

\* As Python rounds: halves to the even side.
Rounded(n, d) ==
  LET q == n \div d
      r == n % d
  IN IF 2 * r > d \/ (2 * r = d /\ q % 2 = 1) THEN q + 1 ELSE q

DISTANCE_CEILING_KM == 20
LOAD_CEILING == 8

_score_zone(zone, zones) == IF zone \in zones THEN 40 ELSE 0

_score_distance(km) ==
  IF ~Known(km) \/ km.n >= DISTANCE_CEILING_KM * km.d THEN 0
  ELSE Rounded(30 * (DISTANCE_CEILING_KM * km.d - km.n), DISTANCE_CEILING_KM * km.d)

_score_load(open) == IF open >= LOAD_CEILING THEN 0 ELSE Rounded(20 * (LOAD_CEILING - open), LOAD_CEILING)

_score_sla(due) == IF due = 0 THEN 10 ELSE 0

ZonesOf(o) == IF TaskOf[o].place = NoPlace THEN {} ELSE ZonesAt[TaskOf[o].place]

Score(work, o, c) ==
  LET load == Workload(work, o, c)
  IN _score_zone(roster[c].zone, ZonesOf(o)) + _score_distance(load.distance_km)
       + _score_load(load.open_orders) + _score_sla(load.due_soon)

-----------------------------------------------------------------------------
(* The suggestion *)

required_competencies(o) == IF TaskOf[o].form \in DOMAIN Demands THEN Demands[TaskOf[o].form] ELSE {}
Lacks(o, c) == required_competencies(o) \ roster[c].competencies

\* Whom the planner may send.
Sendable(who) == {c \in ToSet(CrewCodes) : OnRoster(c) /\ roster[c].active /\ crew_scope(who, c)}

\* By score, then by code.
CodePlace(c) == CHOOSE i \in DOMAIN CrewCodes : CrewCodes[i] = c
Outranks(a, b) ==
  a.score > b.score \/ (a.score = b.score /\ CodePlace(a.crew) < CodePlace(b.crew))
Ranked(scored, i) == CHOOSE a \in scored : Cardinality({b \in scored : Outranks(b, a)}) = i - 1

suggest_crews(work, o, who) ==
  LET crews == Sendable(who)
      fit == {c \in crews : Lacks(o, c) = {}}
      scored == {[crew |-> c, score |-> Score(work, o, c)] : c \in fit}
      shown == IF Cardinality(fit) < TOP_N THEN Cardinality(fit) ELSE TOP_N
  IN [candidates |-> [i \in 1 .. shown |-> Ranked(scored, i)],
      excluded |-> crews \ fit,
      caveats |-> {w \in {"unknown form", "nowhere", "no zone", "nobody", "nobody able"} :
         CASE w = "unknown form" -> TaskOf[o].form \notin DOMAIN Demands
           [] w = "nowhere" -> TaskOf[o].place = NoPlace
           [] w = "no zone" -> TaskOf[o].place # NoPlace /\ ZonesOf(o) = {}
           [] w = "nobody" -> crews = {}
           [] OTHER -> crews # {} /\ fit = {}}]

-----------------------------------------------------------------------------
Unasked == [of |-> NoOne]
NotEditing == [code |-> NoOne]

CrewsInit ==
  /\ roster = [c \in ToSet(CrewCodes) |-> NoOne]
  /\ \E planned \in SUBSET Tasks :
       tasks = [o \in Tasks |-> [state |-> IF o \in planned THEN "planned" ELSE "closed_field",
                                 crew |-> NoOne]]
  /\ fixes = [p \in CrewPhones |-> NoPlace]
  /\ screens = [a \in Administrators |-> NotEditing]
  /\ answer = Unasked /\ edits = 0

\* `save`, first half: the row that carries this code, or none.
SaveBegin(a, c, row) ==
  /\ screens[a] = NotEditing /\ edits < MaxEdits
  /\ edits' = edits + 1
  /\ screens' = [screens EXCEPT ![a] = [code |-> c, read |-> roster[c], row |-> row]]
  /\ UNCHANGED <<roster, tasks, fixes, answer>>

\* The fields that differ from the row that was read; a code is taken once.
save_crew(now, read, row) ==
  IF read = NoOne THEN [active |-> TRUE, competencies |-> row.competencies, zone |-> row.zone]
  ELSE [now EXCEPT !.competencies = IF row.competencies = read.competencies THEN @ ELSE row.competencies,
                   !.zone = IF row.zone = read.zone THEN @ ELSE row.zone]

SaveCommit(a) ==
  /\ screens[a] # NotEditing
  /\ LET edit == screens[a]
         taken == edit.read = NoOne /\ OnRoster(edit.code)
     IN roster' = IF taken THEN roster
                  ELSE [roster EXCEPT ![edit.code] = save_crew(@, edit.read, edit.row)]
  /\ screens' = [screens EXCEPT ![a] = NotEditing]
  /\ UNCHANGED <<tasks, fixes, edits, answer>>

\* `set_crew_active`: there is no delete, and the crew keeps what it carries.
SetCrewActive(c, active) ==
  /\ OnRoster(c) /\ roster[c].active # active /\ edits < MaxEdits
  /\ edits' = edits + 1
  /\ roster' = [roster EXCEPT ![c].active = active]
  /\ UNCHANGED <<tasks, fixes, screens, answer>>

\* A telephone says where it is, or stops saying so for two hours (module Positions).
ReportPlace(p) ==
  /\ \/ \E place \in ReportedFrom : fixes' = [fixes EXCEPT ![p] = [place |-> place, stale |-> FALSE]]
     \/ fixes[p] # NoPlace /\ fixes' = [fixes EXCEPT ![p].stale = TRUE]
  /\ UNCHANGED <<roster, tasks, screens, edits, answer>>

\* The crew works (module WorkOrders).
TaskMoves(o) ==
  /\ \/ tasks[o].state = "assigned" /\ tasks' = [tasks EXCEPT ![o].state = "in_execution"]
     \/ tasks[o].state = "in_execution" /\ tasks' = [tasks EXCEPT ![o].state = "closed_field"]
  /\ UNCHANGED <<roster, fixes, screens, edits, answer>>

\* `suggested_crews`: an answer, and nothing else.
Suggest(o, who) ==
  /\ may_see_order(who, o)
  /\ answer' = [of |-> o, who |-> who, given |-> suggest_crews(tasks, o, who)]
  /\ UNCHANGED <<roster, tasks, fixes, screens, edits>>

\* `assign_selection`: to a crew the planner sees, active or not.  What cannot be
\* assigned, or is not seen, comes back refused and does not hold back the rest.
AssignSelection(chosen, c, who) ==
  /\ OnRoster(c) /\ may_see_crew(who, c)
  /\ LET assigned == {o \in chosen : work_order_scope(who, o) /\ is_assignable(o)}
     IN /\ assigned # {}
        /\ tasks' = [o \in Tasks |-> IF o \in assigned THEN [state |-> "assigned", crew |-> c]
                                   ELSE tasks[o]]
  /\ UNCHANGED <<roster, fixes, screens, edits, answer>>

Looked == answer # Unasked /\ answer' = Unasked /\ UNCHANGED <<roster, tasks, fixes, screens, edits>>

Happens ==
  \/ \E a \in Administrators :
       \/ \E c \in ToSet(CrewCodes), row \in Rows : SaveBegin(a, c, row)
       \/ SaveCommit(a)
  \/ \E c \in ToSet(CrewCodes) :
       \/ \E active \in BOOLEAN : SetCrewActive(c, active)
       \/ \E chosen \in SUBSET Tasks, who \in Planners : AssignSelection(chosen, c, who)
  \/ \E p \in CrewPhones : ReportPlace(p)
  \/ \E o \in Tasks : TaskMoves(o) \/ \E who \in Planners : Suggest(o, who)

CrewsNext == Looked \/ (answer = Unasked /\ Happens)
CrewsSpec == CrewsInit /\ [][CrewsNext]_crvars

-----------------------------------------------------------------------------
(* Properties *)

\* c has the advantage of d in everything the planner is told about.
AtLeastAsGood(o, c, d) ==
  LET mine == Workload(tasks, o, c)
      other == Workload(tasks, o, d)
      urgent(k) == {w \in Tasks \ {o} : tasks[w].crew = k /\ tasks[w].state \in OPEN_STATES
                                         /\ TaskOf[w].due \in {"overdue", "soon"}}
  IN /\ roster[d].zone \in ZonesOf(o) => roster[c].zone \in ZonesOf(o)
     /\ Known(mine.distance_km) /\ Known(other.distance_km)
     /\ Nearer(mine.distance_km, other.distance_km)
     /\ mine.open_orders <= other.open_orders
     /\ urgent(c) = {} \/ urgent(d) # {}

Among(c, candidates) == \E i \in DOMAIN candidates : candidates[i].crew = c
ScoreIn(c, candidates) == candidates[CHOOSE i \in DOMAIN candidates : candidates[i].crew = c].score

\* A suggestion forgets nobody and nobody's lack is outvoted: every active crew in
\* the planner's scope is a candidate, or excluded for a competency, or left behind
\* by candidates that score no less; whoever has every advantage over a candidate
\* is there too, and scores no less; each candidate can be opened by who asked;
\* it would be the same were the order in other hands; and it counts the work that
\* the shared board counts.
SuggestsTheFit ==
  [][answer' # answer /\ answer' # Unasked =>
       LET o == answer'.of
           who == answer'.who
           given == answer'.given
           found == given.candidates
           fit == {c \in ToSet(CrewCodes) : OnRoster(c) /\ roster[c].active /\ crew_scope(who, c)}
                    \ given.excluded
       IN /\ \A i \in DOMAIN found : found[i].crew \in fit /\ may_see_crew(who, found[i].crew)
          /\ \A c \in given.excluded : Lacks(o, c) # {}
          /\ \A c \in fit :
               /\ Lacks(o, c) = {}
               /\ Among(c, found) \/ (Len(found) = TOP_N /\
                    \A i \in DOMAIN found : found[i].score >= Score(tasks, o, c))
               /\ \A i \in DOMAIN found :
                    AtLeastAsGood(o, c, found[i].crew) => Score(tasks, o, c) >= found[i].score
               /\ Workload(tasks, o, c).open_orders
                    = crew_workload(c) - (IF tasks[o].crew = c /\ tasks[o].state \in OPEN_STATES
                                          THEN 1 ELSE 0)
          /\ \A c \in ToSet(CrewCodes) :
               suggest_crews([tasks EXCEPT ![o] = [state |-> "assigned", crew |-> c]], o, who) = given]_crvars

(* What the documents say and the code does not keep *)

\* "The same rule", for lists and for one row: a zone written in other capitals
\* opens by its identifier and is on no list.
OneRule ==
  \A c \in ToSet(CrewCodes), who \in Planners :
    OnRoster(c) => (may_see_crew(who, c) <=> crew_scope(who, c))
=============================================================================
