----------------------------- MODULE MCPlanning -----------------------------
(* What planners, administrators and dispatchers see and technicians fill   *)
(* in, one component at a time: `scene` says which moves; none reads what    *)
(* another writes.                                                          *)
EXTENDS Plans, Fronts, Zones, Catalogs, Parameters, Profiles, PublishedForms, Positions,
        Captures, Dispatch, TLC

CONSTANTS a1, a2, z1, z2

VARIABLE scene

MCCalendar ==
  <<[year |-> 2026, month |-> 1, day |-> 31], [year |-> 2026, month |-> 2, day |-> 1]>>
MCDrafts ==
  {[rule |-> [cadence |-> "mensual", cadence_days |-> 0, day_of_month |-> 1],
    targets |-> <<a1, a2>>, skip |-> TRUE],
   [rule |-> [cadence |-> "dias", cadence_days |-> 2, day_of_month |-> 1],
    targets |-> <<a2>>, skip |-> FALSE]}

MCPlaceOf == [o \in Parcels |-> 1]
F(code, polygon) == [code |-> code, polygon |-> polygon]
MCFiles ==
  {<<F(z1, {}), F(z1, {1}), F(z1, {1, 2}), F(z2, {2})>>,
   <<F(z2, {1}), F(Nowhere, {1})>>}

Scenes == {"calendar", "plans", "fronts", "zones", "catalogs", "parameters",
           "profiles", "forms", "positions", "captures", "dispatch"}

\* Monthly, quarterly, half-yearly and yearly, started in any month of two years,
\* the day before a leap year and in it.
MCCalendarPlans ==
  [rule: [cadence: Cadence \ {"dias"}, cadence_days: {0}, day_of_month: {1, MAX_DAY_OF_MONTH}],
   anchor: [year: {2027, 2028}, month: 1..12, day: {1, 31}]]

Init ==
  /\ scene \in Scenes
  /\ CalendarInit /\ PlanInit /\ FrontInit /\ ZonesInit /\ CatalogInit /\ ParameterInit
  /\ ProfileInit /\ FormInit /\ PositionInit /\ CaptureInit /\ DispatchInit
  /\ plan.rule.cadence = "mensual"
  /\ scene # "catalogs" => source = "manual"
  /\ scene # "forms" => file = CHOOSE f \in File : TRUE
  /\ scene # "fronts" => state = [o \in Orders |-> "draft"]

Screens == <<asked, plvars, fvars, zvars, kvars, rvars, mvars, fovars, dvars, cvars, dsvars>>

Next ==
  /\ UNCHANGED scene
  /\ \/ /\ scene = "calendar" /\ CalendarNext
        /\ UNCHANGED <<plvars, fvars, zvars, kvars, rvars, mvars, fovars, dvars, cvars, dsvars>>
     \/ /\ UNCHANGED asked
        /\ \/ /\ scene = "plans" /\ PlanNext
              /\ UNCHANGED <<fvars, zvars, kvars, rvars, mvars, fovars, dvars, cvars, dsvars>>
           \/ /\ scene = "fronts" /\ FrontNext
              /\ UNCHANGED <<plvars, zvars, kvars, rvars, mvars, fovars, dvars, cvars, dsvars>>
           \/ /\ scene = "zones" /\ ZonesNext
              /\ UNCHANGED <<plvars, fvars, kvars, rvars, mvars, fovars, dvars, cvars, dsvars>>
           \/ /\ scene = "catalogs" /\ CatalogNext
              /\ UNCHANGED <<plvars, fvars, zvars, rvars, mvars, fovars, dvars, cvars, dsvars>>
           \/ /\ scene = "parameters" /\ ParameterNext
              /\ UNCHANGED <<plvars, fvars, zvars, kvars, mvars, fovars, dvars, cvars, dsvars>>
           \/ /\ scene = "profiles" /\ ProfileNext
              /\ UNCHANGED <<plvars, fvars, zvars, kvars, rvars, fovars, dvars, cvars, dsvars>>
           \/ /\ scene = "forms" /\ FormNext
              /\ UNCHANGED <<plvars, fvars, zvars, kvars, rvars, mvars, dvars, cvars, dsvars>>
           \/ /\ scene = "positions" /\ PositionNext
              /\ UNCHANGED <<plvars, fvars, zvars, kvars, rvars, mvars, fovars, cvars, dsvars>>
           \/ /\ scene = "captures" /\ CaptureNext /\ UNCHANGED dsvars
              /\ UNCHANGED <<plvars, fvars, zvars, kvars, rvars, mvars, fovars, dvars>>
           \/ /\ scene = "dispatch" /\ DispatchNext /\ UNCHANGED cvars
              /\ UNCHANGED <<plvars, fvars, zvars, kvars, rvars, mvars, fovars, dvars>>

Spec == Init /\ [][Next]_<<scene, Screens>>

\* The two runs are alike.
RunsAlike == Permutations(Sessions)
=============================================================================
