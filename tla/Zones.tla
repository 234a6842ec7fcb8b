-------------------------------- MODULE Zones --------------------------------
(***************************************************************************)
(* The zones of a unit (zones/service.py, api/zones.py): polygons imported *)
(* from a file or drawn, the zones a point falls in, and the zone written  *)
(* on the orders that have none.                                           *)
(*                                                                         *)
(* A polygon is the set of places inside it or on its edge; the zones of a *)
(* place are those whose polygon holds it.                                 *)
(***************************************************************************)
EXTENDS Naturals, Sequences, FiniteSets, OrderLifecycle

CONSTANTS
  ZoneCodes, Places, Nowhere,
  Parcels,     \* orders a zone may be written on
  PlaceOf,     \* place of each order, Nowhere when it has no coordinates
  Fillers,     \* sessions that backfill
  Files        \* documents the instance imports: sequences of features

\* A feature: its code, Nowhere when none is found, and its polygon, {} when
\* PostGIS does not read or does not accept the geometry.
Feature == [code: ZoneCodes \cup {Nowhere}, polygon: SUBSET Places]

ASSUME FilesAreFeatures == Files \subseteq Seq(Feature) \ {<<>>}
ASSUME ParcelsPlaced == PlaceOf \in [Parcels -> Places \cup {Nowhere}]

VARIABLES
  zones,    \* zone rows by code
  parcel,   \* state and zone of each order
  filling,  \* orders each open backfill found without a zone
  imported  \* what the last import did; history: the codes of the zones there were
            \* before it, and whether it was asked to replace them

zvars == <<zones, parcel, filling, imported>>

ZoneOrigin == {"importada", "dibujada"}
Zone == [polygon: SUBSET Places, active: BOOLEAN, origin: ZoneOrigin]
NoZone == [polygon |-> {}, active |-> FALSE, origin |-> "none"]

\* States whose orders still have somewhere to go.
OPEN_STATES ==
  {"draft", "planned", "assigned", "downloaded", "en_route", "on_site",
   "in_execution", "suspended"}

NoReport ==
  [file |-> <<>>, created |-> {}, updated |-> {}, rejected |-> {}, before |-> {}, replace |-> FALSE]

ZonesInit ==
  /\ zones = [c \in ZoneCodes |-> NoZone]
  /\ parcel \in [Parcels -> [state: {"planned"}, zone: {Nowhere}]]
  /\ filling = [b \in Fillers |-> {}]
  /\ imported = NoReport

-----------------------------------------------------------------------------
(* Polygons *)

\* Mutant: a code is seen once it was rejected for its geometry, too.
SeenAnyway(done, feature) == feature.code \in done.met

\* `seen`: the codes this file brought in already.
Repeated(done, feature) == feature.code \in done.seen

\* One feature of `import_geojson`.
Feed(replace_existing, done, i) ==
  LET feature == done.file[i]
      met == [done EXCEPT !.met = @ \cup {feature.code}]
      refused == [met EXCEPT !.rejected = @ \cup {i}] IN
  IF \/ feature.code = Nowhere
     \/ Repeated(done, feature)
     \/ feature.polygon = {}
     \/ zones[feature.code] # NoZone /\ ~replace_existing
  THEN refused
  ELSE [met EXCEPT
    !.seen = @ \cup {feature.code},
    !.created = IF zones[feature.code] = NoZone THEN @ \cup {i} ELSE @,
    !.updated = IF zones[feature.code] # NoZone THEN @ \cup {i} ELSE @]

\* Feature after feature, each against what the earlier ones brought in.
Import(file, replace_existing) ==
  LET done[i \in 0 .. Len(file)] ==
        IF i = 0
        THEN [file |-> file, seen |-> {}, met |-> {}, created |-> {}, updated |-> {},
              rejected |-> {}]
        ELSE Feed(replace_existing, done[i - 1], i)
  IN done[Len(file)]

import_geojson(file, replace_existing) ==
  LET report == Import(file, replace_existing) IN
  /\ zones' = [c \in ZoneCodes |->
       LET taken == {i \in report.created \cup report.updated : file[i].code = c} IN
       IF taken = {} THEN zones[c]
       ELSE [polygon |-> file[CHOOSE i \in taken : TRUE].polygon, origin |-> "importada",
             active |-> IF zones[c] = NoZone THEN TRUE ELSE zones[c].active]]
  /\ imported' = [file |-> file, created |-> report.created, updated |-> report.updated,
                  rejected |-> report.rejected, replace |-> replace_existing,
                  before |-> {c \in ZoneCodes : zones[c] # NoZone}]
  /\ UNCHANGED <<parcel, filling>>

save_drawn(c) ==
  /\ \E polygon \in SUBSET Places \ {{}} :
       zones' = [zones EXCEPT ![c] =
         [polygon |-> polygon, origin |-> "dibujada",
          active |-> IF @ = NoZone THEN TRUE ELSE @.active]]
  /\ UNCHANGED <<parcel, filling, imported>>

set_active(c) ==
  /\ zones[c] # NoZone
  /\ zones' = [zones EXCEPT ![c].active = ~@]
  /\ UNCHANGED <<parcel, filling, imported>>

zones_at(place) == {c \in ZoneCodes : zones[c].active /\ place \in zones[c].polygon}

-----------------------------------------------------------------------------
(* Orders *)

OpenParcels == {o \in Parcels : parcel[o].state \in OPEN_STATES}
Located == {o \in OpenParcels : PlaceOf[o] # Nowhere}

WithoutZone(o) == o \in Located /\ parcel[o].zone = Nowhere

BackfillBegin(b) ==
  LET found == {o \in Parcels : WithoutZone(o)} IN
  /\ filling[b] = {} /\ found # {}
  /\ filling' = [filling EXCEPT ![b] = found]
  /\ UNCHANGED <<zones, parcel, imported>>

\* The orders it found, whatever became of them; the zones as they are now.
BackfillCommit(b) ==
  /\ filling[b] # {}
  /\ parcel' = [o \in Parcels |->
       LET codes == zones_at(PlaceOf[o]) IN
       IF o \in filling[b] /\ Cardinality(codes) = 1
       THEN [parcel[o] EXCEPT !.zone = CHOOSE c \in codes : TRUE]
       ELSE parcel[o]]
  /\ filling' = [filling EXCEPT ![b] = {}]
  /\ UNCHANGED <<zones, imported>>

BackfillFails(b) ==
  /\ filling[b] # {}
  /\ filling' = [filling EXCEPT ![b] = {}]
  /\ UNCHANGED <<zones, parcel, imported>>

\* The work goes on (module WorkOrders).
ParcelMoves(o) ==
  /\ \E target \in TRANSITIONS[parcel[o].state] \cap {"assigned", "cancelled"} :
       parcel' = [parcel EXCEPT ![o].state = target]
  /\ UNCHANGED <<zones, filling, imported>>

ZonesNext ==
  \/ \E file \in Files, replace_existing \in BOOLEAN : import_geojson(file, replace_existing)
  \/ \E c \in ZoneCodes : save_drawn(c) \/ set_active(c)
  \/ \E b \in Fillers : BackfillBegin(b) \/ BackfillCommit(b) \/ BackfillFails(b)
  \/ \E o \in Parcels : ParcelMoves(o)

ZonesSpec == ZonesInit /\ [][ZonesNext]_zvars

-----------------------------------------------------------------------------
(* Properties *)

ZonesTypeOK ==
  /\ zones \in [ZoneCodes -> Zone \cup {NoZone}]
  /\ parcel \in [Parcels -> [state: WorkOrderState, zone: ZoneCodes \cup {Nowhere}]]
  /\ filling \in [Fillers -> SUBSET Parcels]

\* "Both halves, always": an import accounts for every feature once and brings in one
\* polygon per code, that of the first feature of the file that can be read, whatever
\* was refused before it: it refuses a feature without a code or without a polygon, a
\* code an earlier feature brought in, and a zone there was before when it was not asked
\* to replace it; nothing else.  It reports as created the zones there were not, as
\* updated those there were, and until somebody draws a zone anew its polygon is the one
\* the import took.
ImportAccounts ==
  LET file == imported.file
      accepted == imported.created \cup imported.updated IN
  /\ accepted \cup imported.rejected = DOMAIN file
  /\ accepted \cap imported.rejected = {}
  /\ \A i, j \in accepted : file[i].code = file[j].code => i = j
  /\ \A i \in imported.created : file[i].code \notin imported.before
  /\ \A i \in imported.updated : file[i].code \in imported.before /\ imported.replace
  /\ \A i \in imported.rejected :
       \/ file[i].code = Nowhere \/ file[i].polygon = {}
       \/ \E j \in accepted : j < i /\ file[j].code = file[i].code
       \/ file[i].code \in imported.before /\ ~imported.replace
  /\ \A i \in accepted :
       /\ file[i].polygon # {}
       /\ LET zone == zones[file[i].code] IN
          zone # NoZone /\ (zone.origin = "importada" => zone.polygon = file[i].polygon)

(* What the documents say and the code does not keep *)

\* "An existing `work_order.zone` is never overwritten": two backfills that found the
\* same order without a zone both write theirs, and polygons may change in between.
ZoneStands ==
  [][\A o \in Parcels : parcel[o].zone # Nowhere => parcel'[o].zone = parcel[o].zone]_zvars
=============================================================================
