------------------------------ MODULE MCOffice ------------------------------
(* What the office decides and leaves on the trail, one component at a      *)
(* time: `scene` says which of them moves.                                  *)
EXTENDS OutagePermits, Proposals, AuditTrail, Intake, CapturePolicies, Packages, Dictation, Matching,
        Uploads, Routes, TimeLog

CONSTANTS asset, d1, c1, f1, f2, r1, r2, wk, fr

VARIABLE scene

MCAboutOf == [f \in {c1, f1, f2} |-> <<asset, d1>>]

MCPages == {<<r1>>, <<r1, r2>>, <<r2, r1>>}

MCParentOf == [o \in {wk, fr} |-> IF o = fr THEN wk ELSE Alone]
MCSizeOf == [c \in Contents |-> 1]

MCSpoken == <<<<"b", "4">>, <<"b", "4", "1">>, <<"t", "4", "h", "2">>>>

MCBytesOf == [f \in Files |-> CASE f = f1 -> 5 [] f = f2 -> 4 [] OTHER -> 6]
MCKindOf == [f \in Files |-> "foto"]
MCLimitOf == [foto |-> 5]

(* A canonical model of three types, and what a unit may call them *)

Attribute(key, kind, required, enum) ==
  [key |-> key, type |-> kind, required |-> required, enum_ref |-> enum]
Code == Attribute("code", "string", TRUE, "none")
Material == Attribute("material", "enum", FALSE, "material")
MCTypes ==
  <<[key |-> "support", geometry |-> "point",
     attributes |-> <<Code, Material, Attribute("height_m", "number", FALSE, "none")>>],
    [key |-> "light", geometry |-> "point", attributes |-> <<Code, Material>>],
    [key |-> "line", geometry |-> "polyline", attributes |-> <<Code>>]>>
MCEnums == [none |-> <<>>, material |-> <<"concrete", "wood">>]

MCAssetTerms ==
  [support |-> [strong |-> {"poste"}, weak |-> {"apoyo"}],
   light |-> [strong |-> {"lampara"}, weak |-> {}],
   line |-> [strong |-> {"tramo"}, weak |-> {}]]
MCAttributeTerms ==
  [code |-> {"codigo", "cod"}, material |-> {"material"}, height_m |-> {"altura"}]
MCSynonyms ==
  [material |-> [concrete |-> {"hormigon", "poste"}, wood |-> {"madera", "poste", "hormigon"}]]

MCAlphabet ==
  <<"ALTURA", "COD_POSTE", "CODIGO", "GIS_TRAMO", "H", "LAMPARA", "M", "MAT", "OBJECTID",
    "POSTE", "POSTE_APOYO", "X1", "concrete", "hormigon", "madera", "madera horm.", "wood">>
Whole(term) == <<"whole", term>>
MCTokens ==
  [name \in ToSet(MCAlphabet) |->
     CASE name = "ALTURA" -> {Whole("altura")}
       [] name = "COD_POSTE" -> {Whole("cod"), Whole("poste")}
       [] name = "CODIGO" -> {Whole("codigo")}
       [] name = "GIS_TRAMO" -> {<<"run", {"tramo", "gis"}>>}
       [] name = "LAMPARA" -> {Whole("lampara")}
       [] name = "MAT" -> {<<"short", "material">>}
       [] name = "OBJECTID" -> {<<"run", {"codigo"}>>}
       [] name = "POSTE" -> {Whole("poste")}
       [] name = "POSTE_APOYO" -> {Whole("poste"), Whole("apoyo")}
       [] name = "hormigon" -> {Whole("hormigon")}
       [] name = "madera" -> {Whole("madera")}
       [] name = "madera horm." -> {Whole("madera"), <<"short", "hormigon">>}
       [] OTHER -> {}]
MCLength ==
  [term \in {"poste", "apoyo", "lampara", "tramo", "codigo", "cod", "material", "altura",
             "hormigon", "madera"} |-> IF term = "cod" THEN 3 ELSE 5]

Materials == [coded |-> TRUE, codes |-> [H |-> "hormigon", M |-> "madera"]]
Swapped == [coded |-> TRUE, codes |-> [H |-> "madera", M |-> "hormigon"]]
OneCode == [coded |-> TRUE, codes |-> [H |-> "madera horm."]]
Field(name, kind, domain, nullable) ==
  [name |-> name, alias |-> name, type |-> kind, nullable |-> nullable, domain |-> domain,
   category |-> "business"]
Codigo == Field("CODIGO", "string", NoDomain, FALSE)
CodPoste == Field("COD_POSTE", "string", NoDomain, TRUE)
ObjectId == Field("OBJECTID", "string", NoDomain, FALSE)
Altura == Field("ALTURA", "double", NoDomain, TRUE)
Mat(domain) == Field("MAT", "string", domain, TRUE)
Class(name, geometry, fields) == [name |-> name, geometry |-> geometry, fields |-> fields]
MCSchemas ==
  {{Class("POSTE", "point", fields), other, Class("LAMPARA", "point", {Codigo, Mat(domain)}),
    Class("GIS_TRAMO", "polyline", {Codigo})} :
      fields \in {{Codigo, Mat(Materials)}, {Codigo, CodPoste, Mat(Swapped)},
                 {ObjectId, Mat(NoDomain), Altura}},
      other \in {Class("POSTE_APOYO", "unknown", {Codigo, Mat(Swapped)}),
                Class("X1", "point", {Codigo, Mat(Materials)})},
      domain \in {Materials, OneCode, NoDomain}}

(* Two crews, and three orders on a line *)

MCContractorOf == [c \in {"C1", "C2"} |-> IF c = "C2" THEN "K" ELSE NoOne]
MCCrewCodes == <<"C1", "C2">>
MCRows == {[competencies |-> {"mv"}, zone |-> "N"], [competencies |-> {}, zone |-> "n"],
           [competencies |-> {"mv"}, zone |-> NoZone]}
MCTaskOf ==
  [t1 |-> [form |-> "live", place |-> 4, zone |-> "N", due |-> "none"],
   t2 |-> [form |-> "other", place |-> 5, zone |-> "S", due |-> "overdue"],
   t3 |-> [form |-> "lost", place |-> 2, zone |-> NoZone, due |-> "later"]]
MCServedBy == [p \in CrewPhones |-> {"C1"}]
MCZonesAt == [p \in {2, 4, 5} |-> IF p = 4 THEN {"N"} ELSE {}]
MCDemands == [live |-> {"mv"}, other |-> {}]
MCAreaOfForm == [live |-> "sso", other |-> "apg"]
Everyone == [corporate |-> TRUE, areas |-> {}, zones |-> {}, contractor |-> NoOne]
MCPlanners ==
  {Everyone, [Everyone EXCEPT !.corporate = FALSE, !.areas = {"sso"}, !.zones = {"N"}],
   [Everyone EXCEPT !.corporate = FALSE, !.contractor = "K"]}
MCUpper == [z \in {"N", "n", "S", NoZone} |-> IF z = "n" THEN "N" ELSE z]

MCAhead == [p \in Handhelds |-> IF p = "h1" THEN 0 ELSE 1]

Scenes == {"permits", "proposals", "trail", "intake", "policies", "packages",
           "dictation", "matching", "uploads", "crews", "routes", "times"}

Init ==
  /\ scene \in Scenes
  /\ PermitInit /\ ProposalInit /\ TrailInit /\ IntakeInit
  /\ PolicyInit /\ PackagesInit /\ DictationInit /\ MatchingInit
  /\ UploadsInit /\ RoutesInit /\ TimeLogInit
  /\ \A t \in Tasks : tasks[t].state = IF t = "t3" THEN "closed_field" ELSE "planned"
  /\ scene # "proposals" => work = <<>>
  /\ scene # "packages" => syncable = {} /\ rules = CHOOSE r \in Rules : TRUE

Next ==
  /\ UNCHANGED scene
  /\ \/ scene = "permits" /\ PermitNext
        /\ UNCHANGED <<prvars, tvars, ivars, pcvars, gvars, wvars, mxvars, uvars, crvars, route, tlvars>>
     \/ scene = "proposals" /\ ProposalNext
        /\ UNCHANGED <<pvars, tvars, ivars, pcvars, gvars, wvars, mxvars, uvars, crvars, route, tlvars>>
     \/ scene = "trail" /\ TrailNext
        /\ UNCHANGED <<pvars, prvars, ivars, pcvars, gvars, wvars, mxvars, uvars, crvars, route, tlvars>>
     \/ scene = "intake" /\ IntakeNext
        /\ UNCHANGED <<pvars, prvars, tvars, pcvars, gvars, wvars, mxvars, uvars, crvars, route, tlvars>>
     \/ scene = "policies" /\ PolicyNext
        /\ UNCHANGED <<pvars, prvars, tvars, ivars, gvars, wvars, mxvars, uvars, crvars, route, tlvars>>
     \/ scene = "packages" /\ PackagesNext
        /\ UNCHANGED <<pvars, prvars, tvars, ivars, pcvars, wvars, mxvars, uvars, crvars, route, tlvars>>
     \/ scene = "dictation" /\ DictationNext
        /\ UNCHANGED <<pvars, prvars, tvars, ivars, pcvars, gvars, mxvars, uvars, crvars, route, tlvars>>
     \/ scene = "matching" /\ MatchingNext
        /\ UNCHANGED <<pvars, prvars, tvars, ivars, pcvars, gvars, wvars, uvars, crvars, route, tlvars>>
     \/ scene = "uploads" /\ UploadsNext
        /\ UNCHANGED <<pvars, prvars, tvars, ivars, pcvars, gvars, wvars, mxvars, crvars, route, tlvars>>
     \/ scene = "crews" /\ CrewsNext /\ UNCHANGED route
        /\ UNCHANGED <<pvars, prvars, tvars, ivars, pcvars, gvars, wvars, mxvars, uvars, tlvars>>
     \/ scene = "routes" /\ RoutesNext
        /\ UNCHANGED <<pvars, prvars, tvars, ivars, pcvars, gvars, wvars, mxvars, uvars, tlvars>>
     \/ scene = "times" /\ TimeLogNext
        /\ UNCHANGED <<pvars, prvars, tvars, ivars, pcvars, gvars, wvars, mxvars, uvars, crvars, route>>

Spec == Init /\ [][Next]_<<scene, pvars, prvars, tvars, ivars, pcvars, gvars, wvars,
                             mxvars, uvars, crvars, route, tlvars>>
=============================================================================
