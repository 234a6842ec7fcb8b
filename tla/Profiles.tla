------------------------------ MODULE Profiles ------------------------------
(***************************************************************************)
(* The mapping of the canonical asset types onto the classes of a unit's   *)
(* GIS: drafts, publication and what the unit runs on                      *)
(* (model_profile/drafts.py, api/model_profile.py), against the metadata   *)
(* its agent synchronises.                                                 *)
(*                                                                         *)
(* A mapping says of each asset type the class it is kept in.  Matching    *)
(* names and fields is abstracted: a proposal is any mapping onto classes  *)
(* of the metadata.  A session reads the draft first and writes it later.  *)
(***************************************************************************)
EXTENDS Naturals, Sequences, FiniteSets

CONSTANTS
  AssetTypes, Classes,
  Undecided,    \* no class chosen, no document
  Mappers,      \* sessions of administrators
  MaxDrafts,    \* bound: versions of the profile
  MaxSyncs      \* bound: snapshots after the first

ASSUME UndecidedIsNoClass == Undecided \notin Classes

VARIABLES
  snapshot,  \* classes of the current metadata snapshot
  syncs,     \* snapshots taken
  drafts,    \* profile_draft rows, by version
  mapper     \* open sessions

mvars == <<snapshot, syncs, drafts, mapper>>

Status == {"draft", "published", "superseded"}
Mapping == [AssetTypes -> Classes \cup {Undecided}]
DraftRow == [status: Status, decisions: Mapping,
             document: Mapping \cup {Undecided}, complete: BOOLEAN]

NoMapper == [act |-> "none"]

ProfileInit ==
  /\ snapshot = Classes
  /\ syncs = 0
  /\ drafts = <<>>
  /\ mapper = [a \in Mappers |-> NoMapper]

Open == {v \in DOMAIN drafts : drafts[v].status = "draft"}
Adopted == {v \in DOMAIN drafts : drafts[v].status = "published"}

\* The agent of the unit uploads the metadata of its GIS (gis_gateway/ingest.py).
Sync ==
  /\ syncs < MaxSyncs
  /\ \E classes \in SUBSET Classes : snapshot' = classes
  /\ syncs' = syncs + 1
  /\ UNCHANGED <<drafts, mapper>>

-----------------------------------------------------------------------------
(* Building the profile *)

Chosen(decisions) == {decisions[t] : t \in AssetTypes} \ {Undecided}

\* `build_profile_document`: nothing comes of a class the metadata lacks.
build_profile_document(decisions, metadata) ==
  IF Chosen(decisions) \subseteq metadata THEN decisions ELSE Undecided

\* `validate_document`: every asset type of the canonical model is bound.
validate_document(document) ==
  document # Undecided /\ \A t \in AssetTypes : document[t] # Undecided

\* `_apply`
Applied(row, metadata, decisions) ==
  LET document == build_profile_document(decisions, metadata) IN
  [row EXCEPT !.decisions = decisions, !.document = document,
              !.complete = validate_document(document)]

\* `_carry_over`: what a person decided stays.
CarryOver(previous, proposed) ==
  [t \in AssetTypes |-> IF previous[t] # Undecided THEN previous[t] ELSE proposed[t]]

Maps(a, session) ==
  /\ mapper[a] = NoMapper
  /\ mapper' = [mapper EXCEPT ![a] = session]
  /\ UNCHANGED <<snapshot, syncs, drafts>>

Writes(a, rows) ==
  /\ drafts' = rows
  /\ mapper' = [mapper EXCEPT ![a] = NoMapper]
  /\ UNCHANGED <<snapshot, syncs>>

-----------------------------------------------------------------------------
(* The requests *)

\* `start_draft`, from the mapping in force when there is one.
StartBegin(a) ==
  /\ Open = {}
  /\ \E proposed \in Mapping :
       /\ Chosen(proposed) \subseteq snapshot
       /\ Maps(a, [act |-> "start", metadata |-> snapshot, version |-> Len(drafts) + 1,
            decisions |-> IF Adopted = {} THEN proposed
              ELSE CarryOver(drafts[CHOOSE v \in Adopted : TRUE].decisions, proposed)])

\* uq_profile_draft_version, uq_profile_draft_open
StartCommit(a) ==
  /\ mapper[a].act = "start"
  /\ Len(drafts) < MaxDrafts
  /\ Open = {} /\ mapper[a].version = Len(drafts) + 1
  /\ Writes(a, Append(drafts,
       Applied([status |-> "draft", decisions |-> mapper[a].decisions,
                document |-> Undecided, complete |-> FALSE],
               mapper[a].metadata, mapper[a].decisions)))

\* Mutant: a version of any state is edited.
AnyVersion == DOMAIN drafts

MayEdit == Open

\* `put_decisions`, `save_decisions`
SaveBegin(a) ==
  \E v \in MayEdit, decisions \in Mapping :
    Maps(a, [act |-> "save", version |-> v, metadata |-> snapshot, decisions |-> decisions])

\* The columns that were decided, whatever the version is by then.
SaveDraftCommit(a) ==
  LET save == mapper[a] IN
  /\ save.act = "save"
  /\ Writes(a, [drafts EXCEPT ![save.version] = Applied(@, save.metadata, save.decisions)])

\* `post_publish`, `publish_draft`: the document is validated again, as it was
\* stored.
PublishBegin(a) ==
  \E v \in Open :
    Maps(a, [act |-> IF validate_document(drafts[v].document) THEN "publish" ELSE "refuse",
             version |-> v, previous |-> Adopted])

\* uq_profile_draft_published.  Two columns change: what another session saved
\* of the rest stays.
PublishCommit(a) ==
  LET publish == mapper[a] IN
  /\ publish.act = "publish"
  /\ Adopted \subseteq publish.previous \cup {publish.version}
  /\ Writes(a, [v \in DOMAIN drafts |->
       IF v = publish.version THEN [drafts[v] EXCEPT !.status = "published"]
       ELSE IF v \in publish.previous THEN [drafts[v] EXCEPT !.status = "superseded"]
       ELSE drafts[v]])

\* A refusal commits the problems it found.
RefuseCommit(a) ==
  /\ mapper[a].act = "refuse"
  /\ Writes(a, [drafts EXCEPT ![mapper[a].version].complete = FALSE])

MapperEnds(a) ==
  /\ mapper[a] # NoMapper
  /\ mapper' = [mapper EXCEPT ![a] = NoMapper]
  /\ UNCHANGED <<snapshot, syncs, drafts>>

ProfileNext ==
  \/ Sync
  \/ \E a \in Mappers :
       StartBegin(a) \/ StartCommit(a) \/ SaveBegin(a) \/ SaveDraftCommit(a)
       \/ PublishBegin(a) \/ PublishCommit(a) \/ RefuseCommit(a) \/ MapperEnds(a)

ProfileSpec == ProfileInit /\ [][ProfileNext]_mvars

-----------------------------------------------------------------------------
(* Properties *)

ProfileTypeOK ==
  /\ snapshot \subseteq Classes
  /\ syncs \in 0 .. MaxSyncs
  /\ Len(drafts) <= MaxDrafts
  /\ \A v \in DOMAIN drafts : drafts[v] \in DraftRow

\* "A published profile is immutable" and complete: from the moment a unit
\* adopts a version, what it maps never changes, and there is a document for
\* the unit to run on, through drafts, saves, refusals and later versions --
\* while one session at a time works on the profile.
PublishedStands ==
  [][\A v \in DOMAIN drafts : drafts[v].status # "draft" =>
       /\ drafts'[v].document = drafts[v].document
       /\ drafts'[v].decisions = drafts[v].decisions
       /\ validate_document(drafts[v].document)]_mvars

(* What the documents say and the code does not keep *)

\* "A metadata sync since then may have removed a class the profile names" is
\* given as the reason to validate again; the validation reads no metadata: a
\* publication goes ahead that maps onto a class no longer there.
AdoptedIsThere ==
  [][\A a \in Mappers :
       mapper[a].act # "publish" /\ mapper'[a].act = "publish" =>
         Chosen(drafts[mapper'[a].version].document) \subseteq snapshot]_mvars
=============================================================================
