--------------------------- MODULE PublishedForms ---------------------------
(***************************************************************************)
(* The versions of one form (forms/registry.py, api/forms.py) and the      *)
(* orders that carry them (`assign_order` of workorders/service.py,        *)
(* `compose_for` of responses/service.py).                                 *)
(*                                                                         *)
(* The files are the draft: a definition and the blocks it uses, changed   *)
(* by a deployment.  Publishing freezes both under the version the         *)
(* definition names.  An order pins a version when it is assigned.         *)
(***************************************************************************)
EXTENDS Naturals, FiniteSets

CONSTANTS
  Versions, Shapes,  \* version numbers, shapes of a definition or of its blocks
  Carriers,          \* orders that use the form
  Publishers,        \* sessions that publish
  NoVersion

ASSUME NoVersionIsNone == NoVersion \notin Versions

VARIABLES
  file,       \* what is on disk
  published,  \* published_form rows, by version
  pinned,     \* form_version of each order
  press       \* open sessions

fovars == <<file, published, pinned, press>>

File == [version: Versions, definition: Shapes, blocks: Shapes]
FormState == {"publicado", "obsoleto"}
FormRow == [state: FormState, definition: Shapes, blocks: Shapes]
Unpublished == [state |-> "none"]
NoPress == [act |-> "none"]

FormInit ==
  /\ file \in File
  /\ published = [v \in Versions |-> Unpublished]
  /\ pinned = [o \in Carriers |-> NoVersion]
  /\ press = [p \in Publishers |-> NoPress]

InForce == {v \in Versions : published[v].state = "publicado"}

Deploy ==
  /\ file' \in File
  /\ UNCHANGED <<published, pinned, press>>

-----------------------------------------------------------------------------
(* Publishing *)

\* `publish` takes what is on disk and the versions in force, and refuses a
\* number that exists.
PublishFormBegin(p) ==
  /\ press[p] = NoPress
  /\ published[file.version] = Unpublished
  /\ press' = [press EXCEPT ![p] = [act |-> "publish", file |-> file, ends |-> InForce]]
  /\ UNCHANGED <<file, published, pinned>>

\* uq_published_form_version, uq_published_form_current
PublishFormCommit(p) ==
  LET new == press[p].file IN
  /\ press[p].act = "publish"
  /\ published[new.version] = Unpublished
  /\ InForce \subseteq press[p].ends
  /\ published' = [v \in Versions |->
       IF v = new.version
       THEN [state |-> "publicado", definition |-> new.definition, blocks |-> new.blocks]
       ELSE IF v \in press[p].ends THEN [published[v] EXCEPT !.state = "obsoleto"]
       ELSE published[v]]
  /\ press' = [press EXCEPT ![p] = NoPress]
  /\ UNCHANGED <<file, pinned>>

PressEnds(p) ==
  /\ press[p] # NoPress
  /\ press' = [press EXCEPT ![p] = NoPress]
  /\ UNCHANGED <<file, published, pinned>>

obsolete(v) ==
  /\ published[v].state = "publicado"
  /\ published' = [published EXCEPT ![v].state = "obsoleto"]
  /\ UNCHANGED <<file, pinned, press>>

-----------------------------------------------------------------------------
(* Orders *)

\* `assign_order`: the version in force, or the file's; never changed after.
PinVersion(o) ==
  /\ pinned[o] = NoVersion
  /\ \E v \in IF InForce # {} THEN InForce ELSE {file.version} :
       pinned' = [pinned EXCEPT ![o] = v]
  /\ UNCHANGED <<file, published, press>>

\* Mutant: the definition is frozen and the blocks are read from the files.
BlocksOfToday(v) == [definition |-> published[v].definition, blocks |-> file.blocks]

\* `_as_frozen`
Frozen(v) == [definition |-> published[v].definition, blocks |-> published[v].blocks]

HasFrozen(o) == pinned[o] # NoVersion /\ published[pinned[o]] # Unpublished

\* `resolve_for_order`: the frozen shape of the order's version, whatever its
\* state, or the files.
Composed(o) ==
  IF HasFrozen(o) THEN Frozen(pinned[o])
  ELSE [definition |-> file.definition, blocks |-> file.blocks]

FormNext ==
  \/ Deploy
  \/ \E p \in Publishers : PublishFormBegin(p) \/ PublishFormCommit(p) \/ PressEnds(p)
  \/ \E v \in Versions : obsolete(v)
  \/ \E o \in Carriers : PinVersion(o)

FormSpec == FormInit /\ [][FormNext]_fovars

-----------------------------------------------------------------------------
(* Properties *)

FormTypeOK ==
  /\ file \in File
  /\ published \in [Versions -> FormRow \cup {Unpublished}]
  /\ pinned \in [Carriers -> Versions \cup {NoVersion}]

\* RF-032: an order with a frozen version composes the shape it had, definition
\* and blocks, through later publications by several sessions at once, retired
\* versions and new files.
ShapeStands == [][\A o \in Carriers : HasFrozen(o) => Composed(o)' = Composed(o)]_fovars

(* What the documents say and the code does not keep *)

\* "Publishing v2 does not alter the orders assigned with v1": one assigned
\* while nothing was published pins the number of a file that may change before
\* it is published under that number.
AssignedStands == [][\A o \in Carriers : pinned[o] # NoVersion => Composed(o)' = Composed(o)]_fovars
=============================================================================
