------------------------------ MODULE Packages ------------------------------
(***************************************************************************)
(* The files the office hangs on an order (attachments/service.py,         *)
(* api/attachments.py) and the offline package of a zone that carries them *)
(* (sync/service.py, api/dispatch.py).                                     *)
(*                                                                         *)
(* Every request reads, and writes when its transaction ends; nothing      *)
(* locks a row in between.                                                 *)
(***************************************************************************)
EXTENDS Naturals, FiniteSets, FiniteSetsExt, Sequences

CONSTANTS
  Works,         \* orders of the zone
  ParentOf,      \* the work of a front, Alone for any other order
  Alone,
  Contents,      \* hashes of files
  SizeOf,        \* size_bytes of each
  MAX_ATTACHMENT_BYTES, MAX_OFFLINE_BYTES_PER_ORDER,
  Rules,         \* what the capture policy may resolve to
  Clerks,        \* sessions that attach and withdraw
  Publishers,    \* sessions that publish the package
  MaxBuilds      \* bound: publications begun

ASSUME OneLevelOfFronts ==
  \A o \in Works : ParentOf[o] \in Works => ParentOf[ParentOf[o]] = Alone
ASSUME FrontsHaveAWork == ParentOf \in [Works -> Works \cup {Alone}] /\ Alone \notin Works
ASSUME SizesGiven == SizeOf \in [Contents -> Nat \ {0}]

VARIABLES
  syncable,  \* orders whose state travels to phones
  drawing,   \* work_order_attachment, one row per order and content
  rules,     \* what the policy resolves to for the zone
  package,   \* offline_package rows of the zone, by version
  clerk, publisher, \* open sessions
  builds     \* publications begun

gvars == <<syncable, drawing, rules, package, clerk, publisher, builds>>

Attachment == [there: {TRUE}, offline: BOOLEAN, withdrawn: BOOLEAN]
NoFile == [there |-> FALSE, offline |-> FALSE, withdrawn |-> FALSE]
Manifest == [items: SUBSET (Works \X Contents), capture_policy: Rules]

Unopened == [act |-> "none"]

PackagesInit ==
  /\ syncable \in SUBSET Works
  /\ drawing = [o \in Works |-> [c \in Contents |-> NoFile]]
  /\ rules \in Rules
  /\ package = <<>>
  /\ clerk = [s \in Clerks |-> Unopened]
  /\ publisher = [s \in Publishers |-> Unopened]
  /\ builds = 0

\* Orders of the zone enter and leave the states that travel, and the policy
\* of the zone changes.
OrderMoves(o) ==
  /\ syncable' = IF o \in syncable THEN syncable \ {o} ELSE syncable \cup {o}
  /\ UNCHANGED <<drawing, rules, package, clerk, publisher, builds>>

PolicyChanges ==
  /\ rules' \in Rules \ {rules}
  /\ UNCHANGED <<syncable, drawing, package, clerk, publisher, builds>>

-----------------------------------------------------------------------------
(* Attaching and withdrawing *)

\* A row whose file the screens show.
is_active(o, c) == drawing[o][c].there /\ ~drawing[o][c].withdrawn

offline_bytes(o) ==
  MapThenSumSet(LAMBDA c : SizeOf[c],
                {c \in Contents : is_active(o, c) /\ drawing[o][c].offline})

_check_package_budget(o, adding) == offline_bytes(o) + adding <= MAX_OFFLINE_BYTES_PER_ORDER

\* What the screen of an order lists: its files, and those of its work.
attachments_of(o) ==
  {row \in ({o, ParentOf[o]} \cap Works) \X Contents : is_active(row[1], row[2])}

\* A file that is there already is refreshed, and comes back if withdrawn;
\* the budget is looked at for a new one only.
AttachBegin(s) ==
  /\ clerk[s] = Unopened
  /\ \E o \in Works, c \in Contents, offline \in BOOLEAN :
       /\ SizeOf[c] <= MAX_ATTACHMENT_BYTES
       /\ drawing[o][c] = NoFile /\ offline => _check_package_budget(o, SizeOf[c])
       /\ clerk' = [clerk EXCEPT ![s] =
            [act |-> "attach", order |-> o, content |-> c, offline |-> offline,
             read |-> drawing[o][c]]]
  /\ UNCHANGED <<syncable, drawing, rules, package, publisher, builds>>

\* A second row of the same content meets uq_work_order_attachment_content; a
\* refresh writes the columns that differ from what was read.
AttachCommit(s) ==
  LET session == clerk[s]
      o == session.order
      c == session.content
  IN /\ session.act = "attach"
     /\ drawing' =
          IF session.read = NoFile
          THEN IF drawing[o][c] # NoFile THEN drawing
               ELSE [drawing EXCEPT ![o][c] =
                      [there |-> TRUE, offline |-> session.offline, withdrawn |-> FALSE]]
          ELSE [drawing EXCEPT ![o][c] =
                 [there |-> TRUE,
                  offline |-> IF session.offline # session.read.offline THEN session.offline
                              ELSE @.offline,
                  withdrawn |-> IF session.read.withdrawn THEN FALSE ELSE @.withdrawn]]
     /\ clerk' = [clerk EXCEPT ![s] = Unopened]
     /\ UNCHANGED <<syncable, rules, package, publisher, builds>>

WithdrawBegin(s) ==
  /\ clerk[s] = Unopened
  /\ \E o \in Works, c \in Contents :
       /\ is_active(o, c)
       /\ clerk' = [clerk EXCEPT ![s] = [act |-> "withdraw", order |-> o, content |-> c]]
  /\ UNCHANGED <<syncable, drawing, rules, package, publisher, builds>>

WithdrawCommit(s) ==
  /\ clerk[s].act = "withdraw"
  /\ drawing' = [drawing EXCEPT ![clerk[s].order][clerk[s].content].withdrawn = TRUE]
  /\ clerk' = [clerk EXCEPT ![s] = Unopened]
  /\ UNCHANGED <<syncable, rules, package, publisher, builds>>

-----------------------------------------------------------------------------
(* The package *)

\* A front brings its work along, whatever the state of the work.
_package_order_ids == syncable \cup ({ParentOf[o] : o \in syncable} \ {Alone})

for_package(order_ids) ==
  {row \in order_ids \X Contents : drawing[row[1]][row[2]].offline /\ is_active(row[1], row[2])}

manifest == [items |-> for_package(_package_order_ids), capture_policy |-> rules]

current == {v \in DOMAIN package : ~package[v].superseded}
Latest(versions) == IF versions = {} THEN 0 ELSE Max(versions)

\* `build_offline_package`: the manifest, and the package it would replace.
PublishBegin(s) ==
  /\ publisher[s] = Unopened
  /\ builds < MaxBuilds /\ builds' = builds + 1
  /\ publisher' = [publisher EXCEPT ![s] =
       [act |-> "publish", manifest |-> manifest, previous |-> Latest(current)]]
  /\ UNCHANGED <<syncable, drawing, rules, package, clerk>>

\* Mutant: no such constraint; the row goes after the last.
VersionFree(version) == FALSE

\* The same content is the same package.  Else the one that was read is
\* superseded and the next version inserted: uq_offline_package_version
\* refuses a version another session took.
VersionTaken(version) == version \in DOMAIN package

PublishCommit(s) ==
  LET session == publisher[s]
      version == session.previous + 1
      same == session.previous # 0 /\ package[session.previous].manifest = session.manifest
      superseded == [v \in DOMAIN package |->
        IF v = session.previous THEN [package[v] EXCEPT !.superseded = TRUE] ELSE package[v]]
  IN /\ session.act = "publish"
     /\ package' = IF same \/ VersionTaken(version) THEN package
                   ELSE Append(superseded, [manifest |-> session.manifest, superseded |-> FALSE])
     /\ publisher' = [publisher EXCEPT ![s] = Unopened]
     /\ UNCHANGED <<syncable, drawing, rules, clerk, builds>>

PackagesNext ==
  \/ PolicyChanges
  \/ \E o \in Works : OrderMoves(o)
  \/ \E s \in Clerks : AttachBegin(s) \/ AttachCommit(s) \/ WithdrawBegin(s) \/ WithdrawCommit(s)
  \/ \E s \in Publishers : PublishBegin(s) \/ PublishCommit(s)

PackagesSpec == PackagesInit /\ [][PackagesNext]_gvars

-----------------------------------------------------------------------------
(* Properties *)

PackagesTypeOK ==
  /\ drawing \in [Works -> [Contents -> Attachment \cup {NoFile}]]
  /\ \A v \in DOMAIN package : package[v].manifest \in Manifest

\* However many sessions publish at once: one package is in force, and it is the
\* last.
OnePackageInForce == current = (IF package = <<>> THEN {} ELSE {Len(package)})

\* RF-017: whatever the screen of an order in the field lists to be taken along,
\* its own files and those of its work, is in the package published then.
PackageOpensWhatScreensList ==
  \A o \in syncable : \A row \in attachments_of(o) :
    drawing[row[1]][row[2]].offline => row \in manifest.items

\* The package in force is one, and serves what the screens list.
PackageServes == OnePackageInForce /\ PackageOpensWhatScreensList

(* What the documents say and the code does not keep *)

\* "The most one work order's offline attachments may add up to": a file that
\* comes back is not counted, nor are two attached at once.
WithinBudget == \A o \in Works : offline_bytes(o) <= MAX_OFFLINE_BYTES_PER_ORDER
=============================================================================
