------------------------------ MODULE Catalogs ------------------------------
(***************************************************************************)
(* One catalogue of the forms (catalogs/service.py): its national values,  *)
(* those of a unit, the sessions that edit or import them                  *)
(* (api/catalogs.py, `import_materials` of integrations/erp_adapter.py)    *)
(* and a device of the unit that downloads what changed (`delta`).         *)
(*                                                                         *)
(* A write of a row draws its revision from a sequence when it is flushed; *)
(* others see the row when the session commits.  The number of the         *)
(* catalogue is written after each row, from the value the session read    *)
(* first, and stays locked until the session ends.                         *)
(***************************************************************************)
EXTENDS Naturals, FiniteSets

CONSTANTS
  Codes, Labels,
  Editors,     \* database sessions that may be open at once
  PageSize,    \* limit of a delta
  MaxRevision, \* bound: revisions drawn
  MaxVersion   \* bound: version of the catalogue

ASSUME PageHoldsOne == PageSize \in Nat \ {0}
ASSUME CodesAreListed == IsFiniteSet(Codes)
ASSUME CatalogBounds == MaxRevision \in Nat /\ MaxVersion \in Nat \ {0}

Owners == {"national", "unit"}
Keys == Owners \X Codes
\* Another unit's values never reach this device and are left out.

VARIABLES
  source,   \* who owns the values
  entries,  \* catalog_entry rows
  version,  \* catalog.version
  drawn,    \* last revision the sequence gave
  editor,   \* open sessions
  device    \* what the phone holds, and the revision it asks from

kvars == <<source, entries, version, drawn, editor, device>>

CatalogSource == {"manual", "integracion"}
EntryRow == [label: Labels, active: BOOLEAN, revision: 1 .. MaxRevision]
Missing == [revision |-> 0]
Value(row) == [label |-> row.label, active |-> row.active]

NoEditor == [act |-> "none"]

CatalogInit ==
  /\ source \in CatalogSource
  /\ entries = [k \in Keys |-> Missing]
  /\ version = 1
  /\ drawn = 0
  /\ editor = [w \in Editors |-> NoEditor]
  /\ device = [held |-> [k \in Keys |-> Missing], since |-> 0]

-----------------------------------------------------------------------------
(* Editing *)

SeesEntry(w, k) == IF editor[w].wrote[k] # Missing THEN editor[w].wrote[k] ELSE entries[k]

Editing(todo, op, label, active) ==
  [act |-> "flush", todo |-> todo, op |-> op, label |-> label, active |-> active,
   wrote |-> [k \in Keys |-> Missing], version |-> version, bumped |-> FALSE,
   complete |-> FALSE, known |-> {}]

Opened(w, session) ==
  /\ editor[w] = NoEditor
  /\ editor' = [editor EXCEPT ![w] = session]
  /\ UNCHANGED <<source, entries, version, drawn, device>>

\* By hand: a value of a catalogue the platform owns.
upsert_entry(w) ==
  /\ source = "manual"
  /\ \E k \in Keys, label \in Labels, active \in BOOLEAN :
       Opened(w, Editing({k}, "upsert", [c \in Codes |-> label], active))

\* By hand, whoever owns the catalogue.
retire_entry(w) ==
  \E k \in {n \in Keys : entries[n] # Missing /\ n[1] = "national"} :
    Opened(w, Editing({k}, "retire", [c \in Codes |-> entries[k].label], FALSE))

\* The ERP's batch: codes with their labels, and whether that is all of them.
import_materials(w) ==
  /\ source = "integracion"
  /\ \E batch \in SUBSET Codes, label \in [Codes -> Labels], complete \in BOOLEAN :
       Opened(w, [Editing({"national"} \X batch, "upsert", label, TRUE)
                    EXCEPT !.complete = complete, !.known = {"national"} \X batch])

Changes(w, k) ==
  LET row == SeesEntry(w, k) IN
  IF editor[w].op = "retire" THEN row.active
  ELSE row = Missing \/ Value(row) # [label |-> editor[w].label[k[2]], active |-> editor[w].active]

\* A row another session wrote is locked until that one ends.
Unlocked(w, k) ==
  \A v \in Editors \ {w} : editor[v] # NoEditor => editor[v].wrote[k] = Missing

\* One row reaches the database; the trigger stamps it.  A row that did not
\* change is not written, and a value retired already is passed over.
FlushEntry(w) ==
  /\ editor[w].act = "flush"
  /\ \E k \in editor[w].todo :
       IF Changes(w, k)
       THEN /\ Unlocked(w, k)
            /\ SeesEntry(w, k) = Missing => entries[k] = Missing
            /\ drawn < MaxRevision
            /\ drawn' = drawn + 1
            /\ editor' = [editor EXCEPT ![w].act = "bump", ![w].todo = @ \ {k},
                 ![w].wrote[k] = [label |-> editor[w].label[k[2]],
                                  active |-> editor[w].active, revision |-> drawn + 1]]
       ELSE /\ UNCHANGED drawn
            /\ editor' = [editor EXCEPT ![w].todo = @ \ {k},
                 ![w].act = IF editor[w].op = "upsert" THEN "bump" ELSE @]
  /\ UNCHANGED <<source, entries, version, device>>

\* `_bump`
Bump(w) ==
  /\ editor[w].act = "bump"
  /\ \A v \in Editors \ {w} : editor[v] # NoEditor => ~editor[v].bumped
  /\ editor[w].version < MaxVersion
  /\ editor' = [editor EXCEPT ![w].act = "flush", ![w].version = @ + 1, ![w].bumped = TRUE]
  /\ UNCHANGED <<source, entries, version, drawn, device>>

\* Only a complete batch withdraws: what is active and was not in it.
RetireMissing(w) ==
  /\ editor[w].act = "flush" /\ editor[w].todo = {}
  /\ editor[w].complete
  /\ LET gone == {k \in {"national"} \X Codes :
                    SeesEntry(w, k) # Missing /\ SeesEntry(w, k).active /\ k \notin editor[w].known} IN
     editor' = [editor EXCEPT ![w].todo = gone, ![w].op = "retire", ![w].active = FALSE,
       ![w].complete = FALSE,
       ![w].label = [c \in Codes |->
          IF <<"national", c>> \in gone THEN SeesEntry(w, <<"national", c>>).label ELSE @[c]]]
  /\ UNCHANGED <<source, entries, version, drawn, device>>

CatalogCommit(w) ==
  /\ editor[w].act = "flush" /\ editor[w].todo = {} /\ ~editor[w].complete
  /\ entries' = [k \in Keys |-> SeesEntry(w, k)]
  /\ version' = IF editor[w].bumped THEN editor[w].version ELSE version
  /\ editor' = [editor EXCEPT ![w] = NoEditor]
  /\ UNCHANGED <<source, drawn, device>>

CatalogRollback(w) ==
  /\ editor[w] # NoEditor
  /\ editor' = [editor EXCEPT ![w] = NoEditor]
  /\ UNCHANGED <<source, entries, version, drawn, device>>

-----------------------------------------------------------------------------
(* The device *)

\* Mutant: the values a picker shows, and no tombstones.
OnlyOffered(row, since) == row.revision > since /\ row.active

Travels(row, since) == row.revision > since

\* `delta`: the first PageSize rows above the revision asked from, and the
\* revision to ask from next.
Delta(since) ==
  LET due == {k \in Keys : Travels(entries[k], since)}
      Before(k) == {n \in due : entries[n].revision < entries[k].revision}
  IN {k \in due : Cardinality(Before(k)) < PageSize}

Download ==
  LET page == Delta(device.since) IN
  /\ page # {}
  /\ device' =
       [held |-> [k \in Keys |-> IF k \in page THEN entries[k] ELSE device.held[k]],
        since |-> CHOOSE n \in {entries[k].revision : k \in page} :
                    \A k \in page : entries[k].revision <= n]
  /\ UNCHANGED <<source, entries, version, drawn, editor>>

CatalogNext ==
  \/ Download
  \/ \E w \in Editors :
       upsert_entry(w) \/ retire_entry(w) \/ import_materials(w) \/ FlushEntry(w) \/ Bump(w)
       \/ RetireMissing(w) \/ CatalogCommit(w) \/ CatalogRollback(w)

CatalogSpec == CatalogInit /\ [][CatalogNext]_kvars

-----------------------------------------------------------------------------
(* Properties *)

CatalogTypeOK ==
  /\ source \in CatalogSource
  /\ entries \in [Keys -> EntryRow \cup {Missing}]
  /\ version \in 1 .. MaxVersion
  /\ drawn \in 0 .. MaxRevision
  /\ device \in [held: [Keys -> EntryRow \cup {Missing}], since: 0 .. MaxRevision]

\* RF-034, "retired entries included": up to the revision it asks from, the
\* device holds what the catalogue holds -- new values, edited ones and
\* withdrawn ones, however the pages fall.  It is so while one session edits at
\* a time; two sessions commit in an order that is not that of their revisions,
\* and the device never asks for the one that came late.
DeviceMirrors ==
  \A k \in Keys : entries[k].revision <= device.since =>
    device.held[k] = entries[k]

(* What the documents say and the code does not keep with two sessions *)

\* "Bumped on every change to any of its entries."
VersionTells == [][entries' # entries => version' # version]_kvars
=============================================================================
