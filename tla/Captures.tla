------------------------------ MODULE Captures ------------------------------
(***************************************************************************)
(* What one response holds while a technician fills it: the answers, the   *)
(* values a model proposed for them (responses/service.py,                 *)
(* voice/service.py, api/voice.py) and the photographs that hang off it    *)
(* (sync/operations.py), up to the blockers of its approval                *)
(* (review/service.py).                                                    *)
(*                                                                         *)
(* The answers are one JSON column.  A confirmation reads it, changes a    *)
(* field of its copy and writes the copy back: Begin and Commit are steps  *)
(* of their own.  A push of the phone replaces the column.                 *)
(***************************************************************************)
EXTENDS Naturals, FiniteSets, OrderLifecycle

CONSTANTS
  Fields, Values, NoAnswer,
  Photos,      \* photographs the phone may register
  MinBefore, MinAfter,
  Desks,       \* sessions of the API that confirm, discard or approve
  MaxDictations \* bound: dictations

ASSUME NoAnswerIsNoValue == NoAnswer \notin Values
ASSUME MinimumsGiven == MinBefore \in Nat /\ MinAfter \in Nat
ASSUME DictationsCounted == MaxDictations \in Nat

VARIABLES
  cstate,     \* state of the response, "none" before it exists
  answers,    \* form_response.answers
  provenance, \* field_provenance rows
  evidence,   \* evidence rows, one per photograph
  desk,       \* open sessions
  sent,       \* values of each field the technician sent
  confirmed,  \* values of each field a person confirmed
  dictations

cvars == <<cstate, answers, provenance, evidence, desk, sent, confirmed, dictations>>

\* A row of a field a model proposed.  The person is not told apart.
ProvenanceRow == [proposed: Values, final: Values \cup {NoAnswer}, confirmed_by: BOOLEAN]
NoRow == [proposed |-> NoAnswer, final |-> NoAnswer, confirmed_by |-> FALSE]

EvidenceStage == {"antes", "despues"}
IntegrityStatus == {"pendiente", "verificada", "alterada"}
Photo == [stage: EvidenceStage, gallery: BOOLEAN, integrity: IntegrityStatus]
NoPhoto == [stage |-> NoAnswer, gallery |-> FALSE, integrity |-> "pendiente"]

Free == [act |-> "free"]

CaptureInit ==
  /\ cstate = "none"
  /\ answers = [f \in Fields |-> NoAnswer]
  /\ provenance = [f \in Fields |-> NoRow]
  /\ evidence = [p \in Photos |-> NoPhoto]
  /\ desk = [d \in Desks |-> Free]
  /\ sent = [f \in Fields |-> {}]
  /\ confirmed = [f \in Fields |-> {}]
  /\ dictations = 0

-----------------------------------------------------------------------------
(* The phone *)

\* `save_answers`: the answers are replaced, and the form may be closed.
save_answers ==
  /\ cstate \in Editable
  /\ \E new \in [Fields -> Values \cup {NoAnswer}], submit \in BOOLEAN :
       /\ answers' = new
       /\ sent' = [f \in Fields |-> sent[f] \cup ({new[f]} \ {NoAnswer})]
       /\ cstate' = IF submit THEN "enviada"
                    ELSE IF cstate = "none" THEN "borrador" ELSE cstate
  /\ UNCHANGED <<provenance, evidence, desk, confirmed, dictations>>

\* `_apply_evidence`: a photograph hangs off a response that exists, in
\* whatever state that is.
register_evidence(p) ==
  /\ cstate # "none"
  /\ evidence[p] = NoPhoto
  /\ \E stage \in EvidenceStage, gallery \in BOOLEAN :
       evidence' = [evidence EXCEPT ![p] =
         [stage |-> stage, gallery |-> gallery, integrity |-> "pendiente"]]
  /\ UNCHANGED <<cstate, answers, provenance, desk, sent, confirmed, dictations>>

\* `confirm_upload`: the file is hashed each time the phone says it is there.
confirm_upload(p) ==
  /\ evidence[p] # NoPhoto
  /\ \E found \in IntegrityStatus \ {"pendiente"} :
       evidence' = [evidence EXCEPT ![p].integrity = found]
  /\ UNCHANGED <<cstate, answers, provenance, desk, sent, confirmed, dictations>>

-----------------------------------------------------------------------------
(* Voice *)

\* `record_provenance` of a proposal: no final value, and whoever confirmed an
\* earlier one stays on the row.
Proposal(f, v) ==
  [proposed |-> v, final |-> NoAnswer, confirmed_by |-> provenance[f].confirmed_by]

\* `propose_from_dictation` stores the proposal and leaves the answers alone.
dictate ==
  /\ cstate # "none"
  /\ dictations < MaxDictations
  /\ dictations' = dictations + 1
  /\ \E f \in Fields, v \in Values :
       provenance' = [provenance EXCEPT ![f] = Proposal(f, v)]
  /\ UNCHANGED <<cstate, answers, evidence, desk, sent, confirmed>>

\* Mutant: the copy takes along the proposals of the fields nobody has answered.
Prefilled ==
  [f \in Fields |-> IF answers[f] = NoAnswer THEN provenance[f].proposed ELSE answers[f]]

\* `dict(response.answers)`: the whole column, not the field.
Copied == answers

\* `confirm_proposal` reads the response, its answers and the proposal.
ConfirmBegin(d) ==
  /\ desk[d] = Free
  /\ \E f \in Fields, v \in Values :
       /\ provenance[f] # NoRow
       /\ desk' = [desk EXCEPT ![d] =
            [act |-> "confirm", field |-> f, value |-> v, read |-> Copied,
             proposed |-> provenance[f].proposed]]
  /\ UNCHANGED <<cstate, answers, provenance, evidence, sent, confirmed, dictations>>

\* The copy is written back with the field changed, whatever the state of the
\* response is by then; a row discarded meanwhile is written anew.
ConfirmCommit(d) ==
  LET f == desk[d].field IN
  /\ desk[d].act = "confirm"
  /\ answers' = [desk[d].read EXCEPT ![f] = desk[d].value]
  /\ provenance' = [provenance EXCEPT ![f] =
       [proposed |-> desk[d].proposed, final |-> desk[d].value, confirmed_by |-> TRUE]]
  /\ confirmed' = [confirmed EXCEPT ![f] = @ \cup {desk[d].value}]
  /\ desk' = [desk EXCEPT ![d] = Free]
  /\ UNCHANGED <<cstate, evidence, sent, dictations>>

discard(f) ==
  /\ provenance[f] # NoRow
  /\ provenance' = [provenance EXCEPT ![f] = NoRow]
  /\ UNCHANGED <<cstate, answers, evidence, desk, sent, confirmed, dictations>>

-----------------------------------------------------------------------------
(* The approval *)

\* `counts_as_evidence`: not from the gallery and not altered; pending counts.
counts_as_evidence(p) ==
  evidence[p] # NoPhoto /\ ~evidence[p].gallery /\ evidence[p].integrity # "alterada"

\* `photo_counts` against the form's minimums.
missing_photos ==
  LET photo_counts(stage) ==
        Cardinality({p \in Photos : counts_as_evidence(p) /\ evidence[p].stage = stage})
  IN photo_counts("antes") < MinBefore \/ photo_counts("despues") < MinAfter

unconfirmed_ai_values ==
  {f \in Fields : provenance[f] # NoRow /\ ~provenance[f].confirmed_by}

approval_blockers ==
  cstate \in {"none", "borrador"} \/ missing_photos \/ unconfirmed_ai_values # {}

ApprovalBegin(d) ==
  /\ desk[d] = Free
  /\ cstate = "enviada"
  /\ ~approval_blockers
  /\ desk' = [desk EXCEPT ![d] = [act |-> "approve"]]
  /\ UNCHANGED <<cstate, answers, provenance, evidence, sent, confirmed, dictations>>

ApprovalCommit(d) ==
  /\ desk[d].act = "approve"
  /\ cstate' = "aprobada"
  /\ desk' = [desk EXCEPT ![d] = Free]
  /\ UNCHANGED <<answers, provenance, evidence, sent, confirmed, dictations>>

ReturnResponse ==
  /\ cstate = "enviada"
  /\ cstate' = "devuelta"
  /\ UNCHANGED <<answers, provenance, evidence, desk, sent, confirmed, dictations>>

DeskEnds(d) ==
  /\ desk[d] # Free
  /\ desk' = [desk EXCEPT ![d] = Free]
  /\ UNCHANGED <<cstate, answers, provenance, evidence, sent, confirmed, dictations>>

CaptureNext ==
  \/ save_answers \/ dictate \/ ReturnResponse
  \/ \E p \in Photos : register_evidence(p) \/ confirm_upload(p)
  \/ \E f \in Fields : discard(f)
  \/ \E d \in Desks :
       ConfirmBegin(d) \/ ConfirmCommit(d) \/ ApprovalBegin(d) \/ ApprovalCommit(d)
       \/ DeskEnds(d)

CaptureSpec == CaptureInit /\ [][CaptureNext]_cvars

-----------------------------------------------------------------------------
(* Properties *)

CaptureTypeOK ==
  /\ cstate \in ResponseState
  /\ answers \in [Fields -> Values \cup {NoAnswer}]
  /\ provenance \in [Fields -> ProvenanceRow \cup {NoRow}]
  /\ evidence \in [Photos -> Photo \cup {NoPhoto}]
  /\ sent \in [Fields -> SUBSET Values]
  /\ confirmed \in [Fields -> SUBSET Values]
  /\ dictations \in 0 .. MaxDictations

\* Rule 0.5: no value of the response is a model's alone.  A confirmation writes
\* back every other field as it read it, over pushes, proposals, discards and
\* confirmations that came since: what stands in a field was even so sent by the
\* technician or confirmed by a person, for that field.  Not that it is the last
\* such value: see SubmittedIsImmutable.
AnswersFromPeople ==
  \A f \in Fields : answers[f] # NoAnswer => answers[f] \in sent[f] \cup confirmed[f]

(* What the documents say and the code does not keep *)

\* "Closed in the field and delivered.  Immutable from the device onwards": a
\* confirmation writes its copy over what the technician submitted meanwhile.
SubmittedIsImmutable ==
  [][(cstate \in {"enviada", "aprobada"}) => answers' = answers]_cvars

\* "Who confirmed it.  Never null for an AI value on a submitted response."
ConfirmedOnSubmission == cstate = "enviada" => unconfirmed_ai_values = {}

\* Rule 0.5 again: a field a model proposed a value for is approved only when
\* a person confirmed that proposal.
ConfirmedThatProposal ==
  [][cstate' = "aprobada" /\ cstate # "aprobada" =>
       \A f \in Fields : provenance[f] # NoRow => provenance[f].final # NoAnswer]_cvars
=============================================================================
