------------------------------ MODULE Uploads ------------------------------
(***************************************************************************)
(* A file from the phone to the object store, by parts and across cuts     *)
(* (storage/service.py, api/storage.py, ResumableUpload of Uploads.kt),    *)
(* and the evidence that names it (responses/service.py).                  *)
(*                                                                         *)
(* A file is the sequence of its bytes, which nobody alters; its hash is   *)
(* the file itself.  Every answer of the server or the store may be lost;  *)
(* the phone then asks what arrived.  A URL that expired is asked for      *)
(* again and is the same request.  The order of requests is the phone's    *)
(* own, which may die between any two: it keeps its upload, and asks.      *)
(***************************************************************************)
EXTENDS Integers, Sequences, FiniteSets

CONSTANTS
  Files,        \* files captured
  BytesOf,      \* their size
  KindOf,       \* the kind each is presented as
  LimitOf,      \* the size a kind admits
  PART_SIZE,    \* bytes of a part
  MaxUploads    \* bound: uploads opened

ASSUME PartsHoldSomething == PART_SIZE \in Nat \ {0}
ASSUME FilesHaveSizes == BytesOf \in [Files -> Nat]

VARIABLES
  uploads,   \* the store's uploads by parts, in the order they were opened
  objects,   \* the store's objects, by storage key
  sender,    \* what the phone knows of the upload of each file
  pieces     \* evidence rows, by file

uvars == <<uploads, objects, sender, pieces>>

File(f) == [i \in 1 .. BytesOf[f] |-> <<f, i>>]
Missing == <<>>

NotOpened == [upload |-> 0, held |-> {}, asked |-> FALSE, closed |-> FALSE]
Opened(u) == [upload |-> u, held |-> {}, asked |-> TRUE, closed |-> FALSE]

-----------------------------------------------------------------------------
(* Sizes and parts *)

\* `_check`
Admitted(f) == BytesOf[f] > 0 /\ BytesOf[f] <= LimitOf[KindOf[f]]

\* The part that is not full counts.
part_count(bytes) == LET full == bytes \div PART_SIZE
                         parts == IF bytes % PART_SIZE = 0 THEN full ELSE full + 1
                     IN IF parts < 1 THEN 1 ELSE parts

\* Where each part of a file begins, and how much of it there is.
PartRange(bytes, number) ==
  LET offset == (number - 1) * PART_SIZE
      left == bytes - offset
  IN [number |-> number, offset |-> offset, length |-> IF left < PART_SIZE THEN left ELSE PART_SIZE]

\* Mutant: the last part only if it is full.
whole_parts(bytes, uploaded) ==
  {PartRange(bytes, n) : n \in (1 .. bytes \div PART_SIZE) \ uploaded}

\* `ResumableUpload.plan`: what remains to be sent.
plan(bytes, uploaded) ==
  {PartRange(bytes, n) : n \in (1 .. ((bytes + PART_SIZE - 1) \div PART_SIZE)) \ uploaded}

Bytes(f, range) == SubSeq(File(f), range.offset + 1, range.offset + range.length)

\* `complete_multipart`: the parts listed, in the order of their numbers.
Assembled(f, listed) ==
  LET upTo[n \in 0 .. part_count(BytesOf[f])] ==
        IF n = 0 THEN <<>>
        ELSE IF n \in listed THEN upTo[n - 1] \o Bytes(f, PartRange(BytesOf[f], n))
        ELSE upTo[n - 1]
  IN upTo[part_count(BytesOf[f])]

-----------------------------------------------------------------------------
(* The phone's requests *)

Knows(f) == sender[f].upload # 0
Sending(f) == Knows(f) /\ ~sender[f].closed
UploadOf(f) == uploads[sender[f].upload]
Learns(f, what) == sender' = [sender EXCEPT ![f] = what]

UploadsInit ==
  /\ uploads = <<>>
  /\ objects = <<>>
  /\ sender = [f \in Files |-> NotOpened]
  /\ pieces = [f \in Files |-> Missing]

\* `multipart_start`: a key of its own for every upload.
OpenUpload(f) ==
  /\ ~Knows(f) /\ Len(uploads) < MaxUploads
  /\ Admitted(f)
  /\ uploads' = Append(uploads, [file |-> f, parts |-> {}, open |-> TRUE,
                                 part_count |-> part_count(BytesOf[f])])
  /\ objects' = Append(objects, Missing)
  /\ \/ Learns(f, Opened(Len(uploads) + 1))
     \/ UNCHANGED sender
  /\ UNCHANGED pieces

\* `multipart_status`: by the store and not by the phone.  An upload that was
\* closed or abandoned does not exist, and the phone opens another.
AskParts(f) ==
  /\ Sending(f) /\ ~sender[f].asked
  /\ Learns(f, IF UploadOf(f).open THEN [sender[f] EXCEPT !.held = UploadOf(f).parts, !.asked = TRUE]
               ELSE NotOpened)
  /\ UNCHANGED <<uploads, objects, pieces>>

\* A part reaches the store; the phone hears of it, or does not.
Stored(u, number) == [uploads EXCEPT ![u].parts = @ \cup {number}]
Confirmed(f, number) == [sender[f] EXCEPT !.held = @ \cup {number}]
Unanswered(f) == [sender[f] EXCEPT !.asked = FALSE]

\* `multipart_parts` and the PUT of one of them, straight to the store.
PutPart(f) ==
  /\ Sending(f) /\ sender[f].asked /\ UploadOf(f).open
  /\ \E range \in plan(BytesOf[f], sender[f].held) :
       /\ range.number <= 10000
       /\ uploads' = Stored(sender[f].upload, range.number)
       /\ Learns(f, Confirmed(f, range.number)) \/ Learns(f, Unanswered(f))
  /\ UNCHANGED <<objects, pieces>>

\* `multipart_complete`: the parts the phone lists, none that the store does not
\* hold, and none of an upload that is closed.
CloseUpload(f) ==
  /\ Sending(f) /\ sender[f].asked
  /\ plan(BytesOf[f], sender[f].held) = {}
  /\ LET u == sender[f].upload
         listed == sender[f].held
         accepted == uploads[u].open /\ listed # {} /\ listed \subseteq uploads[u].parts
     IN /\ IF accepted
           THEN /\ uploads' = [uploads EXCEPT ![u].open = FALSE]
                /\ objects' = [objects EXCEPT ![u] = Assembled(f, listed)]
           ELSE UNCHANGED <<uploads, objects>>
        /\ \E answered \in BOOLEAN :
             Learns(f, [sender[f] EXCEPT !.asked = answered /\ accepted,
                                         !.closed = answered /\ accepted])
  /\ UNCHANGED pieces

\* `multipart_abort`
AbortUpload(f) ==
  /\ Sending(f) /\ UploadOf(f).open
  /\ uploads' = [uploads EXCEPT ![sender[f].upload] = [@ EXCEPT !.open = FALSE, !.parts = {}]]
  /\ Learns(f, NotOpened)
  /\ UNCHANGED <<objects, pieces>>

\* The phone loses the connection, or dies: what it held it must ask again.
Cut(f) ==
  /\ Sending(f) /\ sender[f].asked
  /\ Learns(f, [sender[f] EXCEPT !.asked = FALSE, !.held = {}])
  /\ UNCHANGED <<uploads, objects, pieces>>

-----------------------------------------------------------------------------
(* The evidence *)

\* `register_evidence`, before or after its file is there.
RegisterPiece(f) ==
  /\ pieces[f] = Missing /\ Knows(f)
  /\ pieces' = [pieces EXCEPT ![f] =
       [content_hash |-> File(f), storage_key |-> sender[f].upload, integrity_status |-> "pendiente"]]
  /\ UNCHANGED <<uploads, objects, sender>>

\* `_apply_evidence_uploaded`, `confirm_upload`: refused while there is nothing
\* to read; what is read is recorded whatever it is.
ConfirmPiece(f) ==
  /\ pieces[f] # Missing
  /\ LET content == objects[pieces[f].storage_key] IN
     /\ content # Missing
     /\ pieces' = [pieces EXCEPT ![f].integrity_status =
          IF content = pieces[f].content_hash THEN "verificada" ELSE "alterada"]
  /\ UNCHANGED <<uploads, objects, sender>>

UploadsNext ==
  \E f \in Files : \/ OpenUpload(f) \/ AskParts(f) \/ PutPart(f) \/ CloseUpload(f)
                   \/ AbortUpload(f) \/ Cut(f) \/ RegisterPiece(f) \/ ConfirmPiece(f)
UploadsSpec == UploadsInit /\ [][UploadsNext]_uvars

-----------------------------------------------------------------------------
(* Properties *)

\* Whatever answers were lost and however often the upload was taken up again,
\* the object a close leaves is the file, byte by byte, in the parts the server
\* announced; and a photograph nobody touched is never recorded as altered.
FileIsWhole ==
  /\ \A u \in DOMAIN objects : objects[u] # Missing =>
       /\ objects[u] = File(uploads[u].file)
       /\ Cardinality(uploads[u].parts) = uploads[u].part_count
  /\ \A f \in Files : pieces[f] # Missing => pieces[f].integrity_status # "alterada"

(* What the documents say and the code does not keep *)

\* "Cutting at half and taking it up again does not start from nothing": an
\* upload whose closing was not answered is no upload to the server, and the
\* phone opens another.
NotFromNothing ==
  \A u, w \in DOMAIN uploads :
    u < w /\ uploads[u].file = uploads[w].file => objects[u] = Missing
=============================================================================
