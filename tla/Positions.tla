------------------------------ MODULE Positions ------------------------------
(***************************************************************************)
(* The last position of a phone that several people carry, and the word of *)
(* each of them on reporting it (dispatch/positions.py, api/sync.py, the   *)
(* nightly purge of workers/celery_app.py).                                *)
(*                                                                         *)
(* A request reads the device and its position first, and writes later:    *)
(* nothing locks either row in between.                                    *)
(***************************************************************************)
EXTENDS Integers, FiniteSets

CONSTANTS
  Holders,   \* people the phone lets in
  Reporters, \* database sessions of the phone
  Required,  \* values `require_position_consent` takes
  Workdays,  \* days of 1 .. LastSeen inside the working week
  LastSeen,  \* bound: days
  NobodyYet  \* no consent

ASSUME NobodyIsNoHolder == NobodyYet \notin Holders
ASSUME DaysGiven == LastSeen \in Nat \ {0}

VARIABLES
  now,       \* the day
  required,  \* the policy in force
  consent,   \* position_consent_sub of the device
  dot,       \* its device_position row
  word,      \* the last answer of each person
  chat       \* open sessions

dvars == <<now, required, consent, dot, word, chat>>

RETENTION == 1  \* days

Day == 1 .. LastSeen
Dot == [by: Holders, at: Day]
NoDot == [at |-> 0]
Silent == [act |-> "none"]

PositionInit ==
  /\ now = 1
  /\ required \in Required
  /\ consent = NobodyYet
  /\ dot = NoDot
  /\ word = [p \in Holders |-> "none"]
  /\ chat = [s \in Reporters |-> Silent]

NextDay ==
  /\ now < LastSeen
  /\ now' = now + 1
  /\ UNCHANGED <<required, consent, dot, word, chat>>

PolicySet ==
  /\ required' \in Required
  /\ UNCHANGED <<now, consent, dot, word, chat>>

Talks(s, session) ==
  /\ chat[s] = Silent
  /\ chat' = [chat EXCEPT ![s] = session]
  /\ UNCHANGED <<now, required, consent, dot, word>>

-----------------------------------------------------------------------------
(* Reporting *)

\* Mutant: a phone somebody accepted reports whoever carries it.
AnyConsent(p) == consent # NobodyYet

\* A consent is a person's, not a device's.
has_consent(p) == consent = p

\* `refusal`, by the day the phone says it is.
MayReport(p, at) == (required => has_consent(p)) /\ at \in Workdays

\* `report`: one older than the position stored is dropped.
ReportBegin(s) ==
  \E p \in Holders, at \in 1 .. now :
    /\ MayReport(p, at)
    /\ at >= dot.at
    /\ Talks(s, [act |-> "report", new |-> [by |-> p, at |-> at], over |-> dot # NoDot])

\* The key of the row is the device: an insert finds none, an update finds one.
ReportCommit(s) ==
  /\ chat[s].act = "report"
  /\ chat[s].over <=> dot # NoDot
  /\ dot' = chat[s].new
  /\ chat' = [chat EXCEPT ![s] = Silent]
  /\ UNCHANGED <<now, required, consent, word>>

-----------------------------------------------------------------------------
(* Consent *)

\* `set_consent` to an acceptance; the person's own again changes nothing.
AcceptBegin(s) ==
  \E p \in Holders \ {consent} : Talks(s, [act |-> "accept", by |-> p])

AcceptCommit(s) ==
  /\ chat[s].act = "accept"
  /\ consent' = chat[s].by
  /\ word' = [word EXCEPT ![chat[s].by] = "yes"]
  /\ chat' = [chat EXCEPT ![s] = Silent]
  /\ UNCHANGED <<now, required, dot>>

\* `set_consent` to a withdrawal when nobody accepted: nothing is written.
WithdrawNothing(p) ==
  /\ consent = NobodyYet
  /\ word' = [word EXCEPT ![p] = "no"]
  /\ UNCHANGED <<now, required, consent, dot, chat>>

\* And when somebody did, whoever it was.
WithdrawBegin(s) ==
  /\ consent # NobodyYet
  /\ \E p \in Holders : Talks(s, [act |-> "withdraw", by |-> p, sees |-> dot # NoDot])

\* Mutant: the consent goes, the position stays.
OnlyTheConsent(s) == dot

\* The position it read goes with the consent.
Erased(s) == IF chat[s].sees THEN NoDot ELSE dot

WithdrawCommit(s) ==
  /\ chat[s].act = "withdraw"
  /\ consent' = NobodyYet
  /\ dot' = Erased(s)
  /\ word' = [word EXCEPT ![chat[s].by] = "no"]
  /\ chat' = [chat EXCEPT ![s] = Silent]
  /\ UNCHANGED <<now, required>>

ChatEnds(s) ==
  /\ chat[s] # Silent
  /\ chat' = [chat EXCEPT ![s] = Silent]
  /\ UNCHANGED <<now, required, consent, dot, word>>

\* `purge`, every night.
purge ==
  /\ dot # NoDot
  /\ dot.at < now - RETENTION
  /\ dot' = NoDot
  /\ UNCHANGED <<now, required, consent, word, chat>>

PositionNext ==
  \/ NextDay \/ PolicySet \/ purge
  \/ \E p \in Holders : WithdrawNothing(p)
  \/ \E s \in Reporters :
       \/ ReportBegin(s) \/ ReportCommit(s) \/ AcceptBegin(s) \/ AcceptCommit(s)
       \/ WithdrawBegin(s) \/ WithdrawCommit(s) \/ ChatEnds(s)

PositionSpec == PositionInit /\ [][PositionNext]_dvars

-----------------------------------------------------------------------------
(* Properties *)

PositionTypeOK ==
  /\ now \in Day
  /\ required \in BOOLEAN
  /\ consent \in Holders \cup {NobodyYet}
  /\ dot \in Dot \cup {NoDot}
  /\ word \in [Holders -> {"none", "yes", "no"}]

\* RF-107, "not honoured by a dot that stays on the dispatch map": no stored
\* position is of a person whose last word was no, whoever else accepted,
\* withdrew or reported from the phone since and whatever order the reports
\* came in -- where consent is asked, one session at a time.
NoDotAfterNo == dot # NoDot => word[dot.by] # "no"
=============================================================================
