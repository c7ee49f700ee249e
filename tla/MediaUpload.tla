------------------------------ MODULE MediaUpload ------------------------------
(***************************************************************************)
(* The photos of one flood report: a slot is reserved and its upload       *)
(* signed, the client uploads to the object store, and a completion        *)
(* inspects the object and decides the slot.  The completion's three steps *)
(* are requests of their own to three systems, and nothing keeps the       *)
(* client from completing twice, or uploading again, in between.           *)
(***************************************************************************)
EXTENDS Requests

CONSTANTS
  Photos,        \* ids of the uploads that are authorised
  MaxAttachments \* maxAttachmentsPerReport

ASSUME AttachmentsAssumption == MaxAttachments \in Nat \ {0}

\* Those the code sets; the schema has REJECTED and DELETED as well.
MediaStatus == {"PENDING", "AVAILABLE", "FAILED"}

\* What the object store holds under a key: nothing, an object whose type
\* and size are those that were authorised, or another.
StoredObject == {"none", "matching", "other"}

VARIABLES
  media,  \* status of each photo's row, "NONE" without one
  signed, \* photos whose upload the client may perform
  stored  \* the object under each photo's key

mediaState == <<media, signed, stored>>
mediaVars == <<mediaState, environment>>

MediaInit ==
  /\ EnvironmentInit
  /\ media = [m \in Photos |-> "NONE"]
  /\ signed = {}
  /\ stored = [m \in Photos |-> "none"]

Attached == {m \in Photos : media[m] \in {"PENDING", "AVAILABLE"}}

\* Bug: the count and the insert are not in the locked transaction.
ReportUnlocked(h) == TRUE

\* pg_advisory_xact_lock of the report, held from the count to the insert.
ReportLocked(h) == \A other \in Handlers \ {h} : at[other] # "create-media"

\* WHERE id = ... AND status = 'PENDING'.
DecidePending(m, status) ==
  /\ media' = IF media[m] = "PENDING" THEN [media EXCEPT ![m] = status] ELSE media
  /\ UNCHANGED <<signed, stored>>

-----------------------------------------------------------------------------
\* authorizeUpload: the slot, then the signature.
AuthorizeUpload(h, m) ==
  /\ media[m] = "NONE"
  /\ \A other \in Handlers : mem[other] # m
  /\ ReportLocked(h)
  /\ Cardinality(Attached) < MaxAttachments
  /\ Begin(h, "create-media", m)
  /\ UNCHANGED mediaState

CreatePending(h) ==
  /\ at[h] = "create-media"
  /\ media' = [media EXCEPT ![mem[h]] = "PENDING"]
  /\ Proceed(h, "sign", mem[h])
  /\ UNCHANGED <<signed, stored>>

SignUpload(h) ==
  /\ at[h] = "sign"
  /\ signed' = signed \cup {mem[h]}
  /\ Finish(h)
  /\ UNCHANGED <<media, stored>>

SignFails(h) ==
  /\ at[h] = "sign"
  /\ DecidePending(mem[h], "FAILED")
  /\ Finish(h)

\* An upload link serves until it expires, so the client may upload again.
Upload(m, object) ==
  /\ m \in signed
  /\ stored' = [stored EXCEPT ![m] = object]
  /\ UNCHANGED <<media, signed, environment>>

\* completeUpload reads the row, inspects the object and commits a verdict.
CompleteUpload(h, m) ==
  /\ media[m] = "PENDING"
  /\ Begin(h, "inspect", m)
  /\ UNCHANGED mediaState

InspectObject(h) ==
  /\ at[h] = "inspect"
  /\ stored[mem[h]] # "none"
  /\ Proceed(h, IF stored[mem[h]] = "matching" THEN "accept" ELSE "reject", mem[h])
  /\ UNCHANGED mediaState

\* There is no object yet, or the store does not answer: the row stays.
InspectFails(h) ==
  /\ at[h] = "inspect"
  /\ Finish(h)
  /\ UNCHANGED mediaState

\* The transaction also writes the incident's photo_count, which is then 0: it
\* counts the reports whose incident_id is the photo's report_id.
MarkAvailable(h) ==
  /\ at[h] = "accept"
  /\ DecidePending(mem[h], "AVAILABLE")
  /\ Finish(h)

MarkFailed(h) ==
  /\ at[h] = "reject"
  /\ DecidePending(mem[h], "FAILED")
  /\ Finish(h)

MediaNext ==
  \/ \E h \in Handlers :
       \/ CreatePending(h) \/ SignUpload(h) \/ SignFails(h)
       \/ InspectObject(h) \/ InspectFails(h) \/ MarkAvailable(h) \/ MarkFailed(h)
       \/ \E m \in Photos : AuthorizeUpload(h, m) \/ CompleteUpload(h, m)
  \/ \E m \in Photos, object \in StoredObject \ {"none"} : Upload(m, object)

MediaSpec == MediaInit /\ [][MediaNext]_mediaVars

-----------------------------------------------------------------------------
MediaTypeOK ==
  /\ media \in [Photos -> {"NONE"} \cup MediaStatus]
  /\ signed \subseteq Photos
  /\ stored \in [Photos -> StoredObject]

(* However many uploads are authorised at once, a report never has more    *)
(* photos awaited or available than its limit.                             *)
AttachmentCap == Cardinality(Attached) <= MaxAttachments

(* A decided photo stays decided: of completions that overlap and that saw  *)
(* different objects under its key, the first to commit wins.              *)
VerdictFinal ==
  [][\A m \in Photos : media[m] \in {"AVAILABLE", "FAILED"} => media'[m] = media[m]]_media
=============================================================================
