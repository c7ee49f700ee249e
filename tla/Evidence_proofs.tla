----------------------------- MODULE Evidence_proofs -----------------------------
(***************************************************************************)
(* Theorems about what is known of a flood and where it comes from:        *)
(* official warnings, the photos of a report, the reports that become      *)
(* incidents, and the confidence in an incident.  They hold for any number *)
(* of transactions at a time, and for any weights of the evidence.         *)
(***************************************************************************)
EXTENDS OfficialWarning, MediaUpload, IncidentConfidence, ReportAssociation, Accounts_proofs,
        FiniteSetTheorems, WellFoundedInduction

(***************************************************************************)
(* OfficialWarning.                                                        *)
(***************************************************************************)

WarningSteps == {Free, "find-warning", "write-warning", "emit-warning"}

WarningMemory ==
  /\ now \in Times
  /\ at \in [Handlers -> WarningSteps]
  /\ DOMAIN mem = Handlers /\ mem = [h \in Handlers |-> mem[h]]

\* A transaction that found the row keeps it as it is by its lock.
FoundIsPresent ==
  \A h \in Handlers :
    at[h] = "write-warning" => mem[h].found \in {NoWarning, warning}

WarningInv == WarningTypeOK /\ WarningMemory /\ FoundIsPresent /\ ChangesAreEvaluated

(* An item of the feed is a warning once its status is determined. *)
LEMMA NormalizedType ==
  ASSUME NEW item \in Feed
  PROVE  NormalizeAndValidate(item) \in Warning
<1>1. item \in FeedItem
  BY FeedAssumption
<1>2. NormalizeAndValidate(item).status \in OfficialWarningStatus
  BY <1>1 DEF NormalizeAndValidate, FeedItem, OfficialWarningStatus
<1>. QED
  BY <1>1, <1>2 DEF NormalizeAndValidate, FeedItem, Warning

(* There is no warning, and nothing to evaluate. *)
LEMMA WarningStarts == WarningInit => WarningInv
<1> USE RequestsAssumption
<1>1. WarningInit => WarningTypeOK /\ WarningMemory
  BY DEF WarningInit, EnvironmentInit, WarningTypeOK, WarningMemory, WarningSteps, Free, Nothing,
     Times
<1>2. WarningInit => FoundIsPresent /\ ChangesAreEvaluated
  BY DEF WarningInit, EnvironmentInit, FoundIsPresent, ChangesAreEvaluated, Free
<1>. QED
  BY <1>1, <1>2 DEF WarningInv

(* A handler that proceeds leaves the others where they are. *)
LEMMA WarningProceeds ==
  ASSUME WarningMemory, NEW h \in Handlers, NEW step \in WarningSteps, NEW memory, Proceed(h, step, memory)
  PROVE  /\ WarningMemory'
         /\ at'[h] = step /\ mem'[h] = memory
         /\ \A g \in Handlers \ {h} : at'[g] = at[g] /\ mem'[g] = mem[g]
BY DEF Proceed, WarningMemory

(* The same for a request that begins. *)
LEMMA WarningBegins ==
  ASSUME WarningMemory, NEW h \in Handlers, NEW step \in WarningSteps, NEW memory, Begin(h, step, memory)
  PROVE  /\ WarningMemory'
         /\ at[h] = Free /\ at'[h] = step /\ mem'[h] = memory
         /\ \A g \in Handlers \ {h} : at'[g] = at[g] /\ mem'[g] = mem[g]
BY DEF Begin, WarningMemory

(* The event of a change has a kind and the time of its transaction. *)
LEMMA KindType ==
  ASSUME NEW inserted \in BOOLEAN, NEW found, NEW item
  PROVE  KindOf(inserted, found, item) \in Kinds
BY DEF KindOf, Kinds

(* Every step keeps the invariant. *)
LEMMA WarningStepInv == WarningInv /\ [WarningNext]_warningVars => WarningInv'
<1> SUFFICES ASSUME WarningInv, [WarningNext]_warningVars PROVE WarningInv'
  OBVIOUS
<1> USE DEF WarningInv
<1>0. NoWarning \notin Warning
  BY DEF NoWarning, Warning, OfficialWarningStatus
<1>1. ASSUME NEW h \in Handlers, NEW item \in Feed, Ingest(h, item) PROVE WarningInv'
  <2>1. /\ WarningMemory'
        /\ at[h] = Free /\ at'[h] = "find-warning"
        /\ mem'[h] = [item |-> NormalizeAndValidate(item), began |-> now]
        /\ \A g \in Handlers \ {h} : at'[g] = at[g] /\ mem'[g] = mem[g]
    BY <1>1, WarningBegins DEF Ingest, WarningSteps
  <2>2. UNCHANGED warningState
    BY <1>1 DEF Ingest
  <2>3. mem'[h] \in [item : Warning, began : Times]
    BY <2>1, NormalizedType DEF WarningMemory
  <2>4. WarningTypeOK'
    BY <2>1, <2>2, <2>3 DEF WarningTypeOK, warningState
  <2>. QED
    BY <2>1, <2>2, <2>4 DEF warningState, FoundIsPresent, ChangesAreEvaluated, Free
<1>2. ASSUME NEW h \in Handlers, FindByIdentity(h) PROVE WarningInv'
  <2>1. /\ WarningMemory'
        /\ at[h] = "find-warning" /\ at'[h] = "write-warning"
        /\ mem'[h] = [item |-> mem[h].item, began |-> mem[h].began, found |-> warning]
        /\ \A g \in Handlers \ {h} : at'[g] = at[g] /\ mem'[g] = mem[g]
    BY <1>2, WarningProceeds DEF FindByIdentity, WarningSteps
  <2>2. UNCHANGED warningState
    BY <1>2 DEF FindByIdentity
  <2>3. mem'[h] \in [item : Warning, began : Times, found : {NoWarning} \cup Warning]
    BY <2>1 DEF WarningTypeOK
  <2>4. WarningTypeOK'
    BY <2>1, <2>2, <2>3 DEF WarningTypeOK, warningState
  <2>. QED
    BY <2>1, <2>2, <2>4 DEF warningState, FoundIsPresent, ChangesAreEvaluated
<1>3. ASSUME NEW h \in Handlers, Upsert(h) PROVE WarningInv'
  <2> DEFINE item == mem[h].item
             found == mem[h].found
             inserted == warning = NoWarning
             event == [kind |-> KindOf(inserted, found, item), at |-> mem[h].began]
             emits == inserted \/ MateriallyChanged(found, item)
  <2>1. /\ item \in Warning /\ found \in {NoWarning, warning} /\ at[h] = "write-warning"
        /\ mem[h].began \in Times
    BY <1>3 DEF Upsert, WarningTypeOK, FoundIsPresent
  <2>2. /\ warning' = item
        /\ UNCHANGED <<known, events, evaluated>>
        /\ \A g \in Handlers \ {h} : at[g] = "write-warning" => mem[g].found = NoWarning
    BY <1>3 DEF Upsert, RowFree
  <2>3. IF emits THEN Proceed(h, "emit-warning", event) /\ UNCHANGED missed
        ELSE /\ Finish(h)
             /\ missed' = (missed \/ (found = NoWarning /\ item # warning))
    BY <1>3 DEF Upsert
  <2>4. event \in Events
    BY <2>1, KindType DEF Events
  <2> HIDE DEF event
  <2>5. /\ WarningMemory'
        /\ at'[h] = IF emits THEN "emit-warning" ELSE Free
        /\ emits => mem'[h] = event
        /\ \A g \in Handlers \ {h} : at'[g] = at[g] /\ mem'[g] = mem[g]
    BY <2>3, WarningProceeds DEF Finish, WarningSteps
  <2>6. WarningTypeOK'
    BY <2>1, <2>2, <2>4, <2>5 DEF WarningTypeOK, Free
  <2>7. FoundIsPresent'
    BY <2>2, <2>5 DEF FoundIsPresent, Free
  <2>8. ChangesAreEvaluated'
    <3>1. CASE emits
      BY <2>5, <3>1 DEF ChangesAreEvaluated
    <3>2. CASE ~emits
      <4>1. found \in {NoWarning, item} /\ warning # NoWarning
        BY <3>2 DEF MateriallyChanged
      <4>2. missed' <=> (missed \/ (found = NoWarning /\ item # warning))
        BY <2>3, <3>2, Zenon
      <4>3. item = warning \/ missed'
        BY <1>0, <2>1, <4>1, <4>2
      <4>. QED
        BY <2>1, <2>2, <2>5, <4>2, <4>3 DEF ChangesAreEvaluated
    <3>. QED
      BY <3>1, <3>2
  <2>. QED
    BY <2>5, <2>6, <2>7, <2>8
<1>4. ASSUME NEW h \in Handlers, ExpireDue(h) PROVE WarningInv'
  <2> DEFINE event == [kind |-> "expired", at |-> now]
  <2>1. /\ WarningMemory'
        /\ at[h] = Free /\ at'[h] = "emit-warning" /\ mem'[h] = event
        /\ \A g \in Handlers \ {h} : at'[g] = at[g] /\ mem'[g] = mem[g]
    BY <1>4, WarningProceeds DEF ExpireDue, WarningSteps
  <2>2. /\ warning.status = "ACTIVE" /\ warning' = [warning EXCEPT !.status = "EXPIRED"]
        /\ \A g \in Handlers \ {h} : at[g] = "write-warning" => mem[g].found = NoWarning
        /\ UNCHANGED <<known, events, evaluated, missed>>
    BY <1>4 DEF ExpireDue, Due, RowFree
  <2>3. warning' \in Warning
    BY <2>2 DEF WarningTypeOK, NoWarning, Warning, OfficialWarningStatus
  <2>4. event \in Events
    BY DEF Events, Kinds, WarningMemory
  <2> HIDE DEF event
  <2>5. WarningTypeOK'
    BY <2>1, <2>2, <2>3, <2>4 DEF WarningTypeOK
  <2>. QED
    BY <2>1, <2>2, <2>5 DEF FoundIsPresent, ChangesAreEvaluated
<1>5. ASSUME NEW h \in Handlers, Emit(h) \/ EmitLost(h) PROVE WarningInv'
  <2> DEFINE event == mem[h]
  <2>1. /\ WarningMemory'
        /\ at[h] = "emit-warning" /\ at'[h] = Free
        /\ \A g \in Handlers \ {h} : at'[g] = at[g] /\ mem'[g] = mem[g]
    BY <1>5, WarningProceeds DEF Emit, EmitLost, Finish, WarningSteps
  <2>2. event \in Events
    BY <2>1 DEF WarningTypeOK
  <2>3. /\ UNCHANGED <<warning, evaluated>>
        /\ known' \in {known, known \cup {event}}
        /\ events \subseteq events' /\ events' \subseteq events \cup {event}
        /\ events' \subseteq known'
    BY <1>5 DEF Emit, EmitLost, WarningTypeOK
  <2>4. events' # {} \/ (missed' <=> Forsaken)
    <3>1. CASE EmitLost(h)
      BY <3>1, Zenon DEF EmitLost
    <3>2. CASE Emit(h) /\ event \in known \ events
      BY <3>2, Zenon DEF Emit
    <3>3. CASE Emit(h) /\ event \notin known \ events
      <4>1. event \in events'
        BY <3>3 DEF Emit
      <4>. QED
        BY <4>1
    <3>. QED
      BY <1>5, <3>1, <3>2, <3>3
  <2>5. WarningTypeOK'
    BY <2>1, <2>2, <2>3 DEF WarningTypeOK, Free
  <2>6. FoundIsPresent'
    BY <2>1, <2>3 DEF FoundIsPresent, Free
  <2>7. ChangesAreEvaluated'
    BY <2>3, <2>4 DEF ChangesAreEvaluated, Forsaken
  <2>. QED
    BY <2>1, <2>5, <2>6, <2>7
<1>6. ASSUME NEW event \in events, Evaluate(event) \/ GiveUp(event) PROVE WarningInv'
  <2>1. /\ UNCHANGED <<warning, known, now, begun, at, mem>>
        /\ events' \subseteq events
        /\ evaluated' \in {evaluated, warning}
    BY <1>6 DEF Evaluate, GiveUp, environment, requests
  <2>2. WarningTypeOK' /\ WarningMemory' /\ FoundIsPresent'
    BY <2>1 DEF WarningTypeOK, WarningMemory, FoundIsPresent
  <2>3. ChangesAreEvaluated'
    <3>1. CASE Evaluate(event)
      BY <3>1 DEF Evaluate, ChangesAreEvaluated
    <3>2. CASE GiveUp(event)
      <4>1. missed' <=> Forsaken
        BY <3>2, Zenon DEF GiveUp
      <4>. QED
        BY <2>1, <3>2, <4>1 DEF GiveUp, ChangesAreEvaluated, Forsaken
    <3>. QED
      BY <1>6, <3>1, <3>2
  <2>. QED
    BY <2>2, <2>3
<1>7. CASE WarningTick \/ UNCHANGED warningVars
  <2>1. now' \in Times /\ UNCHANGED <<warningState, requests>>
    BY <1>7, RequestsAssumption
       DEF WarningTick, PassTime, warningVars, environment, WarningMemory, Times
  <2>. QED
    BY <2>1 DEF warningState, requests, WarningTypeOK, WarningMemory, FoundIsPresent,
       ChangesAreEvaluated
<1>. QED
  BY <1>1, <1>2, <1>3, <1>4, <1>5, <1>6, <1>7 DEF WarningNext, WarningStep

(* The row, the events and what the transactions hold keep their types.    *)
THEOREM WarningTypeCorrect == WarningSpec => []WarningTypeOK
<1>1. WarningInv => WarningTypeOK
  BY DEF WarningInv
<1>. QED
  BY WarningStarts, WarningStepInv, <1>1, PTL DEF WarningSpec

(* For any number of overlapping deliveries and sweeps, a change that is   *)
(* not evaluated yet has its event on the way, unless the event was lost   *)
(* after the commit, failed on all attempts, had the id of one before, or  *)
(* two first deliveries met.                                               *)
THEOREM EveryChangeIsEvaluated == WarningSpec => []ChangesAreEvaluated
<1>1. WarningInv => ChangesAreEvaluated
  BY DEF WarningInv
<1>. QED
  BY WarningStarts, WarningStepInv, <1>1, PTL DEF WarningSpec

-----------------------------------------------------------------------------
(***************************************************************************)
(* MediaUpload.                                                            *)
(***************************************************************************)

\* Who is about to create a row holds the lock of the report, the row is not
\* there yet, and the count leaves room for it.
SlotReserved ==
  \A h \in Handlers : at[h] = "create-media" =>
    /\ \A g \in Handlers \ {h} : at[g] # "create-media"
    /\ media[mem[h]] = "NONE"
    /\ Cardinality(Attached) < MaxAttachments

MediaMemory == \A h \in Handlers : at[h] # Free => mem[h] \in Photos

MediaInv ==
  /\ Registers /\ MediaTypeOK /\ MediaMemory
  /\ SlotReserved /\ AttachmentCap /\ IsFiniteSet(Attached)

(* No slot is reserved. *)
LEMMA MediaStarts == MediaInit => MediaInv
<1> SUFFICES ASSUME MediaInit PROVE MediaInv
  OBVIOUS
<1>1. Registers /\ \A h \in Handlers : at[h] = Free
  BY RegistersStart DEF MediaInit
<1>2. Attached = {}
  BY DEF MediaInit, Attached
<1>3. AttachmentCap /\ IsFiniteSet(Attached)
  BY <1>2, FS_EmptySet, AttachmentsAssumption DEF AttachmentCap
<1>4. MediaTypeOK
  BY DEF MediaInit, MediaTypeOK, StoredObject
<1>. QED
  BY <1>1, <1>3, <1>4 DEF MediaInv, MediaMemory, SlotReserved, Free

(* Fewer photos are no more than the limit either. *)
LEMMA AttachedShrinks ==
  ASSUME IsFiniteSet(Attached), Attached' \subseteq Attached
  PROVE  IsFiniteSet(Attached') /\ Cardinality(Attached') <= Cardinality(Attached)
         /\ Cardinality(Attached) \in Nat /\ Cardinality(Attached') \in Nat
BY FS_Subset, FS_CardinalityType

(* A verdict decides the row of its photo, if that is pending. *)
LEMMA DecideNext ==
  ASSUME MediaTypeOK, NEW m \in Photos, NEW status \in {"AVAILABLE", "FAILED"},
         DecidePending(m, status)
  PROVE  /\ media' \in [Photos -> {"NONE"} \cup MediaStatus]
         /\ Attached' \subseteq Attached
         /\ \A n \in Photos : media[n] # "PENDING" => media'[n] = media[n]
         /\ UNCHANGED <<signed, stored>>
<1>1. \A n \in Photos :
        media'[n] = IF n = m /\ media[m] = "PENDING" THEN status ELSE media[n]
  BY DEF DecidePending, MediaTypeOK
<1>. QED
  BY <1>1 DEF DecidePending, MediaTypeOK, MediaStatus, Attached

(* Every step keeps the invariant. *)
LEMMA MediaStep == MediaInv /\ [MediaNext]_mediaVars => MediaInv'
<1> SUFFICES ASSUME MediaInv, [MediaNext]_mediaVars PROVE MediaInv'
  OBVIOUS
<1> USE AttachmentsAssumption DEF MediaInv
<1>1. ASSUME NEW h \in Handlers, NEW m \in Photos, AuthorizeUpload(h, m) PROVE MediaInv'
  <2>1. /\ Registers'
        /\ at'[h] = "create-media" /\ mem'[h] = m
        /\ \A g \in Handlers \ {h} : at'[g] = at[g] /\ mem'[g] = mem[g]
    BY <1>1, HandlerMoves DEF AuthorizeUpload
  <2>2. /\ media[m] = "NONE" /\ Cardinality(Attached) < MaxAttachments
        /\ \A g \in Handlers \ {h} : at[g] # "create-media"
        /\ UNCHANGED <<media, signed, stored>>
    BY <1>1 DEF AuthorizeUpload, ReportLocked, mediaState
  <2>3. Attached' = Attached
    BY <2>2 DEF Attached
  <2>. QED
    BY <2>1, <2>2, <2>3 DEF MediaTypeOK, MediaMemory, SlotReserved, AttachmentCap
<1>2. ASSUME NEW h \in Handlers, CreatePending(h) PROVE MediaInv'
  <2>1. /\ Registers'
        /\ at[h] = "create-media" /\ at'[h] = "sign" /\ mem'[h] = mem[h]
        /\ \A g \in Handlers \ {h} : at'[g] = at[g] /\ mem'[g] = mem[g]
    BY <1>2, HandlerMoves DEF CreatePending
  <2>2. /\ mem[h] \in Photos
        /\ media' = [media EXCEPT ![mem[h]] = "PENDING"]
        /\ UNCHANGED <<signed, stored>>
    BY <1>2, <2>1 DEF CreatePending, MediaMemory, Free
  <2>3. MediaTypeOK' /\ Attached' = Attached \cup {mem[h]}
    BY <2>2 DEF MediaTypeOK, MediaStatus, Attached
  <2>4. Cardinality(Attached) < MaxAttachments
    BY <2>1 DEF SlotReserved
  <2>5. AttachmentCap' /\ IsFiniteSet(Attached')
    <3>1. /\ IsFiniteSet(Attached \cup {mem[h]})
          /\ \/ Cardinality(Attached \cup {mem[h]}) = Cardinality(Attached)
             \/ Cardinality(Attached \cup {mem[h]}) = Cardinality(Attached) + 1
      BY FS_AddElement
    <3>2. Cardinality(Attached) \in Nat
      BY FS_CardinalityType
    <3>. QED
      BY <2>3, <2>4, <3>1, <3>2 DEF AttachmentCap
  <2>6. MediaMemory' /\ SlotReserved'
    BY <2>1, <2>2 DEF MediaMemory, SlotReserved, Free
  <2>. QED
    BY <2>1, <2>3, <2>5, <2>6
<1>3. ASSUME NEW h \in Handlers, SignFails(h) \/ MarkAvailable(h) \/ MarkFailed(h)
      PROVE  MediaInv'
  <2>1. /\ Registers'
        /\ at[h] # Free /\ at'[h] = Free
        /\ \A g \in Handlers \ {h} : at'[g] = at[g] /\ mem'[g] = mem[g]
    BY <1>3, HandlerMoves DEF SignFails, MarkAvailable, MarkFailed, Finish, Free
  <2>2. mem[h] \in Photos
    BY <2>1 DEF MediaMemory
  <2>3. /\ media' \in [Photos -> {"NONE"} \cup MediaStatus]
        /\ Attached' \subseteq Attached
        /\ \A n \in Photos : media[n] # "PENDING" => media'[n] = media[n]
        /\ UNCHANGED <<signed, stored>>
    BY <1>3, <2>2, DecideNext DEF SignFails, MarkAvailable, MarkFailed
  <2>4. /\ IsFiniteSet(Attached') /\ Cardinality(Attached') <= Cardinality(Attached)
        /\ Cardinality(Attached) \in Nat /\ Cardinality(Attached') \in Nat
    BY <2>3, AttachedShrinks
  <2>5. MediaMemory' /\ SlotReserved'
    BY <2>1, <2>3, <2>4 DEF MediaMemory, SlotReserved, Free
  <2>. QED
    BY <2>1, <2>3, <2>4, <2>5 DEF MediaTypeOK, AttachmentCap
<1>4. ASSUME NEW h \in Handlers,
             \/ SignUpload(h) \/ InspectObject(h) \/ InspectFails(h)
             \/ \E m \in Photos : CompleteUpload(h, m)
      PROVE  MediaInv'
  <2>1. /\ Registers'
        /\ at'[h] # "create-media" /\ (at'[h] # Free => mem'[h] \in Photos)
        /\ \A g \in Handlers \ {h} : at'[g] = at[g] /\ mem'[g] = mem[g]
    BY <1>4, HandlerMoves DEF SignUpload, InspectObject, InspectFails, CompleteUpload, Finish,
       Free, MediaMemory
  <2>2. /\ UNCHANGED <<media, stored>>
        /\ signed' \subseteq Photos
    BY <1>4 DEF SignUpload, InspectObject, InspectFails, CompleteUpload, mediaState, MediaTypeOK,
       MediaMemory, Free
  <2>3. Attached' = Attached
    BY <2>2 DEF Attached
  <2>. QED
    BY <2>1, <2>2, <2>3 DEF MediaTypeOK, MediaMemory, SlotReserved, AttachmentCap
<1>5. CASE \/ UNCHANGED mediaVars
           \/ \E m \in Photos, object \in StoredObject \ {"none"} : Upload(m, object)
  <2>1. /\ UNCHANGED <<media, signed, now, at, mem>>
        /\ stored' \in [Photos -> StoredObject]
    BY <1>5 DEF Upload, mediaVars, mediaState, environment, requests, MediaTypeOK
  <2>2. Attached' = Attached
    BY <2>1 DEF Attached
  <2>. QED
    BY <2>1, <2>2 DEF Registers, MediaTypeOK, MediaMemory, SlotReserved, AttachmentCap
<1>. QED
  BY <1>1, <1>2, <1>3, <1>4, <1>5 DEF MediaNext

(* Rows, links and objects keep their types. *)
THEOREM MediaTypeCorrect == MediaSpec => []MediaTypeOK
<1>1. MediaInv => MediaTypeOK
  BY DEF MediaInv
<1>. QED
  BY MediaStarts, MediaStep, <1>1, PTL DEF MediaSpec

(* For any number of uploads authorised at once and any limit, no more     *)
(* photos than the limit are awaited or available.                         *)
THEOREM AttachmentsAreCapped == MediaSpec => []AttachmentCap
<1>1. MediaInv => AttachmentCap
  BY DEF MediaInv
<1>. QED
  BY MediaStarts, MediaStep, <1>1, PTL DEF MediaSpec

(* No step changes the row of a photo that was decided. *)
LEMMA VerdictKept ==
  ASSUME MediaInv, [MediaNext]_mediaVars, NEW m \in Photos, media[m] \in {"AVAILABLE", "FAILED"}
  PROVE  media'[m] = media[m]
<1> USE DEF MediaInv
<1>1. ASSUME NEW h \in Handlers, CreatePending(h) PROVE media'[m] = media[m]
  BY <1>1 DEF CreatePending, SlotReserved, MediaTypeOK
<1>2. ASSUME NEW h \in Handlers, SignFails(h) \/ MarkAvailable(h) \/ MarkFailed(h)
      PROVE  media'[m] = media[m]
  <2>1. mem[h] \in Photos
    BY <1>2 DEF SignFails, MarkAvailable, MarkFailed, MediaMemory, Free
  <2>. QED
    BY <1>2, <2>1, DecideNext DEF SignFails, MarkAvailable, MarkFailed
<1>. QED
  BY <1>1, <1>2 DEF MediaNext, SignUpload, InspectObject, InspectFails, AuthorizeUpload,
     CompleteUpload, Upload, mediaVars, mediaState

VerdictStays == \A m \in Photos : media[m] \in {"AVAILABLE", "FAILED"} => media'[m] = media[m]
LEMMA VerdictsStay == MediaInv /\ [MediaNext]_mediaVars => [VerdictStays]_media
BY VerdictKept DEF VerdictStays

(* A photo's verdict stays, whatever completions are still under way.      *)
THEOREM VerdictIsFinal == MediaSpec => VerdictFinal
BY MediaStarts, MediaStep, VerdictsStay, PTL DEF MediaSpec, VerdictFinal, VerdictStays

-----------------------------------------------------------------------------
(***************************************************************************)
(* ReportAssociation.                                                      *)
(***************************************************************************)

ReportSteps == {Free, "begun", "unassociated", "associated"}
IncidentRow ==
  [point : Points, created : Nat, updated : Int, expires : Int, status : {"ACTIVE", "EXPIRED"}]
ReportRow == [by : Reporters, point : Points, created : Nat]
Submission == [by : Reporters, point : Points, start : Nat, found : Nat]

ReportTypes ==
  /\ now \in Nat
  /\ incidents \in Seq(IncidentRow)
  /\ floodReports \in Seq(ReportRow)
  /\ at \in [Handlers -> ReportSteps]
  /\ mem \in [Handlers -> {Nothing} \cup Submission]
  /\ \A h \in Handlers : at[h] # Free =>
       mem[h] \in Submission /\ mem[h].found \in {0} \cup DOMAIN incidents

\* No transaction outlives its time; updated_at precedes the creation by no
\* more than that, and an expiry that is set covers the active window.
ReportDates ==
  /\ \A h \in Handlers : at[h] # Free =>
       mem[h].start <= now /\ now <= mem[h].start + TransactionTime
  /\ \A i \in DOMAIN incidents :
       /\ incidents[i].created <= now /\ incidents[i].updated <= now
       /\ incidents[i].updated >= incidents[i].created - TransactionTime
       /\ \/ incidents[i].expires = NULL
          \/ incidents[i].expires >= incidents[i].created + ActiveWindow

\* One transaction per reporter, and one association per cell.
ReportLocks ==
  \A g, h \in InTransaction :
    /\ mem[g].by = mem[h].by => g = h
    /\ at[g] = "associated" /\ at[h] = "associated" /\ Cell[mem[g].point] = Cell[mem[h].point]
         => g = h

\* What a transaction has looked for stays absent until it ends.
NotRepeated(h) ==
  \A r \in DOMAIN floodReports :
    /\ floodReports[r].by = mem[h].by
    /\ Within(floodReports[r].point, mem[h].point, DuplicateRadius)
    => floodReports[r].created < mem[h].start - DuplicateWindow

NoneNearby(h) ==
  \A i \in DOMAIN incidents :
    /\ incidents[i].status = "ACTIVE"
    /\ Cell[incidents[i].point] = Cell[mem[h].point]
    /\ Within(incidents[i].point, mem[h].point, AssociationRadius)
    => incidents[i].created < mem[h].start - (Lookback - TransactionTime)

StaysAbsent ==
  \A h \in InTransaction :
    /\ NotRepeated(h)
    /\ at[h] = "associated" /\ mem[h].found = 0 => NoneNearby(h)

AssociationInv ==
  ReportTypes /\ ReportDates /\ ReportLocks /\ StaysAbsent /\ ReportsAssociatedOnce

-----------------------------------------------------------------------------
(* Distances and times are symmetric. *)
LEMMA WithinSymmetric ==
  ASSUME NEW p \in Points, NEW q \in Points, NEW r \in Nat
  PROVE  Within(p, q, r) <=> Within(q, p, r)
BY RadiiAssumption DEF Within

(* The columns of an incident and of a report. *)
LEMMA ReportRowTypes ==
  ASSUME ReportTypes
  PROVE  /\ \A i \in DOMAIN incidents :
              /\ incidents[i] \in IncidentRow
              /\ incidents[i].point \in Int /\ incidents[i].point \in Points
              /\ incidents[i].created \in Nat /\ incidents[i].updated \in Int
              /\ incidents[i].expires \in Int
         /\ \A r \in DOMAIN floodReports :
              /\ floodReports[r] \in ReportRow
              /\ floodReports[r].point \in Points /\ floodReports[r].created \in Nat
         /\ \A h \in Handlers : at[h] # Free =>
              /\ mem[h].point \in Int /\ mem[h].point \in Points
              /\ mem[h].start \in Nat /\ mem[h].found \in Nat
<1>1. \A i \in DOMAIN incidents : incidents[i] \in IncidentRow
  BY DEF ReportTypes
<1>2. \A r \in DOMAIN floodReports : floodReports[r] \in ReportRow
  BY DEF ReportTypes
<1>3. \A h \in Handlers : at[h] # Free => mem[h] \in Submission
  BY DEF ReportTypes
<1>. QED
  BY RadiiAssumption, <1>1, <1>2, <1>3 DEF IncidentRow, ReportRow, Submission

(* A set of numbers that is not empty has a least one. *)
LEMMA LeastExists ==
  ASSUME NEW S \in SUBSET Nat, S # {}
  PROVE  \E u \in S : \A v \in S : u <= v
<1>1. PICK u \in S : \A v \in S : ~ (<<v, u>> \in OpToRel(<, Nat))
  BY NatLessThanWellFounded, WFMin
<1>2. \A v \in S : <<v, u>> \in Nat \X Nat /\ <<v, u>>[1] = v /\ <<v, u>>[2] = u
  OBVIOUS
<1>3. \A v \in S : ~ (v < u)
  BY <1>1, <1>2, Zenon DEF OpToRel
<1>. QED
  BY <1>3

(* A square is not negative. *)
LEMMA SquareNat == \A x \in Int : x * x \in Nat
<1>1. \A x \in Nat : x * x \in Nat
  OBVIOUS
<1>2. \A x \in Int : x \notin Nat => -x \in Nat /\ (-x) * (-x) = x * x
  OBVIOUS
<1>. QED
  BY <1>1, <1>2

(* When any incident is compatible with a report, one is nearest.          *)
LEMMA NearestExists ==
  ASSUME ReportTypes, ReportDates, NEW h \in InTransaction, CompatibleIncidents(h) # {}
  PROVE  Nearest(h) # {}
<1> USE RadiiAssumption, LookbackAssumption, RequestsAssumption
<1> DEFINE C == CompatibleIncidents(h)
<1>1. C \subseteq DOMAIN incidents
  BY DEF CompatibleIncidents
<1>2. \A i \in C : Distance2(h, i) \in Nat
  <2>1. \A i \in C : incidents[i].point - mem[h].point \in Int
    BY <1>1, ReportRowTypes DEF InTransaction, Free
  <2>. QED
    BY <2>1, SquareNat DEF Distance2
<1>3. PICK i \in C : \A j \in C : Distance2(h, i) <= Distance2(h, j)
  <2> DEFINE S == {Distance2(h, i) : i \in C}
  <2>1. PICK u \in S : \A v \in S : u <= v
    BY <1>2, LeastExists
  <2>. QED
    BY <2>1
<1>4. \A j \in C : now - incidents[j].updated \in Nat
  BY <1>1, ReportRowTypes, SMTT(30) DEF ReportTypes, ReportDates
<1>5. PICK k \in C :
        /\ Distance2(h, k) = Distance2(h, i)
        /\ \A j \in C : Distance2(h, j) = Distance2(h, i) =>
             now - incidents[k].updated <= now - incidents[j].updated
  <2> DEFINE D == {j \in C : Distance2(h, j) = Distance2(h, i)}
             S == {now - incidents[j].updated : j \in D}
  <2>1. S \in SUBSET Nat /\ S # {}
    BY <1>4
  <2>2. PICK u \in S : \A v \in S : u <= v
    BY <2>1, LeastExists
  <2>. QED
    BY <2>2
<1>6. now \in Nat /\ \A j \in C : incidents[j].updated \in Int
  BY <1>1, ReportRowTypes DEF ReportTypes
<1>7. \A j \in C :
        \/ Distance2(h, k) < Distance2(h, j)
        \/ Distance2(h, k) = Distance2(h, j) /\ incidents[k].updated >= incidents[j].updated
  <2> HIDE DEF C
  <2>1. \A j \in C : Distance2(h, k) <= Distance2(h, j)
    BY <1>3, <1>5
  <2>2. \A j \in C : Distance2(h, j) = Distance2(h, k) => incidents[k].updated >= incidents[j].updated
    BY <1>5, <1>6
  <2>. QED
    BY <1>2, <2>1, <2>2
<1>. QED
  BY <1>7 DEF Nearest

-----------------------------------------------------------------------------
(* There are no transactions, and no incidents but one. *)
LEMMA AssociationStarts == EnvironmentInit /\ AssociationInit => AssociationInv
<1> USE RadiiAssumption, LookbackAssumption, RequestsAssumption
<1> SUFFICES ASSUME EnvironmentInit, AssociationInit PROVE AssociationInv
  OBVIOUS
<1>1. InTransaction = {} /\ now = 0 /\ \A h \in Handlers : at[h] = Free
  BY DEF EnvironmentInit, InTransaction, Free
<1>2. /\ incidents \in Seq(IncidentRow)
      /\ floodReports \in Seq(ReportRow)
      /\ \A i, j \in DOMAIN incidents : i = j
      /\ \A i, j \in DOMAIN floodReports : i = j
      /\ \A i \in DOMAIN incidents : incidents[i].created = 0 /\ incidents[i].updated = 0
           /\ incidents[i].expires = NULL
  <2>1. CASE incidents = <<>> /\ floodReports = <<>>
    BY <2>1
  <2>2. ASSUME NEW u \in Reporters, NEW p \in Points, incidents = <<Incident(p, 0)>>,
               floodReports = <<[by |-> u, point |-> p, created |-> 0]>>
        PROVE  <1>2
    <3>1. Incident(p, 0) \in IncidentRow /\ [by |-> u, point |-> p, created |-> 0] \in ReportRow
      BY DEF Incident, IncidentRow, ReportRow, NULL
    <3>. QED
      BY <2>2, <3>1 DEF Incident
  <2>. QED
    BY <2>1, <2>2 DEF AssociationInit
<1>3. ReportTypes
  BY <1>1, <1>2 DEF EnvironmentInit, ReportTypes, ReportSteps, Nothing
<1>. QED
  BY <1>1, <1>2, <1>3 DEF AssociationInv, ReportDates, ReportLocks, StaysAbsent, ReportsAssociatedOnce,
     OneIncidentPerPlace, NoRepeatedReport

(* A transaction that begins, proceeds or ends leaves the others alone. *)
LEMMA ReportHandlerNext ==
  ASSUME ReportTypes, NEW h \in Handlers, NEW step \in ReportSteps, NEW memory,
         Proceed(h, step, memory) \/ Begin(h, step, memory)
  PROVE  /\ at' = [at EXCEPT ![h] = step] /\ at' \in [Handlers -> ReportSteps]
         /\ mem' = [mem EXCEPT ![h] = memory]
         /\ at'[h] = step /\ mem'[h] = memory
         /\ \A g \in Handlers \ {h} : at'[g] = at[g] /\ mem'[g] = mem[g]
BY DEF Proceed, Begin, ReportTypes

(* What a transaction holds is typed as long as the rows it may name exist. *)
LEMMA ReportTypesNext ==
  ASSUME ReportTypes, NEW h \in Handlers, NEW step \in ReportSteps, NEW memory \in {Nothing} \cup Submission,
         Proceed(h, step, memory) \/ Begin(h, step, memory),
         step # Free => memory \in Submission /\ memory.found \in {0} \cup DOMAIN incidents',
         now' = now, incidents' \in Seq(IncidentRow), DOMAIN incidents \subseteq DOMAIN incidents',
         floodReports' \in Seq(ReportRow)
  PROVE  ReportTypes'
<1> USE RadiiAssumption, LookbackAssumption, RequestsAssumption
<1>1. /\ at' \in [Handlers -> ReportSteps]
      /\ mem' = [mem EXCEPT ![h] = memory]
      /\ at'[h] = step /\ mem'[h] = memory
      /\ \A g \in Handlers \ {h} : at'[g] = at[g] /\ mem'[g] = mem[g]
  BY ReportHandlerNext
<1>2. mem' \in [Handlers -> {Nothing} \cup Submission]
  BY <1>1 DEF ReportTypes
<1>. QED
  BY <1>1, <1>2 DEF ReportTypes

(* Incidents that are only touched, extended or ended stay where and when  *)
(* they were created, while they are active.                               *)
LEMMA RowsKept ==
  ASSUME OneIncidentPerPlace, DOMAIN incidents' = DOMAIN incidents,
         \A i \in DOMAIN incidents :
           /\ incidents'[i].point = incidents[i].point
           /\ incidents'[i].status = "ACTIVE" =>
                incidents[i].status = "ACTIVE" /\ incidents'[i].created = incidents[i].created
  PROVE  /\ OneIncidentPerPlace'
         /\ \A h \in Handlers : NoneNearby(h) /\ mem'[h] = mem[h] => NoneNearby(h)'
BY DEF OneIncidentPerPlace, NoneNearby

(* Every step keeps the invariant. *)
LEMMA AssociationStep ==
  AssociationInv /\ [AssociationNext]_<<reportState, environment>> => AssociationInv'
<1> USE RadiiAssumption, LookbackAssumption, RequestsAssumption
<1> SUFFICES ASSUME AssociationInv, [AssociationNext]_<<reportState, environment>>
             PROVE  AssociationInv'
  OBVIOUS
<1> USE DEF AssociationInv
<1>1. ASSUME NEW h \in Handlers, NEW u \in Reporters, NEW p \in Points, Submit(h, u, p)
      PROVE  AssociationInv'
  <2> DEFINE submission == [by |-> u, point |-> p, start |-> now, found |-> 0]
  <2>1. Begin(h, "begun", submission) /\ at[h] = Free
        /\ UNCHANGED <<incidents, floodReports, now>>
    BY <1>1 DEF Submit, Begin, reportState
  <2>2. submission \in Submission
    BY DEF Submission, ReportTypes
  <2>3. ReportTypes'
    BY <2>1, <2>2, ReportTypesNext DEF ReportSteps, ReportTypes
  <2>4. /\ at'[h] = "begun" /\ mem'[h] = submission
        /\ \A g \in Handlers \ {h} : at'[g] = at[g] /\ mem'[g] = mem[g]
    BY <2>1, ReportHandlerNext DEF ReportSteps
  <2>5. InTransaction' = InTransaction /\ h \notin InTransaction
    BY <2>1, <2>4 DEF InTransaction, Free
  <2>6. ReportDates'
    BY <2>1, <2>4 DEF ReportDates, ReportTypes
  <2>7. ReportLocks' /\ StaysAbsent'
    BY <2>1, <2>4, <2>5 DEF ReportLocks, StaysAbsent, NotRepeated, NoneNearby, InTransaction
  <2>. QED
    BY <2>1, <2>3, <2>6, <2>7 DEF ReportsAssociatedOnce, OneIncidentPerPlace, NoRepeatedReport
<1>2. ASSUME NEW h \in Handlers, at[h] # Free, Finish(h), UNCHANGED <<incidents, floodReports>>
      PROVE  AssociationInv'
  <2>1. Proceed(h, Free, Nothing) /\ now' = now
    BY <1>2 DEF Finish, Proceed
  <2>2. ReportTypes'
    BY <1>2, <2>1, ReportTypesNext DEF ReportSteps, ReportTypes
  <2>3. /\ at'[h] = Free
        /\ \A g \in Handlers \ {h} : at'[g] = at[g] /\ mem'[g] = mem[g]
    BY <2>1, ReportHandlerNext DEF ReportSteps
  <2>4. InTransaction' = InTransaction \ {h}
    BY <2>3 DEF InTransaction, Free
  <2>5. ReportDates'
    BY <1>2, <2>1, <2>3 DEF ReportDates
  <2>6. ReportLocks' /\ StaysAbsent'
    BY <1>2, <2>3, <2>4 DEF ReportLocks, StaysAbsent, NotRepeated, NoneNearby, InTransaction
  <2>. QED
    BY <1>2, <2>2, <2>5, <2>6 DEF ReportsAssociatedOnce, OneIncidentPerPlace, NoRepeatedReport
<1>3. ASSUME NEW h \in Handlers, FindRecentDuplicate(h) PROVE AssociationInv'
  <2>1. CASE RecentDuplicates(h) # {}
    BY <1>2, <1>3, <2>1 DEF FindRecentDuplicate, reportState, Free
  <2>2. CASE RecentDuplicates(h) = {}
    <3>1. /\ at[h] = "begun" /\ Proceed(h, "unassociated", mem[h]) /\ now' = now
          /\ UNCHANGED <<incidents, floodReports>>
      BY <1>3, <2>2 DEF FindRecentDuplicate, reportState, Proceed
    <3>2. ReportTypes'
      BY <3>1, ReportTypesNext DEF ReportSteps, ReportTypes, Free
    <3>3. /\ at'[h] = "unassociated" /\ mem'[h] = mem[h]
          /\ \A g \in Handlers \ {h} : at'[g] = at[g] /\ mem'[g] = mem[g]
      BY <3>1, ReportHandlerNext DEF ReportSteps
    <3>4. InTransaction' = InTransaction \cup {h} /\ h \notin InTransaction
      BY <3>1, <3>3 DEF InTransaction
    <3>5. ReportDates'
      BY <3>1, <3>3 DEF ReportDates, Free
    <3>6. \A g \in InTransaction : mem[g].by # mem[h].by
      BY <1>3, <3>4 DEF FindRecentDuplicate, SubmissionLocked
    <3>7. ReportLocks'
      BY <3>3, <3>4, <3>6 DEF ReportLocks, InTransaction
    <3>8. NotRepeated(h)
      BY <2>2, <3>1, ReportRowTypes DEF RecentDuplicates, NotRepeated, Free
    <3>9. StaysAbsent'
      BY <3>1, <3>3, <3>4, <3>8 DEF StaysAbsent, NotRepeated, NoneNearby, InTransaction
    <3>. QED
      BY <3>1, <3>2, <3>5, <3>7, <3>9
         DEF ReportsAssociatedOnce, OneIncidentPerPlace, NoRepeatedReport
  <2>. QED
    BY <2>1, <2>2
<1>4. ASSUME NEW h \in Handlers, FindCompatibleIncident(h) PROVE AssociationInv'
  <2>1. PICK i \in IF Nearest(h) = {} THEN {0} ELSE Nearest(h) :
          Proceed(h, "associated", [mem[h] EXCEPT !.found = i])
    BY <1>4 DEF FindCompatibleIncident
  <2>2. /\ at[h] = "unassociated" /\ h \in InTransaction /\ now' = now
        /\ UNCHANGED <<incidents, floodReports>>
    BY <1>4, <2>1 DEF FindCompatibleIncident, reportState, InTransaction, Proceed
  <2>3. i \in {0} \cup DOMAIN incidents /\ (i = 0 => CompatibleIncidents(h) = {})
    <3>1. Nearest(h) \subseteq DOMAIN incidents
      BY DEF Nearest, CompatibleIncidents
    <3>2. 0 \notin DOMAIN incidents
      BY DEF ReportTypes
    <3>3. i = 0 => Nearest(h) = {}
      BY <3>1, <3>2
    <3>. QED
      BY <2>2, <3>1, <3>3, NearestExists
  <2>4. [mem[h] EXCEPT !.found = i] \in Submission /\ [mem[h] EXCEPT !.found = i].found = i
    <3>1. mem[h] \in Submission /\ i \in Nat
      BY <2>2, <2>3 DEF ReportTypes, Free
    <3>. QED
      BY <3>1 DEF Submission
  <2>5. ReportTypes'
    BY <2>1, <2>2, <2>3, <2>4, ReportTypesNext DEF ReportSteps, ReportTypes
  <2>6. /\ at'[h] = "associated" /\ mem'[h] = [mem[h] EXCEPT !.found = i]
        /\ \A g \in Handlers \ {h} : at'[g] = at[g] /\ mem'[g] = mem[g]
    BY <2>1, ReportHandlerNext DEF ReportSteps
  <2>7. /\ mem'[h].by = mem[h].by /\ mem'[h].point = mem[h].point
        /\ mem'[h].start = mem[h].start /\ mem'[h].found = i
    BY <2>2, <2>4, <2>6 DEF ReportTypes, Submission, Free
  <2>8. InTransaction' = InTransaction
    BY <2>2, <2>6 DEF InTransaction
  <2>9. ReportDates'
    BY <2>2, <2>6, <2>7 DEF ReportDates, Free
  <2>10. \A g \in InTransaction \ {h} :
           at[g] = "associated" => Cell[mem[g].point] # Cell[mem[h].point]
    BY <1>4 DEF FindCompatibleIncident, AssociationLocked
  <2>11. ReportLocks'
    <3>1. \A g \in InTransaction : mem'[g].by = mem[g].by /\ mem'[g].point = mem[g].point
      BY <2>6, <2>7 DEF InTransaction
    <3>2. \A g \in InTransaction \ {h} : at'[g] = at[g]
      BY <2>6 DEF InTransaction
    <3>. QED
      BY <2>8, <2>10, <3>1, <3>2 DEF ReportLocks
  <2>12. i = 0 => NoneNearby(h)
    <3> SUFFICES ASSUME i = 0, NEW j \in DOMAIN incidents, incidents[j].status = "ACTIVE",
                        Within(incidents[j].point, mem[h].point, AssociationRadius)
                 PROVE  incidents[j].created < mem[h].start - (Lookback - TransactionTime)
      BY DEF NoneNearby
    <3>1. j \notin CompatibleIncidents(h)
      BY <2>3
    <3>2. \/ incidents[j].expires # NULL /\ ~(incidents[j].expires > mem[h].start)
          \/ ~(incidents[j].updated >= mem[h].start - Lookback)
      BY <3>1 DEF CompatibleIncidents
    <3>3. /\ incidents[j].created \in Nat /\ incidents[j].updated \in Int
          /\ incidents[j].expires \in Int /\ mem[h].start \in Nat
      BY <2>2, ReportRowTypes DEF Free
    <3>. QED
      BY <3>2, <3>3 DEF ReportDates
  <2>13. StaysAbsent'
    <3>1. \A g \in InTransaction : NotRepeated(g)'
      <4>1. \A g \in InTransaction :
              /\ mem'[g].by = mem[g].by /\ mem'[g].point = mem[g].point
              /\ mem'[g].start = mem[g].start
        BY <2>6, <2>7 DEF InTransaction
      <4>. QED
        BY <2>2, <4>1 DEF StaysAbsent, NotRepeated
    <3>2. \A g \in InTransaction \ {h} : at'[g] = at[g] /\ mem'[g] = mem[g]
      BY <2>6 DEF InTransaction
    <3>3. i = 0 => NoneNearby(h)'
      BY <2>2, <2>7, <2>12 DEF NoneNearby
    <3>4. \A g \in InTransaction \ {h} : NoneNearby(g) => NoneNearby(g)'
      BY <2>2, <3>2 DEF NoneNearby
    <3>. QED
      BY <2>7, <2>8, <3>1, <3>2, <3>3, <3>4 DEF StaysAbsent
  <2>. QED
    BY <2>2, <2>5, <2>9, <2>11, <2>13
       DEF ReportsAssociatedOnce, OneIncidentPerPlace, NoRepeatedReport
<1>5. ASSUME NEW h \in Handlers, CreateReport(h) PROVE AssociationInv'
  <2> DEFINE report == [by |-> mem[h].by, point |-> mem[h].point, created |-> mem[h].start]
             found == mem[h].found
             n == Len(incidents) + 1
             k == Len(floodReports) + 1
  <2>1. /\ at[h] = "associated" /\ h \in InTransaction
        /\ Proceed(h, Free, Nothing) /\ now' = now
        /\ floodReports' = Append(floodReports, report)
        /\ incidents' = IF found = 0 THEN Created(h) ELSE Touched(h)
    BY <1>5 DEF CreateReport, InTransaction, Finish, Proceed
  <2>2. /\ mem[h] \in Submission /\ found \in {0} \cup DOMAIN incidents
        /\ mem[h].start \in Nat /\ mem[h].point \in Points
        /\ mem[h].start <= now /\ now <= mem[h].start + TransactionTime /\ now \in Nat
    BY <2>1 DEF ReportTypes, ReportDates, Submission, Free
  <2>3. /\ floodReports' \in Seq(ReportRow)
        /\ k \notin DOMAIN floodReports /\ DOMAIN floodReports' = DOMAIN floodReports \cup {k}
        /\ floodReports'[k] = report
        /\ \A r \in DOMAIN floodReports : floodReports'[r] = floodReports[r]
    <3>1. report \in ReportRow
      BY <2>2 DEF Submission, ReportRow
    <3>. QED
      BY <2>1, <3>1, SMTT(30) DEF ReportTypes
  <2>4. /\ at'[h] = Free
        /\ \A g \in Handlers \ {h} : at'[g] = at[g] /\ mem'[g] = mem[g]
    BY <2>1, ReportHandlerNext DEF ReportSteps
  <2>5. /\ InTransaction' = InTransaction \ {h}
        /\ \A g \in InTransaction' : g # h /\ g \in InTransaction /\ at'[g] = at[g] /\ mem'[g] = mem[g]
    BY <2>4 DEF InTransaction, Free
  <2>6. ReportLocks'
    BY <2>5 DEF ReportLocks
  <2>7. NoRepeatedReport'
    <3>1. ASSUME NEW r \in DOMAIN floodReports, floodReports[r].by = report.by,
                 Within(floodReports[r].point, report.point, DuplicateRadius)
          PROVE  Apart(floodReports[r].created, report.created, DuplicateWindow)
                 /\ Apart(report.created, floodReports[r].created, DuplicateWindow)
      <4>1. floodReports[r].created < mem[h].start - DuplicateWindow
        BY <2>1, <3>1 DEF StaysAbsent, NotRepeated
      <4>. QED
        BY <2>2, <4>1, ReportRowTypes DEF Apart
    <3>2. \A r \in DOMAIN floodReports :
            Within(report.point, floodReports[r].point, DuplicateRadius)
              <=> Within(floodReports[r].point, report.point, DuplicateRadius)
      BY <2>2, ReportRowTypes, WithinSymmetric
    <3> HIDE DEF report, k
    <3>3. ASSUME NEW r \in DOMAIN floodReports', NEW q \in DOMAIN floodReports', r # q,
                 floodReports'[r].by = floodReports'[q].by,
                 Within(floodReports'[r].point, floodReports'[q].point, DuplicateRadius)
          PROVE  Apart(floodReports'[r].created, floodReports'[q].created, DuplicateWindow)
      <4>1. CASE r = k
        BY <2>3, <3>1, <3>2, <3>3, <4>1
      <4>2. CASE q = k
        BY <2>3, <3>1, <3>3, <4>2
      <4>3. CASE r # k /\ q # k
        BY <2>3, <3>3, <4>3 DEF ReportsAssociatedOnce, NoRepeatedReport
      <4>. QED
        BY <4>1, <4>2, <4>3
    <3>. QED
      BY <3>3 DEF NoRepeatedReport
  <2>8. ASSUME NEW g \in InTransaction' PROVE NotRepeated(g)'
    <3>1. mem[g].by # report.by
      BY <2>1, <2>5 DEF ReportLocks
    <3>2. NotRepeated(g) /\ mem'[g] = mem[g]
      BY <2>5 DEF StaysAbsent
    <3> HIDE DEF report, k
    <3>. QED
      BY <2>3, <3>1, <3>2 DEF NotRepeated
  <2>9. /\ ReportTypes' /\ ReportDates' /\ OneIncidentPerPlace'
        /\ \A g \in InTransaction' : at[g] = "associated" /\ NoneNearby(g) => NoneNearby(g)'
    <3>1. CASE found = 0
      <4> DEFINE row == Incident(mem[h].point, mem[h].start)
      <4>1. incidents' = Append(incidents, row)
        BY <2>1, <3>1 DEF Created
      <4>2. /\ row \in IncidentRow
            /\ row.point = mem[h].point /\ row.created = mem[h].start
            /\ row.updated = mem[h].start /\ row.expires = NULL
        BY <2>2 DEF Incident, IncidentRow, NULL
      <4> HIDE DEF row
      <4>3. /\ incidents' \in Seq(IncidentRow)
            /\ n \notin DOMAIN incidents /\ DOMAIN incidents' = DOMAIN incidents \cup {n}
            /\ incidents'[n] = row
            /\ \A i \in DOMAIN incidents : incidents'[i] = incidents[i]
        BY <4>1, <4>2 DEF ReportTypes
      <4> HIDE DEF n, k, report
      <4>4. ReportTypes'
        BY <2>1, <2>3, <4>3, ReportTypesNext DEF ReportSteps
      <4>5. ReportDates'
        <5>1. /\ row.created <= now /\ row.updated <= now
              /\ row.updated >= row.created - TransactionTime
          BY <2>2, <4>2
        <5>2. \A i \in DOMAIN incidents' :
                /\ incidents'[i].created <= now /\ incidents'[i].updated <= now
                /\ incidents'[i].updated >= incidents'[i].created - TransactionTime
                /\ \/ incidents'[i].expires = NULL
                   \/ incidents'[i].expires >= incidents'[i].created + ActiveWindow
          BY <4>2, <4>3, <5>1 DEF ReportDates
        <5>3. \A g \in Handlers : at'[g] # Free =>
                mem'[g].start <= now /\ now <= mem'[g].start + TransactionTime
          BY <2>4 DEF ReportDates
        <5>. QED
          BY <2>1, <5>2, <5>3 DEF ReportDates
      <4>6. ASSUME NEW i \in DOMAIN incidents, incidents[i].status = "ACTIVE",
                   Cell[incidents[i].point] = Cell[row.point],
                   Within(incidents[i].point, row.point, AssociationRadius)
            PROVE  /\ Apart(incidents[i].created, row.created, Lookback - TransactionTime)
                   /\ Apart(row.created, incidents[i].created, Lookback - TransactionTime)
        <5>1. incidents[i].created < mem[h].start - (Lookback - TransactionTime)
          BY <2>1, <3>1, <4>2, <4>6 DEF StaysAbsent, NoneNearby
        <5>. QED
          BY <2>2, <4>2, <5>1, ReportRowTypes DEF Apart
      <4>7. \A i \in DOMAIN incidents :
              Within(row.point, incidents[i].point, AssociationRadius)
                <=> Within(incidents[i].point, row.point, AssociationRadius)
        BY <2>2, <4>2, ReportRowTypes, WithinSymmetric
      <4>8. ASSUME NEW i \in DOMAIN incidents', NEW j \in DOMAIN incidents', i # j,
                   incidents'[i].status = "ACTIVE", incidents'[j].status = "ACTIVE",
                   Cell[incidents'[i].point] = Cell[incidents'[j].point],
                   Within(incidents'[i].point, incidents'[j].point, AssociationRadius)
            PROVE  Apart(incidents'[i].created, incidents'[j].created, Lookback - TransactionTime)
        <5>1. CASE i = n
          BY <4>3, <4>6, <4>7, <4>8, <5>1
        <5>2. CASE j = n
          BY <4>3, <4>6, <4>8, <5>2
        <5>3. CASE i # n /\ j # n
          BY <4>3, <4>8, <5>3 DEF ReportsAssociatedOnce, OneIncidentPerPlace
        <5>. QED
          BY <5>1, <5>2, <5>3
      <4>9. OneIncidentPerPlace'
        BY <4>8 DEF OneIncidentPerPlace
      <4>10. ASSUME NEW g \in InTransaction', at[g] = "associated", NoneNearby(g)
             PROVE  NoneNearby(g)'
        <5>1. mem'[g] = mem[g] /\ Cell[mem[g].point] # Cell[row.point]
          BY <2>1, <2>5, <4>2, <4>10 DEF ReportLocks
        <5>. QED
          BY <4>3, <4>10, <5>1 DEF NoneNearby
      <4>. QED
        BY <4>4, <4>5, <4>9, <4>10
    <3>2. CASE found # 0
      <4>1. /\ incidents' = [incidents EXCEPT ![found].updated = mem[h].start]
            /\ found \in DOMAIN incidents
        BY <2>1, <2>2, <3>2 DEF Touched
      <4>2. /\ incidents' \in Seq(IncidentRow) /\ DOMAIN incidents' = DOMAIN incidents
            /\ \A i \in DOMAIN incidents :
                 /\ incidents'[i].point = incidents[i].point
                 /\ incidents'[i].status = incidents[i].status
                 /\ incidents'[i].created = incidents[i].created
                 /\ incidents'[i].expires = incidents[i].expires
                 /\ incidents'[i].updated \in {incidents[i].updated, mem[h].start}
        <5>1. [incidents[found] EXCEPT !.updated = mem[h].start] \in IncidentRow
          BY <2>2, <4>1, ReportRowTypes DEF IncidentRow
        <5>2. incidents[found] \in IncidentRow
          BY <4>1, ReportRowTypes
        <5>3. /\ incidents' \in Seq(IncidentRow) /\ DOMAIN incidents' = DOMAIN incidents
              /\ \A i \in DOMAIN incidents : incidents'[i] =
                   IF i = found THEN [incidents[found] EXCEPT !.updated = mem[h].start] ELSE incidents[i]
          BY <4>1, <5>1 DEF ReportTypes
        <5>. QED
          <6>1. /\ incidents'[found].point = incidents[found].point
                /\ incidents'[found].status = incidents[found].status
                /\ incidents'[found].created = incidents[found].created
                /\ incidents'[found].expires = incidents[found].expires
                /\ incidents'[found].updated = mem[h].start
            BY <4>1, <5>2, <5>3 DEF IncidentRow
          <6>2. \A i \in DOMAIN incidents \ {found} : incidents'[i] = incidents[i]
            BY <5>3
          <6>. QED
            BY <5>3, <6>1, <6>2
      <4>3. ReportTypes'
        BY <2>1, <2>3, <4>2, ReportTypesNext DEF ReportSteps
      <4>4. ReportDates'
        <5>1. \A i \in DOMAIN incidents : mem[h].start >= incidents[i].created - TransactionTime
          BY <2>2, ReportRowTypes DEF ReportDates
        <5>2. \A i \in DOMAIN incidents :
                /\ incidents'[i].created <= now /\ incidents'[i].updated <= now
                /\ incidents'[i].updated >= incidents'[i].created - TransactionTime
                /\ \/ incidents'[i].expires = NULL
                   \/ incidents'[i].expires >= incidents'[i].created + ActiveWindow
          <6>1. ASSUME NEW i \in DOMAIN incidents
                PROVE  /\ incidents'[i].updated <= now
                       /\ incidents'[i].updated >= incidents[i].created - TransactionTime
            BY <2>2, <4>2, <5>1 DEF ReportDates
          <6>. QED
            BY <4>2, <6>1 DEF ReportDates
        <5>3. \A g \in Handlers : at'[g] # Free =>
                mem'[g].start <= now /\ now <= mem'[g].start + TransactionTime
          BY <2>4 DEF ReportDates
        <5>. QED
          BY <2>1, <4>2, <5>2, <5>3 DEF ReportDates
      <4>. QED
        BY <2>5, <4>2, <4>3, <4>4, RowsKept DEF ReportsAssociatedOnce, InTransaction
    <3>. QED
      BY <3>1, <3>2
  <2>10. StaysAbsent'
    BY <2>5, <2>8, <2>9 DEF StaysAbsent
  <2>. QED
    BY <2>6, <2>7, <2>9, <2>10 DEF ReportsAssociatedOnce
<1>6. ASSUME NEW h \in Handlers, SubmitFails(h) PROVE AssociationInv'
  BY <1>2, <1>6 DEF SubmitFails, reportState, Free
<1>7. ASSUME NEW i \in DOMAIN incidents, ExtendIncident(i) \/ EndIncident(i)
      PROVE  AssociationInv'
  <2>1. UNCHANGED <<floodReports, now, at, mem>>
    BY <1>7 DEF ExtendIncident, EndIncident, environment, requests
  <2>2. incidents[i] \in IncidentRow /\ now \in Nat
    BY ReportRowTypes DEF ReportTypes
  <2>3. PICK row \in IncidentRow :
          /\ incidents' = [incidents EXCEPT ![i] = row]
          /\ row.point = incidents[i].point
          /\ row.created <= now /\ row.updated <= now
          /\ row.updated >= row.created - TransactionTime
          /\ row.expires = NULL \/ row.expires >= row.created + ActiveWindow
          /\ row.status = "ACTIVE" =>
               incidents[i].status = "ACTIVE" /\ row.created = incidents[i].created
    <3>1. CASE ExtendIncident(i)
      <4> DEFINE row == [incidents[i] EXCEPT !.expires = now + ActiveWindow, !.updated = now]
      <4>1. /\ row \in IncidentRow /\ row.point = incidents[i].point
            /\ row.created = incidents[i].created /\ row.status = incidents[i].status
            /\ row.updated = now /\ row.expires = now + ActiveWindow
        <5>1. now + ActiveWindow \in Int /\ now \in Int
          BY <2>2
        <5>. QED
          BY <2>2, <5>1 DEF IncidentRow
      <4>2. incidents' = [incidents EXCEPT ![i] = row]
        BY <3>1 DEF ExtendIncident
      <4>3. incidents[i].created <= now /\ incidents[i].created \in Nat
        BY ReportRowTypes DEF ReportDates
      <4>4. /\ row.created <= now /\ row.updated <= now
            /\ row.updated >= row.created - TransactionTime
            /\ row.expires >= row.created + ActiveWindow
        BY <2>2, <4>1, <4>3
      <4> HIDE DEF row
      <4>. QED
        BY <4>1, <4>2, <4>4
    <3>2. CASE EndIncident(i)
      <4> DEFINE row == [Incident(incidents[i].point, 0) EXCEPT !.status = "EXPIRED"]
      <4>1. /\ row \in IncidentRow /\ row.point = incidents[i].point
            /\ row.created = 0 /\ row.status = "EXPIRED"
            /\ row.updated = 0 /\ row.expires = NULL
        BY <2>2 DEF IncidentRow, Incident, NULL
      <4>2. incidents' = [incidents EXCEPT ![i] = row]
        BY <3>2 DEF EndIncident
      <4>3. /\ row.created <= now /\ row.updated <= now
            /\ row.updated >= row.created - TransactionTime
        BY <2>2, <4>1
      <4> HIDE DEF row
      <4>. QED
        BY <4>1, <4>2, <4>3
    <3>. QED
      BY <1>7, <3>1, <3>2
  <2>4. /\ incidents' \in Seq(IncidentRow) /\ DOMAIN incidents' = DOMAIN incidents
        /\ \A j \in DOMAIN incidents : incidents'[j] = IF j = i THEN row ELSE incidents[j]
    BY <2>3 DEF ReportTypes
  <2>5. ReportTypes'
    BY <2>1, <2>4 DEF ReportTypes
  <2>6. ReportDates'
    BY <2>1, <2>3, <2>4 DEF ReportDates
  <2>7. OneIncidentPerPlace' /\ \A h \in Handlers : NoneNearby(h) => NoneNearby(h)'
    BY <2>1, <2>3, <2>4, RowsKept DEF ReportsAssociatedOnce
  <2>8. StaysAbsent'
    BY <2>1, <2>7 DEF StaysAbsent, NotRepeated, InTransaction
  <2>. QED
    BY <2>1, <2>5, <2>6, <2>7, <2>8 DEF ReportLocks, InTransaction, ReportsAssociatedOnce, NoRepeatedReport
<1>8. CASE AssociationTick
  <2>1. /\ UNCHANGED <<incidents, floodReports, at, mem>> /\ now' = now + 1
        /\ \A h \in Handlers : at[h] # Free => now - mem[h].start < TransactionTime
    BY <1>8 DEF AssociationTick, PassTime, reportState, requests
  <2>2. ReportTypes'
    BY <2>1 DEF ReportTypes
  <2>3. ReportDates'
    <3>1. \A h \in Handlers : at[h] # Free =>
            mem[h].start <= now + 1 /\ now + 1 <= mem[h].start + TransactionTime
      <4> TAKE h \in Handlers
      <4> HAVE at[h] # Free
      <4>1. now \in Nat /\ TransactionTime \in Nat /\ mem[h].start \in Nat
        BY ReportRowTypes, LookbackAssumption DEF ReportTypes
      <4>2. mem[h].start <= now /\ now - mem[h].start < TransactionTime
        BY <2>1 DEF ReportDates
      <4>. QED
        BY <4>1, <4>2
    <3>2. \A i \in DOMAIN incidents :
            incidents[i].created <= now + 1 /\ incidents[i].updated <= now + 1
      BY ReportRowTypes, SMTT(30) DEF ReportTypes, ReportDates
    <3>. QED
      BY <2>1, <3>1, <3>2 DEF ReportDates
  <2>. QED
    BY <2>1, <2>2, <2>3 DEF ReportLocks, StaysAbsent, NotRepeated, NoneNearby, InTransaction,
       ReportsAssociatedOnce, OneIncidentPerPlace, NoRepeatedReport
<1>9. CASE UNCHANGED <<reportState, environment>>
  BY <1>9 DEF reportState, environment, requests, ReportTypes, ReportDates, ReportLocks,
     StaysAbsent, NotRepeated,
     NoneNearby, InTransaction, ReportsAssociatedOnce, OneIncidentPerPlace, NoRepeatedReport
<1>. QED
  BY <1>1, <1>3, <1>4, <1>5, <1>6, <1>7, <1>8, <1>9 DEF AssociationNext

\* Every date is a time, and every incident comes of a report.
AssociationBounds ==
  /\ Registers
  /\ \A h \in Handlers : at[h] # Free => mem[h].start \in Times
  /\ \A i \in DOMAIN incidents : incidents[i].updated \in Times
  /\ Len(incidents) <= Len(floodReports)

(* With the invariant, the bounds are the type the runs check. *)
LEMMA AssociationTypes == AssociationInv /\ AssociationBounds => AssociationTypeOK
<1> SUFFICES ASSUME AssociationInv, AssociationBounds PROVE AssociationTypeOK
  OBVIOUS
<1>1. \A i \in DOMAIN incidents : incidents[i] \in IncidentRow
  BY ReportRowTypes DEF AssociationInv
<1>. QED
  BY <1>1 DEF AssociationBounds, AssociationTypeOK, IncidentRow

LEMMA AssociationBoundsStart == EnvironmentInit /\ AssociationInit => AssociationBounds
<1> SUFFICES ASSUME EnvironmentInit, AssociationInit PROVE AssociationBounds
  OBVIOUS
<1>1. Registers /\ 0 \in Times /\ \A h \in Handlers : at[h] = Free
  BY RegistersStart, RequestsAssumption DEF Times
<1>2. CASE incidents = <<>> /\ floodReports = <<>>
  BY <1>1, <1>2 DEF AssociationBounds
<1>3. CASE \E u \in Reporters, p \in Points :
             /\ incidents = <<Incident(p, 0)>>
             /\ floodReports = <<[by |-> u, point |-> p, created |-> 0]>>
  <2>1. Len(incidents) = 1 /\ Len(floodReports) = 1 /\ DOMAIN incidents = {1}
    BY <1>3
  <2>2. incidents[1].updated = 0
    BY <1>3 DEF Incident
  <2>. QED
    BY <1>1, <2>1, <2>2 DEF AssociationBounds
<1>. QED
  BY <1>2, <1>3 DEF AssociationInit

(* An incident is created with the report that it comes of. *)
LEMMA AssociationBoundsStep ==
  AssociationInv /\ AssociationBounds /\ [AssociationNext]_<<reportState, environment>>
    => AssociationBounds'
<1> SUFFICES ASSUME AssociationInv, AssociationBounds,
                    [AssociationNext]_<<reportState, environment>>
             PROVE  AssociationBounds'
  OBVIOUS
<1>1. /\ Registers /\ now \in Times /\ 0 \in Times
      /\ \A h \in Handlers : at[h] # Free => mem[h].start \in Times
      /\ \A i \in DOMAIN incidents : incidents[i].updated \in Times
      /\ Len(incidents) <= Len(floodReports)
  BY RequestsAssumption DEF AssociationBounds, Registers, Times
<1>2. ReportTypes /\ incidents \in Seq(IncidentRow) /\ floodReports \in Seq(ReportRow)
  BY DEF AssociationInv, ReportTypes
<1>3. CASE UNCHANGED <<reportState, environment>>
  BY <1>1, <1>3 DEF AssociationBounds, Registers, reportState, environment, requests
<1>4. CASE AssociationTick
  <2>1. Registers' /\ UNCHANGED <<at, mem, incidents, floodReports>>
    BY <1>1, <1>4, ClockMoves DEF AssociationTick, reportState
  <2>. QED
    BY <1>1, <2>1 DEF AssociationBounds
<1>5. ASSUME NEW i \in DOMAIN incidents, ExtendIncident(i) \/ EndIncident(i)
      PROVE  AssociationBounds'
  <2>1. PICK row : /\ incidents' = [incidents EXCEPT ![i] = row] /\ row.updated \in {0, now}
                   /\ UNCHANGED <<floodReports, now, at, mem>>
    <3> DEFINE extended == [[incidents[i] EXCEPT !.expires = now + ActiveWindow] EXCEPT !.updated = now]
               over == [Incident(incidents[i].point, 0) EXCEPT !.status = "EXPIRED"]
    <3>1. CASE ExtendIncident(i)
      <4>1. incidents' = [incidents EXCEPT ![i] = extended]
        BY <3>1 DEF ExtendIncident
      <4>2. extended.updated = now
        BY <1>2, ReportRowTypes DEF IncidentRow
      <4>. QED
        BY <3>1, <4>1, <4>2 DEF ExtendIncident, environment, requests
    <3>2. CASE EndIncident(i)
      BY <3>2 DEF EndIncident, Incident, environment, requests
    <3>. QED
      BY <1>5, <3>1, <3>2
  <2>2. /\ Len(incidents') = Len(incidents) /\ DOMAIN incidents' = DOMAIN incidents
        /\ \A j \in DOMAIN incidents : incidents'[j] = IF j = i THEN row ELSE incidents[j]
    BY <1>2, <2>1
  <2>3. Registers'
    BY <1>1, <2>1 DEF Registers
  <2>. QED
    BY <1>1, <2>1, <2>2, <2>3 DEF AssociationBounds
<1>6. ASSUME NEW h \in Handlers, NEW u \in Reporters, NEW p \in Points, Submit(h, u, p)
      PROVE  AssociationBounds'
  <2> DEFINE memory == [by |-> u, point |-> p, start |-> now, found |-> 0]
  <2>1. /\ Registers' /\ at'[h] = "begun" /\ mem'[h] = memory
        /\ \A g \in Handlers \ {h} : at'[g] = at[g] /\ mem'[g] = mem[g]
        /\ UNCHANGED <<incidents, floodReports>>
    BY <1>1, <1>6, HandlerMoves DEF Submit, reportState
  <2>. QED
    BY <1>1, <2>1 DEF AssociationBounds
<1>7. ASSUME NEW h \in Handlers, FindRecentDuplicate(h) \/ FindCompatibleIncident(h) \/ SubmitFails(h)
      PROVE  AssociationBounds'
  <2>1. /\ at[h] # Free /\ UNCHANGED <<incidents, floodReports>>
        /\ \/ Finish(h) \/ Proceed(h, "unassociated", mem[h])
           \/ \E i : Proceed(h, "associated", [mem[h] EXCEPT !.found = i])
    BY <1>7 DEF FindRecentDuplicate, FindCompatibleIncident, SubmitFails, reportState, Free
  <2>2. /\ Registers' /\ \A g \in Handlers \ {h} : at'[g] = at[g] /\ mem'[g] = mem[g]
        /\ at'[h] # Free => mem'[h].start = mem[h].start
    <3>1. CASE Finish(h)
      BY <1>1, <3>1, HandlerMoves DEF Finish
    <3>2. CASE Proceed(h, "unassociated", mem[h])
      BY <1>1, <3>2, HandlerMoves
    <3>3. ASSUME NEW i, Proceed(h, "associated", [mem[h] EXCEPT !.found = i])
          PROVE  <2>2!1 /\ <2>2!2
      <4>1. mem[h] \in Submission
        BY <1>2, <2>1 DEF ReportTypes
      <4>2. [mem[h] EXCEPT !.found = i].start = mem[h].start
        BY <4>1 DEF Submission
      <4>. QED
        BY <1>1, <3>3, <4>2, HandlerMoves
    <3>. QED
      BY <2>1, <3>1, <3>2, <3>3
  <2>. QED
    BY <1>1, <2>1, <2>2 DEF AssociationBounds
<1>8. ASSUME NEW h \in Handlers, CreateReport(h) PROVE AssociationBounds'
  <2>1. /\ Registers' /\ at'[h] = Free /\ at[h] # Free
        /\ \A g \in Handlers \ {h} : at'[g] = at[g] /\ mem'[g] = mem[g]
    BY <1>1, <1>8, HandlerMoves DEF CreateReport, Finish, Free
  <2>2. Len(floodReports') = Len(floodReports) + 1
    BY <1>2, <1>8 DEF CreateReport
  <2>3. mem[h] \in Submission /\ mem[h].start \in Times
    BY <1>1, <1>2, <2>1 DEF ReportTypes
  <2>4. CASE mem[h].found = 0
    <3>1. incidents' = Append(incidents, Incident(mem[h].point, mem[h].start))
      BY <1>8, <2>4 DEF CreateReport, Created
    <3>2. Incident(mem[h].point, mem[h].start).updated = mem[h].start
      BY DEF Incident
    <3>3. /\ Len(incidents') = Len(incidents) + 1
          /\ \A i \in DOMAIN incidents' :
               IF i \in DOMAIN incidents THEN incidents'[i] = incidents[i]
               ELSE incidents'[i] = Incident(mem[h].point, mem[h].start)
      BY <1>2, <3>1
    <3>4. \A i \in DOMAIN incidents' : incidents'[i].updated \in Times
      BY <1>1, <2>3, <3>2, <3>3
    <3>5. Len(incidents') <= Len(floodReports')
      <4>1. Len(incidents) \in Nat /\ Len(floodReports) \in Nat
        BY <1>2
      <4>. QED
        BY <1>1, <2>2, <3>3, <4>1
    <3>. QED
      BY <1>1, <2>1, <3>4, <3>5 DEF AssociationBounds
  <2>5. CASE mem[h].found # 0
    <3>1. incidents' = Touched(h)
      BY <1>8, <2>5 DEF CreateReport
    <3>2. /\ Len(incidents') = Len(incidents) /\ DOMAIN incidents' = DOMAIN incidents
          /\ \A i \in DOMAIN incidents : incidents'[i].updated \in {incidents[i].updated, mem[h].start}
      BY <1>2, <3>1, ReportRowTypes DEF Touched, IncidentRow
    <3>. QED
      BY <1>1, <1>2, <2>1, <2>2, <2>3, <3>2 DEF AssociationBounds
  <2>. QED
    BY <2>4, <2>5
<1>. QED
  BY <1>3, <1>4, <1>5, <1>6, <1>7, <1>8 DEF AssociationNext

(* Reports of one reporter that repeat each other are stored once, and     *)
(* reports near each other in one cell share an active incident, however   *)
(* many transactions overlap and wait for each other's locks.              *)
THEOREM AssociatedOnce == AssociationSpec => []ReportsAssociatedOnce
<1>1. AssociationInv => ReportsAssociatedOnce
  BY DEF AssociationInv
<1>. QED
  BY AssociationStarts, AssociationStep, <1>1, PTL DEF AssociationSpec

(***************************************************************************)
(* IncidentConfidence: what the evidence is.                               *)
(***************************************************************************)

ConfidenceInv ==
  /\ Registers
  /\ reports \subseteq Contributors \X Times
  /\ refused \cup pictured \subseteq reports
  /\ confirmedAt \in [Contributors -> {NULL} \cup Times]
  /\ IsFiniteSet(reports) /\ IsFiniteSet(Confirming)
  /\ \A c \in Confirming : confirmedAt[c] <= now

(* The labels are three, and with the invariant the evidence is typed. *)
LEMMA ConfidenceTypes == ConfidenceInv => ConfidenceTypeOK
<1>1. Label \in {"LOW", "MEDIUM", "HIGH"}
  BY Zenon DEF Label
<1>. QED
  BY <1>1 DEF ConfidenceInv, ConfidenceTypeOK

(* There is no evidence at the start. *)
LEMMA ConfidenceStarts == ConfidenceInit => ConfidenceInv
<1> SUFFICES ASSUME ConfidenceInit PROVE ConfidenceInv
  OBVIOUS
<1>1. Confirming = {}
  BY DEF ConfidenceInit, Confirming
<1>. QED
  BY <1>1, RegistersStart, FS_EmptySet DEF ConfidenceInit, ConfidenceInv

(* Photos and moderation are of reports that are there. *)
LEMMA ConfidenceStep == ConfidenceInv /\ [ConfidenceNext]_confidenceVars => ConfidenceInv'
<1> SUFFICES ASSUME ConfidenceInv, [ConfidenceNext]_confidenceVars PROVE ConfidenceInv'
  OBVIOUS
<1>1. Registers /\ now \in Times /\ IsFiniteSet(reports) /\ IsFiniteSet(Confirming)
  BY DEF ConfidenceInv, Registers
<1>2. CASE UNCHANGED confidenceVars
  BY <1>2 DEF ConfidenceInv, Confirming, Registers, confidenceVars, evidenceState, environment,
              requests
<1>3. CASE ConfidenceTick
  <2>1. Registers' /\ UNCHANGED <<reports, refused, pictured, confirmedAt>> /\ now' = now + 1
    BY <1>1, <1>3, ClockMoves DEF ConfidenceTick, PassTime, evidenceState
  <2>2. \A c \in Confirming : confirmedAt[c] <= now + 1
    BY <1>1, RequestsAssumption DEF ConfidenceInv, Confirming, Times, NULL
  <2>. QED
    BY <2>1, <2>2 DEF ConfidenceInv, Confirming
<1>4. ASSUME Single PROVE Registers' /\ now' = now
  BY <1>1, <1>4 DEF Single, Registers
<1>5. ASSUME NEW c \in Contributors, Report(c) PROVE ConfidenceInv'
  <2>1. IsFiniteSet(reports')
    BY <1>1, <1>5, FS_AddElement DEF Report
  <2>. QED
    BY <1>1, <1>4, <1>5, <2>1 DEF ConfidenceInv, Confirming, Report
<1>6. ASSUME NEW c \in Contributors, Reconfirm(c) PROVE ConfidenceInv'
  <2>1. Confirming' \subseteq Confirming \cup {c}
    BY <1>6 DEF ConfidenceInv, Reconfirm, Confirming
  <2>2. IsFiniteSet(Confirming')
    BY <1>1, <2>1, FS_AddElement, FS_Subset
  <2>3. now' = now /\ confirmedAt' = [confirmedAt EXCEPT ![c] = now]
    BY <1>4, <1>6 DEF Reconfirm
  <2>4. \A d \in Confirming' : confirmedAt'[d] <= now
    <3>1. \A d \in Contributors : confirmedAt'[d] = IF d = c THEN now ELSE confirmedAt[d]
      BY <2>3 DEF ConfidenceInv
    <3>2. now <= now
      BY <1>1, RequestsAssumption DEF Times
    <3>. QED
      BY <3>1, <3>2 DEF ConfidenceInv, Confirming
  <2>. QED
    BY <1>1, <1>4, <1>6, <2>2, <2>3, <2>4 DEF ConfidenceInv, Reconfirm
<1>7. ASSUME NEW r \in reports, Picture(r) \/ Moderate(r) PROVE ConfidenceInv'
  BY <1>1, <1>4, <1>7 DEF ConfidenceInv, Confirming, Picture, Moderate
<1>. QED
  BY <1>2, <1>3, <1>5, <1>6, <1>7 DEF ConfidenceNext

(* What the confidence is computed from is typed, for any contributors.    *)
THEOREM ConfidenceTypeCorrect == ConfidenceSpec => []ConfidenceTypeOK
BY ConfidenceStarts, ConfidenceStep, ConfidenceTypes, PTL DEF ConfidenceSpec

(***************************************************************************)
(* IncidentConfidence: what the evidence comes to.                         *)
(***************************************************************************)

(* Products of natural numbers grow with their factors. *)
LEMMA ProductGrows ==
  ASSUME NEW a \in Nat, NEW b \in Nat, NEW c \in Nat, a <= b
  PROVE  a * c \in Nat /\ b * c \in Nat /\ a * c <= b * c
<1>1. PICK k \in Nat : b = a + k
  <2>1. b - a \in Nat /\ b = a + (b - a)
    OBVIOUS
  <2>. QED
    BY <2>1
<1>2. b * c = a * c + k * c
  BY <1>1
<1>3. a * c \in Nat /\ k * c \in Nat
  OBVIOUS
<1>. QED
  BY <1>2, <1>3

(* A quotient is the largest number whose product does not exceed. *)
LEMMA QuotientBounds ==
  ASSUME NEW a \in Nat, NEW b \in Nat \ {0}
  PROVE  a \div b \in Nat /\ (a \div b) * b <= a /\ a < ((a \div b) + 1) * b
OBVIOUS

LEMMA QuotientLargest ==
  ASSUME NEW a \in Nat, NEW b \in Nat \ {0}, NEW q \in Nat, q * b <= a
  PROVE  q <= a \div b
<1> DEFINE d == a \div b
<1>1. d \in Nat /\ a < (d + 1) * b
  BY QuotientBounds
<1> HIDE DEF d
<1>2. ASSUME d + 1 <= q PROVE FALSE
  <2>1. (d + 1) * b <= q * b /\ (d + 1) * b \in Nat /\ q * b \in Nat
    BY <1>1, <1>2, ProductGrows
  <2>. QED
    BY <1>1, <2>1
<1>3. q <= d
  BY <1>1, <1>2
<1>. QED
  BY <1>3 DEF d

LEMMA QuotientGrows ==
  ASSUME NEW a \in Nat, NEW b \in Nat, a <= b, NEW n \in Nat \ {0}
  PROVE  a \div n \in Nat /\ b \div n \in Nat /\ a \div n <= b \div n
<1>1. a \div n \in Nat /\ b \div n \in Nat /\ (a \div n) * n <= a /\ (a \div n) * n \in Nat
  BY QuotientBounds
<1>2. (a \div n) * n <= b
  BY <1>1
<1>. QED
  BY <1>1, <1>2, QuotientLargest

(* A share grows when all that comes to the whole comes to the part. *)
LEMMA ShareGrows ==
  ASSUME NEW g \in Nat, NEW u \in Nat \ {0}, g <= u, NEW k \in Nat, NEW scale \in Nat
  PROVE  (scale * g) \div u <= (scale * (g + k)) \div (u + k)
<1> DEFINE q == (scale * g) \div u
<1>1. scale * g \in Nat
  OBVIOUS
<1>2. q \in Nat /\ q * u <= scale * g
  BY <1>1, QuotientBounds
<1>3. scale * g <= scale * u
  <2>1. g * scale <= u * scale
    BY ProductGrows
  <2>. QED
    BY <2>1
<1>4. q <= scale
  <2>1. scale * u \in Nat /\ scale < scale + 1
    OBVIOUS
  <2> HIDE DEF q
  <2>2. ASSUME scale + 1 <= q PROVE FALSE
    <3>1. (scale + 1) * u <= q * u /\ (scale + 1) * u = scale * u + u /\ q * u \in Nat
      BY <1>2, <2>2, ProductGrows
    <3>. QED
      BY <1>2, <1>3, <2>1, <3>1
  <2>. QED
    BY <1>2, <2>2
<1> HIDE DEF q
<1>5. q * k <= scale * k /\ q * k \in Nat /\ scale * k \in Nat
  BY <1>2, <1>4, ProductGrows
<1>6. q * (u + k) = q * u + q * k /\ scale * (g + k) = scale * g + scale * k
  BY <1>2
<1>7. q * (u + k) <= scale * (g + k)
  <2>1. q * u \in Nat
    BY <1>2
  <2>. QED
    BY <1>1, <1>2, <1>5, <1>6, <2>1
<1>8. scale * (g + k) \in Nat /\ u + k \in Nat \ {0}
  OBVIOUS
<1>. QED
  BY <1>2, <1>7, <1>8, QuotientLargest DEF q

(* The larger and the smaller of two numbers. *)
LEMMA LargerOfTwo ==
  ASSUME NEW a \in Int, NEW b \in Int
  PROVE  Max({a, b}) = IF a >= b THEN a ELSE b
<1> DEFINE larger == IF a >= b THEN a ELSE b
<1>1. larger \in {a, b} /\ \A y \in {a, b} : larger >= y
  OBVIOUS
<1>2. \A x \in {a, b} : (\A y \in {a, b} : x >= y) => x = larger
  OBVIOUS
<1>. QED
  BY <1>1, <1>2 DEF Max

LEMMA SmallerOfTwo ==
  ASSUME NEW a \in Int, NEW b \in Int
  PROVE  Min({a, b}) = IF a <= b THEN a ELSE b
<1> DEFINE smaller == IF a <= b THEN a ELSE b
<1>1. smaller \in {a, b} /\ \A y \in {a, b} : smaller <= y
  OBVIOUS
<1>2. \A x \in {a, b} : (\A y \in {a, b} : x <= y) => x = smaller
  OBVIOUS
<1>. QED
  BY <1>1, <1>2 DEF Min

(* A count that grows normalizes to no less. *)
LEMMA NormalizeGrows ==
  ASSUME NEW v \in Nat, NEW w \in Nat, v <= w, NEW m \in Nat \ {0}
  PROVE  Normalize(v, m) \in Nat /\ Normalize(w, m) \in Nat /\ Normalize(v, m) <= Normalize(w, m)
<1> DEFINE least(x) == IF x < m THEN x ELSE m
<1>1. least(v) \in Nat /\ least(w) \in Nat /\ least(v) <= least(w) /\ Scale \in Nat
  BY ConfidenceAssumption
<1>2. Normalize(v, m) = (Scale * least(v)) \div m /\ Normalize(w, m) = (Scale * least(w)) \div m
  BY DEF Normalize
<1> HIDE DEF least
<1>3. /\ Scale * least(v) \in Nat /\ Scale * least(w) \in Nat
      /\ Scale * least(v) <= Scale * least(w)
  <2>1. /\ least(v) * Scale \in Nat /\ least(w) * Scale \in Nat
        /\ least(v) * Scale <= least(w) * Scale
    BY <1>1, ProductGrows
  <2>2. least(v) * Scale = Scale * least(v) /\ least(w) * Scale = Scale * least(w)
    BY <1>1
  <2>. QED
    BY <2>1, <2>2
<1>. QED
  BY <1>2, <1>3, QuotientGrows

\* Who reported or confirmed, and what share of such a set is verified.
Users == Confirming \cup Reporting
ShareOf(users) ==
  IF users = {} THEN 0
  ELSE (Scale * Cardinality(users \cap trusted)) \div Cardinality(users)

(* A verified contributor more lowers no share. *)
LEMMA ShareKept ==
  ASSUME NEW users, IsFiniteSet(users), NEW c, c \in users \/ c \in trusted
  PROVE  /\ ShareOf(users) \in Nat /\ ShareOf(users \cup {c}) \in Nat
         /\ ShareOf(users) <= ShareOf(users \cup {c})
<1> DEFINE more == users \cup {c}
           g == Cardinality(users \cap trusted)
           u == Cardinality(users)
<1>1. /\ Scale \in Nat /\ u \in Nat /\ g \in Nat /\ g <= u /\ (users # {} => u # 0)
      /\ IsFiniteSet(more)
  <2>1. IsFiniteSet(users \cap trusted) /\ g <= u
    BY FS_Subset
  <2>. QED
    BY <2>1, ConfidenceAssumption, FS_CardinalityType, FS_EmptySet, FS_AddElement
<1>2. /\ Cardinality(more) \in Nat \ {0} /\ Cardinality(more \cap trusted) \in Nat
  <2>1. IsFiniteSet(more \cap trusted) /\ more # {}
    BY <1>1, FS_Subset
  <2>. QED
    BY <1>1, <2>1, FS_CardinalityType, FS_EmptySet
<1>3. ShareOf(more) \in Nat
  <2>1. Scale * Cardinality(more \cap trusted) \in Nat
    BY <1>1, <1>2
  <2>. QED
    BY <1>2, <2>1, QuotientBounds DEF ShareOf
<1>4. CASE users = {}
  BY <1>3, <1>4 DEF ShareOf
<1>5. CASE c \in users
  <2>1. more = users
    BY <1>5
  <2>. QED
    BY <1>3, <2>1
<1>6. CASE users # {} /\ c \notin users
  <2>1. Cardinality(more) = u + 1
    BY <1>6, FS_AddElement
  <2>2. Cardinality(more \cap trusted) = g + 1
    <3>1. more \cap trusted = (users \cap trusted) \cup {c} /\ c \notin users \cap trusted
      BY <1>6
    <3>2. IsFiniteSet(users \cap trusted)
      BY FS_Subset
    <3>. QED
      BY <3>1, <3>2, FS_AddElement
  <2>3. ShareOf(users) = (Scale * g) \div u /\ ShareOf(more) = (Scale * (g + 1)) \div (u + 1)
    BY <1>6, <2>1, <2>2 DEF ShareOf
  <2>4. (Scale * g) \div u \in Nat
    <3>1. Scale * g \in Nat
      BY <1>1
    <3>. QED
      BY <1>1, <1>6, <3>1, QuotientBounds
  <2> HIDE DEF more, g, u
  <2>5. (Scale * g) \div u <= (Scale * (g + 1)) \div (u + 1)
    BY <1>1, <1>6, ShareGrows
  <2>. QED
    BY <1>3, <2>3, <2>4, <2>5 DEF more
<1>. QED
  BY <1>4, <1>5, <1>6

\* The signals by their weights.
Weighted(f) == [s \in Signals |-> Weight[s] * f[s]]

(* A weighted sum grows with the signals. *)
LEMMA SumGrows ==
  ASSUME NEW f \in [Signals -> Nat], NEW g \in [Signals -> Nat], \A s \in Signals : f[s] <= g[s]
  PROVE  /\ Sum(Weighted(f)) \in Nat /\ Sum(Weighted(g)) \in Nat
         /\ Sum(Weighted(f)) <= Sum(Weighted(g))
<1> DEFINE p == Weighted(f)
           q == Weighted(g)
<1>1. \A s \in Signals : p[s] \in Nat /\ q[s] \in Nat /\ p[s] <= q[s]
  <2> SUFFICES ASSUME NEW s \in Signals PROVE p[s] \in Nat /\ q[s] \in Nat /\ p[s] <= q[s]
    OBVIOUS
  <2>1. Weight[s] \in Nat /\ f[s] \in Nat /\ g[s] \in Nat /\ f[s] <= g[s]
    BY ConfidenceAssumption
  <2>2. f[s] * Weight[s] \in Nat /\ g[s] * Weight[s] \in Nat /\ f[s] * Weight[s] <= g[s] * Weight[s]
    BY <2>1, ProductGrows
  <2>3. p[s] = f[s] * Weight[s] /\ q[s] = g[s] * Weight[s]
    BY <2>1 DEF Weighted
  <2>. QED
    BY <2>2, <2>3
<1> HIDE DEF p, q
<1>2. Sum(p) \in Nat /\ Sum(q) \in Nat /\ Sum(p) <= Sum(q)
  BY <1>1 DEF Sum, Signals, Saturating
<1>. QED
  BY <1>2 DEF p, q

(* The weights count as a positive number. *)
LEMMA WeightTotalType == WeightTotal \in Nat \ {0}
<1>1. \A s \in Signals : Weight[s] \in Nat
  BY ConfidenceAssumption
<1>2. Sum(Weight) \in Nat
  BY <1>1 DEF Sum, Signals, Saturating
<1>. QED
  BY <1>2, LargerOfTwo DEF WeightTotal

\* The score that a sum of signals and a penalty come to.
Total(flagged, sum, penalty) ==
  LET full == 100 * WeightTotal * Scale
      base == IF flagged THEN Max({sum, OfficialMinimum * WeightTotal * Scale}) ELSE sum
  IN Max({0, Min({full, base - penalty})})

(* It grows with the sum and falls with the penalty. *)
LEMMA TotalGrows ==
  ASSUME NEW flagged, NEW v \in Nat, NEW w \in Nat, v <= w,
         NEW p \in Nat, NEW q \in Nat, q <= p
  PROVE  Total(flagged, v, p) <= Total(flagged, w, q)
<1> DEFINE full == 100 * WeightTotal * Scale
           least == OfficialMinimum * WeightTotal * Scale
           base(sum) == IF flagged THEN Max({sum, least}) ELSE sum
           clamped(x) == Max({0, Min({full, x})})
<1>1. full \in Nat /\ least \in Nat
  <2>1. WeightTotal \in Nat /\ Scale \in Nat /\ OfficialMinimum \in Nat
    BY WeightTotalType, ConfidenceAssumption
  <2>2. 100 * WeightTotal \in Nat /\ OfficialMinimum * WeightTotal \in Nat
    BY <2>1
  <2>. QED
    BY <2>1, <2>2
<1>2. Total(flagged, v, p) = clamped(base(v) - p) /\ Total(flagged, w, q) = clamped(base(w) - q)
  BY DEF Total
<1> HIDE DEF full, least
<1>3. base(v) \in Nat /\ base(w) \in Nat /\ base(v) <= base(w)
  BY <1>1, LargerOfTwo
<1> HIDE DEF base
<1>4. ASSUME NEW x \in Int PROVE clamped(x) = IF x >= full THEN full ELSE IF x >= 0 THEN x ELSE 0
  <2>1. Min({full, x}) = IF full <= x THEN full ELSE x
    BY <1>1, SmallerOfTwo
  <2>2. Min({full, x}) \in Int
    BY <1>1, <2>1
  <2>3. clamped(x) = IF 0 >= Min({full, x}) THEN 0 ELSE Min({full, x})
    BY <2>2, LargerOfTwo
  <2>. QED
    BY <1>1, <2>1, <2>3
<1> HIDE DEF clamped
<1>5. base(v) - p \in Int /\ base(w) - q \in Int /\ base(v) - p <= base(w) - q
  BY <1>3
<1>6. clamped(base(v) - p) <= clamped(base(w) - q)
  BY <1>1, <1>4, <1>5
<1>. QED
  BY <1>2, <1>6

(* What is counted are numbers, before and after a step. *)
CountsTyped == TrustedContributorWeight \in Nat /\ \A s \in Saturating : Counted[s] \in Nat

LEMMA CountsAreTyped == ConfidenceInv => CountsTyped
<1> SUFFICES ASSUME ConfidenceInv PROVE CountsTyped
  OBVIOUS
<1>1. IsFiniteSet(Standing) /\ IsFiniteSet(Confirming) /\ IsFiniteSet(pictured \ refused)
  <2>1. Standing \subseteq reports /\ pictured \ refused \subseteq reports
    BY DEF ConfidenceInv, Standing
  <2>. QED
    BY <2>1, FS_Subset DEF ConfidenceInv
<1>2. IsFiniteSet(Reporting)
  <2> DEFINE who == [r \in Standing |-> r[1]]
  <2>1. who \in Surjection(Standing, Reporting)
    BY DEF Surjection, Reporting
  <2>. QED
    BY <1>1, <2>1, FS_Surjection
<1>3. /\ Cardinality(Confirming) \in Nat /\ Cardinality(Reporting) \in Nat
      /\ Cardinality(pictured \ refused) \in Nat
      /\ Cardinality({r \in Standing : r[2] >= now - RecentReport}) \in Nat
      /\ Cardinality({c \in Confirming : confirmedAt[c] >= now - RecentConfirmation}) \in Nat
  BY <1>1, <1>2, FS_Subset, FS_CardinalityType
<1>4. \A s \in Saturating : Counted[s] \in Nat
  BY <1>3 DEF Counted, Saturating
<1>5. IsFiniteSet(Users)
  BY <1>1, <1>2, FS_Union DEF Users
<1>6. TrustedContributorWeight = ShareOf(Users)
  BY DEF TrustedContributorWeight, ShareOf, Users
<1>7. ShareOf(Users) \in Nat
  <2>1. CASE Users = {}
    BY <2>1 DEF ShareOf
  <2>2. CASE Users # {}
    <3>1. PICK c \in Users : TRUE
      BY <2>2
    <3>. QED
      BY <1>5, <3>1, ShareKept
  <2>. QED
    BY <2>1, <2>2
<1>. QED
  BY <1>4, <1>6, <1>7 DEF CountsTyped

LEMMA CountsStayTyped == ConfidenceInv' => CountsTyped'
BY CountsAreTyped, PTL

(* The signals follow what is counted, and the score the signals. *)
LEMMA SignalsMove ==
  ASSUME CountsTyped, CountsTyped', official' = official
  PROVE  /\ \A s \in Signals : Signal(s) \in Nat /\ Signal(s)' \in Nat
         /\ /\ \A s \in Saturating : Counted[s] <= Counted'[s]
            /\ TrustedContributorWeight <= TrustedContributorWeight'
            => \A s \in Signals : Signal(s) <= Signal(s)'
         /\ /\ \A s \in Saturating : Counted'[s] <= Counted[s]
            /\ TrustedContributorWeight' <= TrustedContributorWeight
            => \A s \in Signals : Signal(s)' <= Signal(s)
<1>1. ASSUME NEW s \in Saturating
      PROVE  /\ Signal(s) \in Nat /\ Signal(s)' \in Nat
             /\ Counted[s] <= Counted'[s] => Signal(s) <= Signal(s)'
             /\ Counted'[s] <= Counted[s] => Signal(s)' <= Signal(s)
  <2>1. Counted[s] \in Nat /\ Counted'[s] \in Nat /\ Maximum[s] \in Nat \ {0}
    BY ConfidenceAssumption DEF CountsTyped
  <2>2. Signal(s) = Normalize(Counted[s], Maximum[s]) /\ Signal(s)' = Normalize(Counted'[s], Maximum[s])
    <3>1. s # "trustedContributors" /\ s # "officialSource"
      BY DEF Saturating
    <3>. QED
      BY <3>1, Zenon DEF Signal, Normalize
  <2>3. Counted[s] <= Counted'[s] \/ Counted'[s] <= Counted[s]
    BY <2>1
  <2>. QED
    BY <2>1, <2>2, <2>3, NormalizeGrows
<1>2. /\ Signal("trustedContributors") = TrustedContributorWeight
      /\ Signal("trustedContributors")' = TrustedContributorWeight'
  BY DEF Signal, Saturating
<1>3. Signal("officialSource") \in {0, Scale} /\ Signal("officialSource")' = Signal("officialSource")
  <2>1. Signal("officialSource") = IF official THEN Scale ELSE 0
    BY DEF Signal, Saturating
  <2>2. Signal("officialSource")' = IF official' THEN Scale ELSE 0
    BY DEF Signal, Saturating
  <2>. QED
    BY <2>1, <2>2, Zenon
<1>4. TrustedContributorWeight \in Nat /\ TrustedContributorWeight' \in Nat /\ Scale \in Nat
  BY ConfidenceAssumption DEF CountsTyped
<1>. QED
  BY <1>1, <1>2, <1>3, <1>4 DEF Signals

LEMMA ScoreMoves ==
  ASSUME official' = official,
         \A s \in Signals : Signal(s) \in Nat /\ Signal(s)' \in Nat,
         TotalPenalty \in Nat, TotalPenalty' \in Nat
  PROVE  /\ /\ \A s \in Signals : Signal(s) <= Signal(s)'
            /\ TotalPenalty' <= TotalPenalty
            => Score <= Score'
         /\ /\ \A s \in Signals : Signal(s)' <= Signal(s)
            /\ TotalPenalty <= TotalPenalty'
            => Score' <= Score
<1> DEFINE f == [s \in Signals |-> Signal(s)]
           g == [s \in Signals |-> Signal(s)']
           sum(h) == Sum(Weighted(h))
<1>1. WeightedPositive = 100 * sum(f) /\ WeightedPositive' = 100 * sum(g)
  BY DEF WeightedPositive, Weighted
<1>2. /\ Score = Total(official, WeightedPositive, TotalPenalty)
      /\ Score' = Total(official, WeightedPositive', TotalPenalty')
  BY Zenon DEF Score, ConfidenceBase, Total
<1>3. f \in [Signals -> Nat] /\ g \in [Signals -> Nat]
  OBVIOUS
<1>4. ASSUME \A s \in Signals : Signal(s) <= Signal(s)', TotalPenalty' <= TotalPenalty
      PROVE  Score <= Score'
  <2>1. \A s \in Signals : f[s] <= g[s]
    BY <1>4
  <2>2. sum(f) \in Nat /\ sum(g) \in Nat /\ sum(f) <= sum(g)
    BY <1>3, <2>1, SumGrows
  <2> HIDE DEF sum
  <2>3. 100 * sum(f) \in Nat /\ 100 * sum(g) \in Nat /\ 100 * sum(f) <= 100 * sum(g)
    BY <2>2
  <2>. QED
    BY <1>1, <1>2, <1>4, <2>3, TotalGrows
<1>5. ASSUME \A s \in Signals : Signal(s)' <= Signal(s), TotalPenalty <= TotalPenalty'
      PROVE  Score' <= Score
  <2>1. \A s \in Signals : g[s] <= f[s]
    BY <1>5
  <2>2. sum(f) \in Nat /\ sum(g) \in Nat /\ sum(g) <= sum(f)
    BY <1>3, <2>1, SumGrows
  <2> HIDE DEF sum
  <2>3. 100 * sum(f) \in Nat /\ 100 * sum(g) \in Nat /\ 100 * sum(g) <= 100 * sum(f)
    BY <2>2
  <2>. QED
    BY <1>1, <1>2, <1>5, <2>3, TotalGrows
<1>. QED
  BY <1>4, <1>5

(* A subset is no larger. *)
LEMMA FewerCount ==
  ASSUME NEW T, IsFiniteSet(T), NEW S, S \subseteq T
  PROVE  Cardinality(S) <= Cardinality(T)
BY FS_Subset

\* Nobody who reported or confirmed stops to count.
RowsGrow ==
  /\ Standing \subseteq Standing' /\ Confirming \subseteq Confirming'
  /\ \A c \in Confirming : confirmedAt[c] <= confirmedAt'[c]
  /\ pictured \ refused \subseteq pictured' \ refused'

(* With more rows at the same time, no count falls. *)
LEMMA CountsGrow ==
  ASSUME ConfidenceInv, ConfidenceInv', now' = now, RowsGrow
  PROVE  \A s \in Saturating : Counted[s] <= Counted'[s]
<1> DEFINE recent == {r \in Standing : r[2] >= now - RecentReport}
           more == {r \in Standing' : r[2] >= now' - RecentReport}
           again == {c \in Confirming : confirmedAt[c] >= now - RecentConfirmation}
           moreAgain == {c \in Confirming' : confirmedAt'[c] >= now' - RecentConfirmation}
<1>1. IsFiniteSet(Standing') /\ IsFiniteSet(Confirming') /\ IsFiniteSet(pictured' \ refused')
  <2>1. Standing' \subseteq reports' /\ pictured' \ refused' \subseteq reports'
    BY DEF ConfidenceInv, Standing
  <2>. QED
    BY <2>1, FS_Subset DEF ConfidenceInv
<1>2. IsFiniteSet(Reporting')
  <2> DEFINE who == [r \in Standing' |-> r[1]]
  <2>1. who \in Surjection(Standing', Reporting')
    BY DEF Surjection, Reporting
  <2>. QED
    BY <1>1, <2>1, FS_Surjection
<1>3. Reporting \subseteq Reporting'
  BY DEF Reporting, RowsGrow
<1>4. recent \subseteq more /\ IsFiniteSet(more)
  BY <1>1, FS_Subset DEF RowsGrow
<1>5. again \subseteq moreAgain /\ IsFiniteSet(moreAgain)
  <2>1. \A c \in Confirming : confirmedAt[c] \in Int /\ confirmedAt'[c] \in Int
    BY RequestsAssumption DEF ConfidenceInv, Confirming, Times, NULL
  <2>2. now - RecentConfirmation \in Int
    BY ConfidenceAssumption, RequestsAssumption DEF ConfidenceInv, Registers, Times
  <2>3. again \subseteq moreAgain
    BY <2>1, <2>2 DEF RowsGrow
  <2>. QED
    BY <1>1, <2>3, FS_Subset
<1>6. /\ Cardinality(Confirming) <= Cardinality(Confirming')
      /\ Cardinality(Reporting) <= Cardinality(Reporting')
      /\ Cardinality(pictured \ refused) <= Cardinality(pictured' \ refused')
      /\ Cardinality(recent) <= Cardinality(more)
      /\ Cardinality(again) <= Cardinality(moreAgain)
  BY <1>1, <1>2, <1>3, <1>4, <1>5, FewerCount DEF RowsGrow
<1>. QED
  BY <1>6 DEF Counted, Saturating

(* With the same rows later, no count rises. *)
LEMMA CountsFade ==
  ASSUME ConfidenceInv, UNCHANGED evidenceState, now' = now + 1
  PROVE  /\ \A s \in Saturating : Counted'[s] <= Counted[s]
         /\ TrustedContributorWeight' = TrustedContributorWeight
<1> DEFINE recent == {r \in Standing : r[2] >= now - RecentReport}
           fewer == {r \in Standing : r[2] >= now' - RecentReport}
           again == {c \in Confirming : confirmedAt[c] >= now - RecentConfirmation}
           fewerAgain == {c \in Confirming : confirmedAt[c] >= now' - RecentConfirmation}
<1>1. /\ Standing' = Standing /\ Confirming' = Confirming /\ Reporting' = Reporting
      /\ UNCHANGED <<reports, refused, pictured, confirmedAt, trusted>>
  BY DEF evidenceState, Standing, Confirming, Reporting
<1>2. IsFiniteSet(Standing) /\ IsFiniteSet(Confirming)
  <2>1. Standing \subseteq reports
    BY DEF Standing
  <2>. QED
    BY <2>1, FS_Subset DEF ConfidenceInv
<1>3. now \in Nat /\ RecentReport \in Nat /\ RecentConfirmation \in Nat
  BY ConfidenceAssumption, RequestsAssumption DEF ConfidenceInv, Registers, Times
<1>4. fewer \subseteq recent
  <2>1. \A r \in Standing : r[2] \in Nat
    BY RequestsAssumption DEF ConfidenceInv, Standing, Times
  <2>. QED
    BY <1>3, <2>1
<1>5. fewerAgain \subseteq again
  <2>1. \A c \in Confirming : confirmedAt[c] \in Int
    BY RequestsAssumption DEF ConfidenceInv, Confirming, Times, NULL
  <2>. QED
    BY <1>3, <2>1
<1>6. /\ Cardinality(fewer) <= Cardinality(recent) /\ Cardinality(fewerAgain) <= Cardinality(again)
  BY <1>2, <1>4, <1>5, FS_Subset, FewerCount
<1>7. \A s \in Saturating : Counted[s] \in Nat
  BY CountsAreTyped DEF CountsTyped
<1>8. /\ Counted["recentReports"] = Cardinality(recent)
      /\ Counted["recentConfirmations"] = Cardinality(again)
  BY DEF Counted
<1>9. /\ Counted'["recentReports"] = Cardinality(fewer)
      /\ Counted'["recentConfirmations"] = Cardinality(fewerAgain)
  BY <1>1 DEF Counted
<1>10. \A s \in {"confirmations", "distinctReporters", "photos"} : Counted'[s] = Counted[s]
  BY <1>1 DEF Counted
<1>11. \A s \in {"confirmations", "distinctReporters", "photos"} : Counted'[s] <= Counted[s]
  BY <1>7, <1>10 DEF Saturating
<1>12. TrustedContributorWeight' = TrustedContributorWeight
  BY <1>1 DEF TrustedContributorWeight
<1>. QED
  BY <1>6, <1>8, <1>9, <1>11, <1>12 DEF Saturating

(* A report or a confirmation leaves the share of the verified as high,    *)
(* unless it is the first of someone who is not.                           *)
LEMMA TrustKept ==
  ASSUME ConfidenceInv, NEW c, Users' = Users \cup {c}, trusted' = trusted,
         c \in Users \/ c \in trusted
  PROVE  TrustedContributorWeight <= TrustedContributorWeight'
<1>1. IsFiniteSet(Users)
  <2>1. IsFiniteSet(Standing)
    <3>1. Standing \subseteq reports
      BY DEF Standing
    <3>. QED
      BY <3>1, FS_Subset DEF ConfidenceInv
  <2>2. IsFiniteSet(Reporting)
    <3> DEFINE who == [r \in Standing |-> r[1]]
    <3>1. who \in Surjection(Standing, Reporting)
      BY DEF Surjection, Reporting
    <3>. QED
      BY <2>1, <3>1, FS_Surjection
  <2>. QED
    BY <2>2, FS_Union DEF Users, ConfidenceInv
<1>2. TrustedContributorWeight = ShareOf(Users) /\ TrustedContributorWeight' = ShareOf(Users')
  BY DEF TrustedContributorWeight, ShareOf, Users
<1>. QED
  BY <1>1, <1>2, ShareKept

(* The penalty of age grows with the time, and with nothing else. *)
LEMMA PenaltyGrows ==
  ASSUME now \in Nat, now' \in Nat, now <= now'
  PROVE  TotalPenalty \in Nat /\ TotalPenalty' \in Nat /\ TotalPenalty <= TotalPenalty'
<1> DEFINE share == PenaltyAge * WeightTotal
           before == Normalize(now, Maximum["age"])
           after == Normalize(now', Maximum["age"])
<1>1. share \in Nat
  BY WeightTotalType, ConfidenceAssumption
<1>2. before \in Nat /\ after \in Nat /\ before <= after
  BY ConfidenceAssumption, NormalizeGrows
<1>3. TotalPenalty = share * before /\ TotalPenalty' = share * after
  BY Zenon DEF TotalPenalty, WeightTotal, Normalize
<1> HIDE DEF share, before, after
<1>4. share * before = before * share /\ share * after = after * share
  BY <1>1, <1>2
<1>. QED
  BY <1>1, <1>2, <1>3, <1>4, ProductGrows

(* More rows of the same or of verified contributors lower no score. *)
LEMMA MoreCounts ==
  ASSUME ConfidenceInv, ConfidenceInv', official' = official, now' = now, RowsGrow,
         TrustedContributorWeight <= TrustedContributorWeight'
  PROVE  Score <= Score'
<1>1. CountsTyped /\ CountsTyped'
  BY CountsAreTyped, CountsStayTyped
<1>2. \A s \in Saturating : Counted[s] <= Counted'[s]
  BY CountsGrow
<1>3. \A s \in Signals : Signal(s) \in Nat /\ Signal(s)' \in Nat /\ Signal(s) <= Signal(s)'
  BY <1>1, <1>2, SignalsMove
<1>4. now \in Nat
  BY RequestsAssumption DEF ConfidenceInv, Registers, Times
<1>5. TotalPenalty \in Nat /\ TotalPenalty' \in Nat /\ TotalPenalty' <= TotalPenalty
  <2>1. TotalPenalty' = TotalPenalty
    BY Zenon DEF TotalPenalty, WeightTotal, Normalize
  <2>. QED
    BY <1>4, <2>1, PenaltyGrows
<1>. QED
  BY <1>3, <1>5, ScoreMoves

(* The same rows count for less when time has passed. *)
LEMMA TimeCounts ==
  ASSUME ConfidenceInv, ConfidenceInv', UNCHANGED evidenceState, now' = now + 1
  PROVE  Score' <= Score
<1>1. CountsTyped /\ CountsTyped' /\ official' = official
  BY CountsAreTyped, CountsStayTyped DEF evidenceState
<1>2. /\ \A s \in Saturating : Counted'[s] <= Counted[s]
      /\ TrustedContributorWeight' = TrustedContributorWeight
  BY CountsFade
<1>3. TrustedContributorWeight' <= TrustedContributorWeight
  BY <1>1, <1>2 DEF CountsTyped
<1>4. \A s \in Signals : Signal(s) \in Nat /\ Signal(s)' \in Nat /\ Signal(s)' <= Signal(s)
  BY <1>1, <1>2, <1>3, SignalsMove
<1>5. now \in Nat
  BY RequestsAssumption DEF ConfidenceInv, Registers, Times
<1>6. TotalPenalty \in Nat /\ TotalPenalty' \in Nat /\ TotalPenalty <= TotalPenalty'
  BY <1>5, PenaltyGrows
<1>. QED
  BY <1>1, <1>4, <1>6, ScoreMoves

(* What somebody of the users, or somebody verified, adds.                 *)
LEMMA OneMoreCounts ==
  ASSUME ConfidenceInv, ConfidenceInv', UNCHANGED <<official, now, trusted>>, RowsGrow,
         NEW c, Users' = Users \cup {c}, c \in Users \/ c \in trusted
  PROVE  Score <= Score'
BY MoreCounts, TrustKept

LEMMA EvidenceStepHolds == ConfidenceInv /\ [ConfidenceNext]_confidenceVars => EvidenceStep
<1> SUFFICES ASSUME ConfidenceInv, [ConfidenceNext]_confidenceVars PROVE EvidenceStep
  OBVIOUS
<1>1. ConfidenceInv'
  BY ConfidenceStep
<1>2. SUFFICES /\ /\ refused' = refused /\ evidenceState' # evidenceState
                  /\ (Users' \ Users) \ trusted = {}
                  => Score <= Score'
               /\ now' # now => Score' <= Score
  BY SMT DEF EvidenceStep, Users
<1>3. CASE UNCHANGED confidenceVars
  BY <1>3, Zenon DEF confidenceVars, environment
<1>4. CASE ConfidenceTick
  <2>1. UNCHANGED evidenceState /\ now' = now + 1
    BY <1>4 DEF ConfidenceTick, PassTime
  <2>. QED
    BY <1>1, <2>1, TimeCounts
<1>5. ASSUME Single PROVE now' = now
  BY <1>5 DEF Single
<1>6. ASSUME NEW c \in Contributors, Report(c), (Users' \ Users) \ trusted = {}
      PROVE  refused' = refused => Score <= Score'
  <2>1. /\ now' = now /\ reports' = reports \cup {<<c, now>>}
        /\ UNCHANGED <<official, refused, pictured, confirmedAt, trusted>>
    BY <1>5, <1>6 DEF Report
  <2>2. Standing' = IF <<c, now>> \in refused THEN Standing ELSE Standing \cup {<<c, now>>}
    BY <2>1 DEF Standing
  <2>3. Confirming' = Confirming
    BY <2>1 DEF Confirming
  <2>4. RowsGrow
    <3>1. \A d \in Confirming : confirmedAt[d] <= confirmedAt'[d]
      <4>1. \A d \in Confirming : confirmedAt[d] \in Int
        BY RequestsAssumption DEF ConfidenceInv, Confirming, Times, NULL
      <4>. QED
        BY <2>1, <4>1
    <3>. QED
      BY <2>1, <2>2, <2>3, <3>1 DEF RowsGrow
  <2>5. CASE <<c, now>> \in refused
    <3>1. TrustedContributorWeight' = TrustedContributorWeight
      BY <2>1, <2>2, <2>3, <2>5 DEF TrustedContributorWeight, Reporting
    <3>2. TrustedContributorWeight <= TrustedContributorWeight'
      BY <3>1, CountsAreTyped DEF CountsTyped
    <3>. QED
      BY <1>1, <2>1, <2>4, <3>2, MoreCounts
  <2>6. CASE <<c, now>> \notin refused
    <3>1. Reporting' = Reporting \cup {c}
      BY <2>2, <2>6 DEF Reporting
    <3>2. Users' = Users \cup {c}
      BY <2>3, <3>1 DEF Users
    <3>3. c \in Users \/ c \in trusted
      BY <1>6, <3>2
    <3>. QED
      BY <1>1, <2>1, <2>4, <3>2, <3>3, OneMoreCounts
  <2>. QED
    BY <2>5, <2>6
<1>7. ASSUME NEW c \in Contributors, Reconfirm(c), (Users' \ Users) \ trusted = {}
      PROVE  Score <= Score'
  <2>1. /\ now' = now /\ confirmedAt' = [confirmedAt EXCEPT ![c] = now]
        /\ UNCHANGED <<official, reports, refused, pictured, trusted>>
    BY <1>5, <1>7 DEF Reconfirm
  <2>2. now \in Nat /\ now # NULL
    BY RequestsAssumption DEF ConfidenceInv, Registers, Times, NULL
  <2>3. \A d \in Contributors : confirmedAt'[d] = IF d = c THEN now ELSE confirmedAt[d]
    BY <2>1 DEF ConfidenceInv
  <2>4. Confirming' = Confirming \cup {c} /\ Standing' = Standing /\ Reporting' = Reporting
    BY <2>1, <2>2, <2>3 DEF Confirming, Standing, Reporting
  <2>5. RowsGrow
    <3>1. \A d \in Confirming : confirmedAt[d] \in Int /\ confirmedAt[d] <= now
      BY RequestsAssumption DEF ConfidenceInv, Confirming, Times, NULL
    <3>2. \A d \in Confirming : confirmedAt[d] <= confirmedAt'[d]
      BY <2>3, <3>1 DEF Confirming
    <3>. QED
      BY <2>1, <2>4, <3>2 DEF RowsGrow
  <2>6. Users' = Users \cup {c}
    BY <2>4 DEF Users
  <2>7. c \in Users \/ c \in trusted
    BY <1>7, <2>6
  <2>. QED
    BY <1>1, <2>1, <2>5, <2>6, <2>7, OneMoreCounts
<1>8. ASSUME NEW r \in reports, Picture(r) PROVE Score <= Score'
  <2>1. /\ now' = now /\ pictured' = pictured \cup {r}
        /\ UNCHANGED <<official, reports, refused, confirmedAt, trusted>>
    BY <1>5, <1>8 DEF Picture
  <2>2. Confirming' = Confirming /\ Standing' = Standing /\ Reporting' = Reporting
    BY <2>1 DEF Confirming, Standing, Reporting
  <2>3. RowsGrow
    <3>1. \A d \in Confirming : confirmedAt[d] <= confirmedAt'[d]
      <4>1. \A d \in Confirming : confirmedAt[d] \in Int
        BY RequestsAssumption DEF ConfidenceInv, Confirming, Times, NULL
      <4>. QED
        BY <2>1, <4>1
    <3>. QED
      BY <2>1, <2>2, <3>1 DEF RowsGrow
  <2>4. TrustedContributorWeight' = TrustedContributorWeight
    BY <2>1, <2>2 DEF TrustedContributorWeight
  <2>5. TrustedContributorWeight <= TrustedContributorWeight'
    BY <2>4, CountsAreTyped DEF CountsTyped
  <2>. QED
    BY <1>1, <2>1, <2>3, <2>5, MoreCounts
<1>9. ASSUME NEW r \in reports, Moderate(r)
      PROVE  /\ refused' = refused => evidenceState' = evidenceState
             /\ now' = now
  BY <1>5, <1>9 DEF Moderate, evidenceState
<1>10. ASSUME \/ \E c \in Contributors : Report(c) \/ Reconfirm(c)
              \/ \E r \in reports : Picture(r)
       PROVE  now' = now
  BY <1>5, <1>10 DEF Report, Reconfirm, Picture
<1>. QED
  BY <1>3, <1>4, <1>6, <1>7, <1>8, <1>9, <1>10 DEF ConfidenceNext

(* More evidence of a verified contributor, or of one who contributed      *)
(* before, never lowers the score, and time alone never raises it: for any *)
(* weights, windows and penalty of the configuration.                      *)
THEOREM ScoreFollowsEvidence == ConfidenceSpec => [][EvidenceStep]_confidenceVars
<1>1. ConfidenceInv /\ [ConfidenceNext]_confidenceVars => [EvidenceStep]_confidenceVars
  BY EvidenceStepHolds
<1>. QED
  BY ConfidenceStarts, ConfidenceStep, <1>1, PTL DEF ConfidenceSpec
=============================================================================
