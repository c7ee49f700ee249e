------------------------------ MODULE UserSettings ------------------------------
(***************************************************************************)
(* What one user saves and is given: saved places, the default alert       *)
(* preference, the contributor status administrators assign, and the read  *)
(* marks of the alert history.                                             *)
(*                                                                         *)
(* Updates read the row, merge the request into what they read, and write  *)
(* the result with a statement of its own.  Of a place, its type and       *)
(* whether it has a label stand for all columns: location and address are  *)
(* merged in the same way.                                                 *)
(***************************************************************************)
EXTENDS Requests

CONSTANTS
  Places, \* identifiers of saved places
  Radii,  \* radii within the configured bounds
  Default \* defaultRadiusMeters and ALERTABLE_INCIDENT_TYPES

ASSUME DefaultAssumption == Default \in [radius : Radii, types : {{"required", "optional"}}]

SavedPlaceType == {"HOME", "FAMILY", "CUSTOM"}
ContributorStatus == {"STANDARD", "VERIFIED", "SUSPENDED"}
Standard == {"HOME"} \* and WORK and SCHOOL, which are alike
NoPlace == [type |-> "NONE", labelled |-> FALSE]
NoPreference == [radius |-> NULL, types |-> {}]

\* SEVERE_FLOODING is required; the other alertable types stand as one.
IncidentTypes == {{"required"}, {"required", "optional"}}
Place == [type : SavedPlaceType, labelled : BOOLEAN]
Preference == [radius : Radii, types : IncidentTypes]

\* A field of a request: present with a value, or left out.
Patch(S) == {{}} \cup {{x} : x \in S}
Merge(field, current) == IF field = {} THEN current ELSE CHOOSE x \in field : TRUE

VARIABLES
  place,       \* the saved_places row of each identifier
  preference,  \* the default alert_preferences row
  chosen,      \* history: what the last update of it wrote
  contributor, \* the user_contributor_statuses row
  audit,       \* newStatus of the latest contributor_status_audits row
  read         \* whether an alert has its read_at

settings == <<place, preference, chosen, contributor, audit, read>>
settingsVars == <<settings, environment>>

SettingsInit ==
  /\ EnvironmentInit
  /\ place = [p \in Places |-> NoPlace]
  /\ preference = NoPreference
  /\ chosen = NoPreference
  /\ contributor = "NONE"
  /\ audit = "NONE"
  /\ read = FALSE

-----------------------------------------------------------------------------
(* Saved places.                                                           *)

Valid(row) == row.type = "CUSTOM" => row.labelled

\* Bug: no check constraint, the service alone asks for a label.
StorableUnlabelled(p, row) ==
  \A q \in Places \ {p} :
    row.type \in Standard => place[q].type # row.type

\* The check constraint and the partial unique index of saved_places.
Storable(p, row) ==
  /\ row.type = "CUSTOM" => row.labelled
  /\ \A q \in Places \ {p} :
       row.type \in Standard => place[q].type # row.type

CreatePlace(p, row) ==
  /\ place[p] = NoPlace
  /\ Valid(row)
  /\ Storable(p, row)
  /\ Single
  /\ place' = [place EXCEPT ![p] = row]
  /\ UNCHANGED <<preference, chosen, contributor, audit, read>>

\* The label is written even when the request leaves it out, the type only
\* when the request has one.
FindPlace(h, p, type, labelled) ==
  /\ place[p] # NoPlace
  /\ LET label == Merge(labelled, place[p].labelled)
         next == [type |-> Merge(type, place[p].type), labelled |-> label]
     IN /\ Valid(next)
        /\ Begin(h, "place", [id |-> p, type |-> type, labelled |-> label])
  /\ UNCHANGED settings

UpdatePlace(h) ==
  LET p == mem[h].id
      next == [type |-> Merge(mem[h].type, place[p].type), labelled |-> mem[h].labelled]
  IN
  /\ at[h] = "place"
  /\ \/ place[p] = NoPlace /\ UNCHANGED place
     \/ /\ place[p] # NoPlace
        /\ place' = IF Storable(p, next) THEN [place EXCEPT ![p] = next] ELSE place
  /\ Finish(h)
  /\ UNCHANGED <<preference, chosen, contributor, audit, read>>

DeletePlace(p) ==
  /\ place[p] # NoPlace
  /\ Single
  /\ place' = [place EXCEPT ![p] = NoPlace]
  /\ UNCHANGED <<preference, chosen, contributor, audit, read>>

-----------------------------------------------------------------------------
(* The default alert preference.                                           *)

\* ON CONFLICT DO NOTHING, whatever getDefault found before.
Inserted == IF preference = NoPreference THEN Default ELSE preference

GetDefault ==
  /\ Single
  /\ preference' = Inserted
  /\ UNCHANGED <<place, chosen, contributor, audit, read>>

\* getForAlertEvaluation inserts the default after it has found nothing.
FindEffective(h) ==
  /\ preference = NoPreference
  /\ Begin(h, "default", Nothing)
  /\ UNCHANGED settings

EnsureDefault(h) ==
  /\ at[h] = "default"
  /\ preference' = Inserted
  /\ Finish(h)
  /\ UNCHANGED <<place, chosen, contributor, audit, read>>

\* Bug: the required type is not added.
TypesAsGiven(types) == types

NormalizeIncidentTypes(types) == types \cup {"required"}

FindDefault(h, radius, types) ==
  /\ LET current == Inserted
     IN Begin(h, "preference",
          [radius |-> Merge(radius, current.radius),
           types |-> NormalizeIncidentTypes(Merge(types, current.types))])
  /\ UNCHANGED settings

UpsertDefault(h) ==
  /\ at[h] = "preference"
  /\ preference' = mem[h]
  /\ chosen' = mem[h]
  /\ Finish(h)
  /\ UNCHANGED <<place, contributor, audit, read>>

-----------------------------------------------------------------------------
(* Contributor status: an audit row is written when the status assigned    *)
(* differs from the one that was read, and also when the reason does.       *)
(* An administrator is never the user.                                     *)

FindContributor(h, status) ==
  /\ Begin(h, "assign", [status |-> status, current |-> contributor])
  /\ UNCHANGED settings

AssignStatus(h) ==
  /\ at[h] = "assign"
  /\ contributor' = mem[h].status
  /\ \/ audit' = mem[h].status
     \/ mem[h].current = mem[h].status /\ UNCHANGED audit
  /\ Finish(h)
  /\ UNCHANGED <<place, preference, chosen, read>>

-----------------------------------------------------------------------------
(* Alert history.                                                          *)

\* COALESCE keeps the first time.
MarkRead ==
  /\ Single
  /\ read' = TRUE
  /\ UNCHANGED <<place, preference, chosen, contributor, audit>>

SettingsNext ==
  \/ \E p \in Places :
       DeletePlace(p) \/ \E row \in Place : CreatePlace(p, row)
  \/ \E h \in Handlers :
       \/ UpdatePlace(h) \/ FindEffective(h) \/ EnsureDefault(h)
       \/ UpsertDefault(h) \/ AssignStatus(h)
       \/ \E p \in Places, t \in Patch(SavedPlaceType), l \in Patch(BOOLEAN) :
            FindPlace(h, p, t, l)
       \/ \E r \in Patch(Radii), t \in Patch({{}, {"optional"}}) : FindDefault(h, r, t)
       \/ \E s \in ContributorStatus : FindContributor(h, s)
  \/ GetDefault \/ MarkRead

SettingsSpec == SettingsInit /\ [][SettingsNext]_settingsVars

-----------------------------------------------------------------------------
SettingsTypeOK ==
  /\ place \in [Places -> {NoPlace} \cup Place]
  /\ preference \in {NoPreference} \cup Preference
  /\ chosen \in {NoPreference} \cup Preference
  /\ contributor \in {"NONE"} \cup ContributorStatus
  /\ audit \in {"NONE"} \cup ContributorStatus
  /\ read \in BOOLEAN

(* No two of a user's updates, each valid for the row it read, leave a     *)
(* custom place without a label or a standard type with two places.        *)
PlacesWellFormed ==
  /\ \A p \in Places : Valid(place[p])
  /\ \A p, q \in Places :
       p # q /\ place[p].type = place[q].type => place[p].type \notin Standard

(* An evaluation or a view that finds no preference, and then inserts the  *)
(* default, never overwrites what the user chose in between.               *)
ChoiceKept == chosen = NoPreference \/ preference = chosen

(* A user's places and preferences stay what the user has made them:       *)
(* concurrent updates leave no place without its label or its type's only  *)
(* row, and creating the defaults never overwrites a choice.               *)
SettingsKept == PlacesWellFormed /\ ChoiceKept
=============================================================================
