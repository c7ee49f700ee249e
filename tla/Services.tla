------------------------------- MODULE Services -------------------------------
(***************************************************************************)
(* The components whose operations are requests, each with a few           *)
(* statements.  They share the handlers and the clock and no table, so     *)
(* each behaviour exercises one of them, chosen at its start; the parts    *)
(* that it does not exercise stay as they are.                             *)
(***************************************************************************)
EXTENDS AuthSession, MessagingDestination, UserSettings, OfficialWarning,
        MediaUpload, RoutePlanning, Geocoding, JobPipeline, IncidentConfidence,
        ReportAssociation, ProviderAdapters, ClientSession, RouteSearch, MapFeed,
        PagedLists, LiveNavigation, HomeMap, RateLimit

VARIABLE part

authState == <<account, auth, issued, parent>>
messagingState == <<deviceVars, phoneVars, enabled>>
accountState == <<authState, messagingState, settings>>
evidence == <<warningState, mediaState, evidenceState>>
plumbing == <<routeState, lookups, jobState>>
clients == <<clientState, searchState, liveState, homeState, feedState, pageState>>
exchange == <<reportState, adapterState, rateState>>
vars == <<part, accountState, evidence, plumbing, clients, exchange, environment>>

Parts == {"auth", "messaging", "settings", "warnings", "media", "confidence", "routes",
          "lookups", "jobs", "association", "adapters", "limits", "client", "search",
          "live", "home", "feed", "pages"}

\* The parts that a behaviour does not exercise start in one state.
Init ==
  /\ part \in Parts
  /\ AuthInit /\ MessagingInit /\ SettingsInit
  /\ WarningInit /\ MediaInit
  /\ RouteInit /\ GeocodingInit /\ JobInit
  /\ ClientInit /\ SearchInit /\ LiveInit /\ FeedInit /\ RateInit
  /\ HomeInit /\ (part = "home" \/ awaited = 1)
  /\ ConfidenceInit /\ (part = "confidence" \/ (~official /\ trusted = {}))
  /\ AssociationInit /\ (part = "association" \/ incidents = <<>>)
  /\ AdaptersInit
  /\ vendors \subseteq {channel[h] : h \in Handlers}
  /\ part = "adapters" \/ (vendors = {} /\ \A h \in Handlers : channel[h] = "push")
  /\ PagesInit
  /\ \/ part = "pages"
     \/ list = [of |-> "places", only |-> "all"] /\ \A i \in Items : rows[i] = Absent

AccountNext ==
  /\ UNCHANGED <<part, evidence, plumbing, clients, exchange>>
  /\ \/ part = "auth" /\ AuthNext /\ UNCHANGED <<messagingState, settings>>
     \/ part = "messaging" /\ MessagingNext /\ UNCHANGED <<authState, settings>>
     \/ part = "settings" /\ SettingsNext /\ UNCHANGED <<authState, messagingState>>

EvidenceNext ==
  /\ UNCHANGED <<part, accountState, plumbing, clients, exchange>>
  /\ \/ part = "warnings" /\ WarningNext /\ UNCHANGED <<mediaState, evidenceState>>
     \/ part = "media" /\ MediaNext /\ UNCHANGED <<warningState, evidenceState>>
     \/ part = "confidence" /\ ConfidenceNext /\ UNCHANGED <<warningState, mediaState>>

PlumbingNext ==
  /\ UNCHANGED <<part, accountState, evidence, clients, exchange>>
  /\ \/ part = "routes" /\ RouteNext /\ UNCHANGED <<lookups, jobState>>
     \/ part = "lookups" /\ GeocodingNext /\ UNCHANGED <<routeState, jobState>>
     \/ part = "jobs" /\ JobNext /\ UNCHANGED <<routeState, lookups>>

ExchangeNext ==
  /\ UNCHANGED <<part, accountState, evidence, plumbing, clients>>
  /\ \/ part = "association" /\ AssociationNext /\ UNCHANGED <<adapterState, rateState>>
     \/ part = "adapters" /\ AdaptersNext /\ UNCHANGED <<reportState, rateState>>
     \/ part = "limits" /\ RateNext /\ UNCHANGED <<reportState, adapterState>>

\* The three screens, and the two ways to follow what the server holds.
ScreensNext ==
  \/ part = "search" /\ SearchNext /\ UNCHANGED <<liveState, homeState>>
  \/ part = "live" /\ LiveNext /\ UNCHANGED <<searchState, homeState>>
  \/ part = "home" /\ HomeNext /\ UNCHANGED <<searchState, liveState>>
FollowersNext ==
  \/ part = "feed" /\ FeedNext /\ UNCHANGED pageState
  \/ part = "pages" /\ PagesNext /\ UNCHANGED feedState

ClientsNext ==
  /\ UNCHANGED <<part, accountState, evidence, plumbing, exchange>>
  /\ \/ /\ part = "client" /\ ClientNext
        /\ UNCHANGED <<searchState, liveState, homeState, feedState, pageState>>
     \/ ScreensNext /\ UNCHANGED <<clientState, feedState, pageState>>
     \/ FollowersNext /\ UNCHANGED <<clientState, searchState, liveState, homeState>>

Next == AccountNext \/ EvidenceNext \/ PlumbingNext \/ ExchangeNext \/ ClientsNext

Spec == Init /\ [][Next]_vars

-----------------------------------------------------------------------------
(* The rows and the handlers' memory of each component are well typed.     *)
TypeOK ==
  /\ part = "auth" => AuthTypeOK
  /\ part = "messaging" => MessagingTypeOK
  /\ part = "settings" => SettingsTypeOK
  /\ part = "warnings" => WarningTypeOK
  /\ part = "media" => MediaTypeOK
  /\ part = "confidence" => ConfidenceTypeOK
  /\ part = "routes" => RouteTypeOK
  /\ part = "lookups" => GeocodingTypeOK
  /\ part = "jobs" => JobTypeOK
  /\ part = "association" => AssociationTypeOK
  /\ part = "adapters" => AdaptersTypeOK
  /\ part = "limits" => RateTypeOK
  /\ part = "client" => ClientTypeOK
  /\ part = "search" => SearchTypeOK
  /\ part = "live" => LiveTypeOK
  /\ part = "home" => HomeTypeOK
  /\ part = "feed" => FeedTypeOK
  /\ part = "pages" => PagesTypeOK

(* A revoked session is not revived by a rotation under way, nor a photo's *)
(* verdict changed by a completion under way.                              *)
FinalStaysFinal == RevokedIsFinal /\ VerdictFinal

(* No evidence lowers the confidence of an incident, but that of a newcomer *)
(* who is not verified, and time never raises it.                          *)
EvidenceCounts == [][part = "confidence" => EvidenceStep]_<<part, now, evidenceState>>

(* The route recommended is eligible by the weights and the limits, and    *)
(* what the two caches hold, and serve until it expires, is usable.        *)
PlanningSound == RecommendationSound /\ PreviewUsable /\ LookupsUsable

(* A report has no more photos than allowed, and an address is let through *)
(* no more often than the limit of a route allows.                         *)
LimitsHeld == AttachmentCap /\ RateHeld

(* The route search shows the answer for the choice made, the active route  *)
(* the route last received; and the home map draws the incidents the       *)
(* screen keeps, those of the area it shows if its own last feed brought   *)
(* them, which is all that a feed without a request guard gives.           *)
ScreensCurrent == AnswersAreLatest /\ LiveRouteCurrent /\ []HomeMapCurrent

(* Neither the incremental map feed nor a walk through the pages of a list *)
(* passes over a row, except in the ways the two modules name.             *)
ListsComplete == FeedComplete /\ WalkComplete
=============================================================================
