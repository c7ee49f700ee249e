------------------------------ MODULE RoutePlanning ------------------------------
(***************************************************************************)
(* A route preview: read through a cache, the provider's candidates are    *)
(* validated, rated one by one with the incidents then reported near them, *)
(* and one is recommended.                                                 *)
(*                                                                         *)
(* Ratios and weights are integers: the cost of a route is multiplied by   *)
(* the fastest duration and the shortest distance, and an overhead is in   *)
(* percent.  A risk score is a whole number up to MaxRisk.  A route takes   *)
(* some time and has some length.                                          *)
(***************************************************************************)
EXTENDS Requests, FiniteSetsExt

CONSTANTS
  Routes,         \* numbered as the provider lists and their fingerprints sort them
  Offers,         \* the provider's possible answers, sets of routes
  Duration, Distance,
  Malformed,      \* routes the provider's adapter drops
  Invalid,        \* routes validateCandidate refuses
  MaxRisk,
  RiskWeight, DurationWeight, DistanceWeight,
  MaximumOverhead,        \* maximumDurationOverheadRatio, in percent
  MinimumRiskImprovement,
  CacheTtl        \* routing.cacheTtlSeconds

Risks == 0 .. MaxRisk

ASSUME RoutesAssumption ==
  /\ Routes \subseteq Nat
  /\ Offers \subseteq SUBSET Routes
  /\ {Duration, Distance} \subseteq [Routes -> Nat \ {0}]
ASSUME PolicyAssumption ==
  {MaxRisk, RiskWeight, DurationWeight, DistanceWeight,
   MaximumOverhead, MinimumRiskImprovement, CacheTtl} \subseteq Nat

NoPreview == [risk |-> <<>>, recommended |-> NULL, reason |-> "none"]

VARIABLES
  reported, \* risk of the incidents that are active near each route now
  preview,  \* the cached response
  goodUntil \* when it expires

routeState == <<reported, preview, goodUntil>>
routeVars == <<routeState, environment>>

RouteInit ==
  /\ EnvironmentInit
  /\ reported = [r \in Routes |-> 0]
  /\ preview = NoPreview
  /\ goodUntil = 0

-----------------------------------------------------------------------------
(* The recommendation policy.                                              *)

Fastest(S) == Min({Duration[r] : r \in S})
Shortest(S) == Min({Distance[r] : r \in S})

\* Bug: every route is eligible.
EligibleAll(S) == S

Eligible(S) == {r \in S : Duration[r] * 100 <= Fastest(S) * (100 + MaximumOverhead)}

CombinedCost(S, risk, r) ==
  RiskWeight * risk[r] * Fastest(S) * Shortest(S)
    + DurationWeight * MaxRisk * (Duration[r] - Fastest(S)) * Shortest(S)
    + DistanceWeight * MaxRisk * (Distance[r] - Shortest(S)) * Fastest(S)

\* The order of the sort: by these, the earlier ones first.
SortKeys(S, risk, r) ==
  <<CombinedCost(S, risk, r), risk[r], Duration[r], Distance[r], r>>

Precedes(a, b) ==
  \E i \in DOMAIN a : a[i] < b[i] /\ \A j \in 1 .. i - 1 : a[j] = b[j]

Selected(S, risk) ==
  CHOOSE r \in Eligible(S) :
    \A other \in Eligible(S) \ {r} :
      Precedes(SortKeys(S, risk, r), SortKeys(S, risk, other))

\* The baseline: the fastest route, if possible one that is shortest as well.
Baseline(S) ==
  LET fast == {r \in S : Duration[r] = Fastest(S)}
      both == {r \in fast : Distance[r] = Shortest(S)}
  IN Min(IF both # {} THEN both ELSE fast)

ReasonFor(S, risk, r) ==
  IF \A other \in S : risk[other] = 0 THEN "FASTEST_AVAILABLE_ROUTE"
  ELSE IF risk[r] <= risk[Baseline(S)] - MinimumRiskImprovement
  THEN "LOWER_REPORTED_FLOOD_RISK"
  ELSE IF r = Baseline(S) THEN "FASTEST_AVAILABLE_ROUTE"
  ELSE "LOWEST_COMBINED_ROUTE_COST"

Recommend(risk) ==
  LET S == DOMAIN risk
      r == Selected(S, risk)
  IN [risk |-> risk, recommended |-> r, reason |-> ReasonFor(S, risk, r)]

-----------------------------------------------------------------------------
\* Incidents near a route are reported, confirmed, and expire.  No rating asks
\* for those near a route that is not valid.
ReportIncident(r, risk) ==
  /\ Single
  /\ reported' = [reported EXCEPT ![r] = risk]
  /\ UNCHANGED <<preview, goodUntil>>

Cached == preview # NoPreview /\ now < goodUntil

\* A hit is answered at once.  A preview for a re-route bypasses the cache,
\* and an error of the cache is as good as a miss.
CacheHit ==
  /\ Cached
  /\ Single
  /\ UNCHANGED routeState

CacheMiss(h) ==
  /\ Begin(h, "call-routing", Nothing)
  /\ UNCHANGED routeState

\* One invalid candidate fails them all.
Accepted(offered) ==
  IF offered \cap Invalid # {} THEN {} ELSE offered \ Malformed

ProviderAnswers(h, offered) ==
  /\ at[h] = "call-routing"
  /\ Accepted(offered) # {}
  /\ Proceed(h, "rate-route", [routes |-> Accepted(offered), risk |-> <<>>])
  /\ UNCHANGED routeState

\* An error, a timeout, which aborts the call, or no usable route.
ProviderFails(h) ==
  /\ at[h] = "call-routing"
  /\ Finish(h)
  /\ UNCHANGED routeState

\* The ratings are concurrent queries, one per route.
EvaluateRisk(h, r) ==
  /\ at[h] = "rate-route"
  /\ r \in mem[h].routes \ DOMAIN mem[h].risk
  /\ Proceed(h, "rate-route", [mem[h] EXCEPT !.risk =
       [s \in DOMAIN @ \cup {r} |-> IF s = r THEN reported[r] ELSE @[s]]])
  /\ UNCHANGED routeState

EvaluateFails(h) ==
  /\ at[h] = "rate-route"
  /\ Finish(h)
  /\ UNCHANGED routeState

\* Every candidate has its rating.
Rated(h) == at[h] = "rate-route" /\ DOMAIN mem[h].risk = mem[h].routes

WriteCache(h) ==
  /\ Rated(h)
  /\ preview' = Recommend(mem[h].risk)
  /\ goodUntil' = now + CacheTtl
  /\ Finish(h)
  /\ UNCHANGED reported

\* triggerHazard and the demo seed delete the route's entry.
ClearRouteCache ==
  /\ Single
  /\ preview' = NoPreview
  /\ UNCHANGED <<reported, goodUntil>>

RouteTick == PassTime /\ UNCHANGED routeState

RouteNext ==
  \/ \E h \in Handlers :
       \/ CacheMiss(h) \/ ProviderFails(h) \/ EvaluateFails(h) \/ WriteCache(h)
       \/ \E offered \in Offers : ProviderAnswers(h, offered)
       \/ \E r \in Routes : EvaluateRisk(h, r)
  \/ \E r \in Routes \ Invalid, risk \in Risks : ReportIncident(r, risk)
  \/ CacheHit
  \/ ClearRouteCache
  \/ RouteTick

RouteSpec == RouteInit /\ [][RouteNext]_routeVars

-----------------------------------------------------------------------------
RouteTypeOK ==
  /\ reported \in [Routes -> Risks]
  /\ preview = NoPreview \/ preview.recommended \in DOMAIN preview.risk
  /\ goodUntil \in Nat
  /\ \A h \in Handlers : at[h] = "rate-route" =>
       DOMAIN mem[h].risk \subseteq mem[h].routes /\ mem[h].routes \subseteq Routes

(* The recommended route takes no longer than the overhead allows over the *)
(* fastest one, and no other such route is as good by risk, duration and   *)
(* distance and better by one of them, at the risks read for each.         *)
RecommendationSound ==
  LET S == DOMAIN preview.risk
      chosen == preview.recommended
      asGood(r) == /\ preview.risk[r] <= preview.risk[chosen]
                   /\ Duration[r] <= Duration[chosen]
                   /\ Distance[r] <= Distance[chosen]
      better(r) == \/ preview.risk[r] < preview.risk[chosen]
                   \/ Duration[r] < Duration[chosen]
                   \/ Distance[r] < Distance[chosen]
  IN preview # NoPreview =>
       /\ \A r \in S : Duration[chosen] * 100 <= Duration[r] * (100 + MaximumOverhead)
       /\ \A r \in S \ {chosen} : ~(asGood(r) /\ better(r))

(* What is cached, and served until it expires, is usable: it holds routes *)
(* that are well formed and nothing else.                                  *)
PreviewUsable ==
  preview # NoPreview => DOMAIN preview.risk \cap (Malformed \cup Invalid) = {}
=============================================================================
