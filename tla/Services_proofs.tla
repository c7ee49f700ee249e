----------------------------- MODULE Services_proofs -----------------------------
(***************************************************************************)
(* Theorems about what serves the others, route planning, lookups, jobs,   *)
(* provider adapters and rate limits, and about all components as Services *)
(* composes them.                                                          *)
(***************************************************************************)
EXTENDS Services, Clients_proofs

(***************************************************************************)
(* RoutePlanning.                                                          *)
(***************************************************************************)

\* What the handlers are given is the routes that the adapter accepts, and
\* what they have read is the risks of some of these.
RouteMemory ==
  \A h \in Handlers : at[h] = "rate-route" =>
    /\ mem[h] = [routes |-> mem[h].routes, risk |-> mem[h].risk]
    /\ mem[h].routes \subseteq Routes \ (Malformed \cup Invalid) /\ mem[h].routes # {}
    /\ DOMAIN mem[h].risk \subseteq mem[h].routes
    /\ mem[h].risk \in [DOMAIN mem[h].risk -> Risks]

RouteTypes ==
  /\ Registers
  /\ reported \in [Routes -> Risks]
  /\ preview = NoPreview \/ preview.recommended \in DOMAIN preview.risk
  /\ goodUntil \in Nat

RouteInv == RouteTypes /\ RouteMemory /\ RecommendationSound /\ PreviewUsable

(* The least of what some routes have in a column. *)
LEMMA LeastOf ==
  ASSUME NEW S \in SUBSET Routes, S # {}, NEW column \in [Routes -> Nat \ {0}]
  PROVE  LET least == Min({column[r] : r \in S}) IN
         /\ least \in Nat
         /\ \A r \in S : least <= column[r]
         /\ \E r \in S : column[r] = least
<1> DEFINE values == {column[r] : r \in S}
<1>1. values \in SUBSET Nat /\ values # {}
  OBVIOUS
<1>2. \E u \in values : \A v \in values : u <= v
  BY <1>1, LeastExists
<1>3. Min(values) \in values /\ \A v \in values : Min(values) <= v
  BY <1>2 DEF Min
<1>. QED
  BY <1>1, <1>3

(* The fastest and the shortest of some routes. *)
LEMMA FastestAndShortest ==
  ASSUME NEW S \in SUBSET Routes, S # {}
  PROVE  /\ Fastest(S) \in Nat /\ Shortest(S) \in Nat
         /\ \A r \in S : Fastest(S) <= Duration[r] /\ Shortest(S) <= Distance[r]
         /\ \E r \in S : Duration[r] = Fastest(S)
<1>1. Duration \in [Routes -> Nat \ {0}] /\ Distance \in [Routes -> Nat \ {0}]
  BY RoutesAssumption
<1>. QED
  BY <1>1, LeastOf DEF Fastest, Shortest

(* The fastest route is eligible, and whatever is as fast as one that is.  *)
LEMMA EligibleRoutes ==
  ASSUME NEW S \in SUBSET Routes, S # {}
  PROVE  /\ Eligible(S) \subseteq S /\ Eligible(S) # {}
         /\ \A r \in S, c \in Eligible(S) : Duration[r] <= Duration[c] => r \in Eligible(S)
         /\ \A r \in S, c \in Eligible(S) :
              Duration[c] * 100 <= Duration[r] * (100 + MaximumOverhead)
<1>1. \A r \in S : Duration[r] \in Nat
  BY RoutesAssumption
<1>2. MaximumOverhead \in Nat /\ Fastest(S) \in Nat /\ Fastest(S) * MaximumOverhead \in Nat
  BY PolicyAssumption, FastestAndShortest
<1>3. Fastest(S) * (100 + MaximumOverhead) = Fastest(S) * 100 + Fastest(S) * MaximumOverhead
  BY <1>2
<1>4. Eligible(S) # {}
  <2>1. PICK r \in S : Duration[r] = Fastest(S)
    BY FastestAndShortest
  <2>2. Duration[r] * 100 <= Fastest(S) * (100 + MaximumOverhead)
    BY <1>2, <1>3, <2>1
  <2>. QED
    BY <2>2 DEF Eligible
<1>5. ASSUME NEW r \in S, NEW c \in Eligible(S), Duration[r] <= Duration[c]
      PROVE  r \in Eligible(S)
  <2>1. c \in S /\ Duration[c] * 100 <= Fastest(S) * (100 + MaximumOverhead)
    BY DEF Eligible
  <2>2. Duration[r] * 100 <= Duration[c] * 100
    BY <1>1, <1>5, <2>1
  <2>3. Fastest(S) * (100 + MaximumOverhead) \in Nat
    BY <1>2, <1>3
  <2>4. Duration[r] * 100 <= Fastest(S) * (100 + MaximumOverhead)
    BY <1>1, <2>1, <2>2, <2>3
  <2>. QED
    BY <2>4 DEF Eligible
<1>6. ASSUME NEW r \in S, NEW c \in Eligible(S)
      PROVE  Duration[c] * 100 <= Duration[r] * (100 + MaximumOverhead)
  <2>1. c \in S /\ Duration[c] * 100 <= Fastest(S) * (100 + MaximumOverhead)
    BY DEF Eligible
  <2>2. /\ Fastest(S) * (100 + MaximumOverhead) \in Nat
        /\ Duration[r] * (100 + MaximumOverhead) \in Nat
        /\ Fastest(S) * (100 + MaximumOverhead) <= Duration[r] * (100 + MaximumOverhead)
    BY <1>1, <1>2, FastestAndShortest, ProductGrows
  <2>3. Duration[c] * 100 \in Nat
    BY <1>1, <2>1
  <2>. QED
    BY <2>1, <2>2, <2>3
<1>. QED
  BY <1>4, <1>5, <1>6 DEF Eligible

(* The cost of a route is a number, and grows with its risk, duration and   *)
(* distance.                                                               *)
LEMMA CostGrows ==
  ASSUME NEW S \in SUBSET Routes, NEW risk \in [S -> Risks], NEW r \in S, NEW c \in S
  PROVE  /\ CombinedCost(S, risk, r) \in Nat
         /\ risk[r] <= risk[c] /\ Duration[r] <= Duration[c] /\ Distance[r] <= Distance[c]
              => CombinedCost(S, risk, r) <= CombinedCost(S, risk, c)
<1> DEFINE F == Fastest(S)
           D == Shortest(S)
           timed == DurationWeight * MaxRisk
           spaced == DistanceWeight * MaxRisk
<1>1. /\ S # {} /\ F \in Nat /\ D \in Nat
      /\ \A s \in S : F <= Duration[s] /\ D <= Distance[s]
  BY FastestAndShortest
<1>2. RiskWeight \in Nat /\ timed \in Nat /\ spaced \in Nat
  BY PolicyAssumption
<1>3. \A s \in S : /\ risk[s] \in Nat /\ Duration[s] \in Nat /\ Distance[s] \in Nat
                   /\ Duration[s] - F \in Nat /\ Distance[s] - D \in Nat
  BY <1>1, RoutesAssumption, PolicyAssumption DEF Risks
<1> HIDE DEF F, D, timed, spaced
<1> DEFINE byRisk(s) == RiskWeight * risk[s] * F * D
           byTime(s) == timed * (Duration[s] - F) * D
           byLength(s) == spaced * (Distance[s] - D) * F
<1>4. \A s \in S : byRisk(s) \in Nat /\ byTime(s) \in Nat /\ byLength(s) \in Nat
  <2> TAKE s \in S
  <2>1. RiskWeight * risk[s] \in Nat /\ timed * (Duration[s] - F) \in Nat
        /\ spaced * (Distance[s] - D) \in Nat
    BY <1>2, <1>3
  <2>2. RiskWeight * risk[s] * F \in Nat
    BY <1>1, <2>1
  <2>. QED
    BY <1>1, <2>1, <2>2
<1>5. CombinedCost(S, risk, r) = byRisk(r) + byTime(r) + byLength(r)
      /\ CombinedCost(S, risk, c) = byRisk(c) + byTime(c) + byLength(c)
  BY DEF CombinedCost, F, D, timed, spaced
<1>6. ASSUME risk[r] <= risk[c], Duration[r] <= Duration[c], Distance[r] <= Distance[c]
      PROVE  byRisk(r) <= byRisk(c) /\ byTime(r) <= byTime(c) /\ byLength(r) <= byLength(c)
  <2>1. ASSUME NEW w \in Nat, NEW a \in Nat, NEW b \in Nat, a <= b, NEW k \in Nat
        PROVE  /\ w * a \in Nat /\ w * b \in Nat /\ w * a <= w * b
               /\ w * a * k \in Nat /\ w * b * k \in Nat /\ w * a * k <= w * b * k
    <3>1. w * a = a * w /\ w * b = b * w
      BY <2>1
    <3>2. w * a \in Nat /\ w * b \in Nat /\ w * a <= w * b
      BY <2>1, <3>1, ProductGrows
    <3>. QED
      BY <2>1, <3>2, ProductGrows
  <2>2. RiskWeight * risk[r] * F <= RiskWeight * risk[c] * F
    BY <1>1, <1>2, <1>3, <1>6, <2>1
  <2>3. RiskWeight * risk[r] * F \in Nat /\ RiskWeight * risk[c] * F \in Nat
    BY <1>1, <1>2, <1>3, <1>6, <2>1
  <2>4. byRisk(r) <= byRisk(c)
    BY <1>1, <2>2, <2>3, ProductGrows
  <2>5. Duration[r] - F <= Duration[c] - F /\ Distance[r] - D <= Distance[c] - D
    BY <1>1, <1>3, <1>6, RoutesAssumption
  <2>6. byTime(r) <= byTime(c)
    BY <1>1, <1>2, <1>3, <2>1, <2>5
  <2>7. byLength(r) <= byLength(c)
    BY <1>1, <1>2, <1>3, <2>1, <2>5
  <2>. QED
    BY <2>4, <2>6, <2>7
<1> HIDE DEF byRisk, byTime, byLength
<1>. QED
  BY <1>4, <1>5, <1>6

(* The first of some routes, by the order of the sort. *)
LEMMA FirstExists ==
  ASSUME NEW S \in SUBSET Routes, NEW risk \in [S -> Risks], NEW E \in SUBSET S, E # {}
  PROVE  \E r \in E : \A other \in E \ {r} :
           Precedes(SortKeys(S, risk, r), SortKeys(S, risk, other))
<1> DEFINE key(r) == SortKeys(S, risk, r)
<1>1. \A r \in S : /\ key(r)[1] \in Nat /\ key(r)[2] \in Nat /\ key(r)[3] \in Nat
                   /\ key(r)[4] \in Nat /\ key(r)[5] = r /\ r \in Nat
                   /\ DOMAIN key(r) = 1 .. 5
  BY CostGrows, RoutesAssumption, PolicyAssumption DEF SortKeys, Risks
<1>2. \A k \in 1 .. 5, T \in SUBSET E : T # {} => \E r \in T : \A s \in T : key(r)[k] <= key(s)[k]
  <2> SUFFICES ASSUME NEW k \in 1 .. 5, NEW T \in SUBSET E, T # {}
               PROVE  \E r \in T : \A s \in T : key(r)[k] <= key(s)[k]
    OBVIOUS
  <2> DEFINE column == {key(r)[k] : r \in T}
  <2>1. \A r \in T : key(r)[k] \in Nat
    BY <1>1
  <2> HIDE DEF key
  <2>2. column \in SUBSET Nat /\ column # {}
    BY <2>1
  <2>3. PICK u \in column : \A v \in column : u <= v
    BY <2>2, LeastExists
  <2>. QED
    BY <2>3
<1> HIDE DEF key
<1> DEFINE first(T, k) == {r \in T : \A s \in T : key(r)[k] <= key(s)[k]}
           E1 == first(E, 1)
           E2 == first(E1, 2)
           E3 == first(E2, 3)
           E4 == first(E3, 4)
           E5 == first(E4, 5)
<1>3. \A k \in 1 .. 5, T \in SUBSET E : T # {} => first(T, k) # {} /\ first(T, k) \in SUBSET E
  BY <1>2
<1> HIDE DEF first
<1>4. /\ E1 # {} /\ E1 \in SUBSET E /\ E2 # {} /\ E2 \in SUBSET E
      /\ E3 # {} /\ E3 \in SUBSET E /\ E4 # {} /\ E4 \in SUBSET E
      /\ E5 # {} /\ E5 \in SUBSET E
  BY <1>3
<1>5. PICK r \in E5 : TRUE
  BY <1>4
<1>6. /\ r \in E1 /\ r \in E2 /\ r \in E3 /\ r \in E4 /\ r \in E
      /\ \A s \in E : key(r)[1] <= key(s)[1]
      /\ \A s \in E1 : key(r)[2] <= key(s)[2]
      /\ \A s \in E2 : key(r)[3] <= key(s)[3]
      /\ \A s \in E3 : key(r)[4] <= key(s)[4]
      /\ \A s \in E4 : key(r)[5] <= key(s)[5]
  BY <1>5 DEF first
<1>7. ASSUME NEW other \in E, other # r
      PROVE  Precedes(key(r), key(other))
  <2>1. other \in S /\ r \in S
    BY <1>6
  <2>2. /\ key(other)[1] = key(r)[1] => other \in E1
        /\ other \in E1 /\ key(other)[2] = key(r)[2] => other \in E2
        /\ other \in E2 /\ key(other)[3] = key(r)[3] => other \in E3
        /\ other \in E3 /\ key(other)[4] = key(r)[4] => other \in E4
    BY <1>6 DEF first
  <2>3. \/ key(r)[1] < key(other)[1]
        \/ key(r)[1] = key(other)[1] /\ key(r)[2] < key(other)[2]
        \/ key(r)[1] = key(other)[1] /\ key(r)[2] = key(other)[2] /\ key(r)[3] < key(other)[3]
        \/ /\ key(r)[1] = key(other)[1] /\ key(r)[2] = key(other)[2]
           /\ key(r)[3] = key(other)[3] /\ key(r)[4] < key(other)[4]
        \/ /\ key(r)[1] = key(other)[1] /\ key(r)[2] = key(other)[2]
           /\ key(r)[3] = key(other)[3] /\ key(r)[4] = key(other)[4]
           /\ key(r)[5] < key(other)[5]
    BY <1>1, <1>6, <1>7, <2>1, <2>2
  <2>. QED
    BY <1>1, <2>1, <2>3 DEF Precedes
<1>. QED
  BY <1>6, <1>7 DEF key

(* The route that is selected is eligible, and none that is as good is     *)
(* better.                                                                 *)
LEMMA SelectedIsBest ==
  ASSUME NEW S \in SUBSET Routes, S # {}, NEW risk \in [S -> Risks]
  PROVE  LET c == Selected(S, risk) IN
         /\ c \in S
         /\ \A r \in S : Duration[c] * 100 <= Duration[r] * (100 + MaximumOverhead)
         /\ \A r \in S \ {c} :
              risk[r] <= risk[c] /\ Duration[r] <= Duration[c] /\ Distance[r] <= Distance[c] =>
                risk[r] = risk[c] /\ Duration[r] = Duration[c] /\ Distance[r] = Distance[c]
<1> DEFINE c == Selected(S, risk)
           key(r) == SortKeys(S, risk, r)
<1>1. /\ c \in Eligible(S)
      /\ \A other \in Eligible(S) \ {c} : Precedes(key(c), key(other))
  <2>1. \E r \in Eligible(S) : \A other \in Eligible(S) \ {r} :
          Precedes(SortKeys(S, risk, r), SortKeys(S, risk, other))
    <3>1. Eligible(S) \in SUBSET S /\ Eligible(S) # {}
      BY EligibleRoutes
    <3>. QED
      BY <3>1, FirstExists
  <2>. QED
    BY <2>1 DEF Selected
<1> HIDE DEF c
<1>2. c \in S /\ \A r \in S : Duration[c] * 100 <= Duration[r] * (100 + MaximumOverhead)
  BY <1>1, EligibleRoutes
<1>3. ASSUME NEW r \in S \ {c},
             risk[r] <= risk[c], Duration[r] <= Duration[c], Distance[r] <= Distance[c]
      PROVE  risk[r] = risk[c] /\ Duration[r] = Duration[c] /\ Distance[r] = Distance[c]
  <2>1. Precedes(key(c), key(r))
    BY <1>1, <1>3, EligibleRoutes
  <2>2. /\ CombinedCost(S, risk, r) \in Nat /\ CombinedCost(S, risk, c) \in Nat
        /\ CombinedCost(S, risk, r) <= CombinedCost(S, risk, c)
    BY <1>2, <1>3, CostGrows
  <2>3. /\ risk[r] \in Nat /\ risk[c] \in Nat /\ Duration[r] \in Nat /\ Duration[c] \in Nat
        /\ Distance[r] \in Nat /\ Distance[c] \in Nat
    BY <1>2, RoutesAssumption, PolicyAssumption DEF Risks
  <2>4. PICK i \in 1 .. 5 : key(c)[i] < key(r)[i] /\ \A j \in 1 .. i - 1 : key(c)[j] = key(r)[j]
    <3>1. DOMAIN key(c) = 1 .. 5
      BY DEF SortKeys
    <3>. QED
      BY <2>1, <3>1, Zenon DEF Precedes
  <2>5. /\ key(c)[1] = CombinedCost(S, risk, c) /\ key(r)[1] = CombinedCost(S, risk, r)
        /\ key(c)[2] = risk[c] /\ key(r)[2] = risk[r]
        /\ key(c)[3] = Duration[c] /\ key(r)[3] = Duration[r]
        /\ key(c)[4] = Distance[c] /\ key(r)[4] = Distance[r]
    BY DEF SortKeys
  <2> HIDE DEF key
  <2>6. i = 5
    BY <1>3, <2>2, <2>3, <2>4, <2>5
  <2>. QED
    BY <2>4, <2>5, <2>6
<1>. QED
  BY <1>2, <1>3 DEF c

(* There is no preview. *)
LEMMA RouteStarts == RouteInit => RouteInv
<1> SUFFICES ASSUME RouteInit PROVE RouteInv
  OBVIOUS
<1>1. Registers /\ \A h \in Handlers : at[h] = Free
  BY RegistersStart DEF RouteInit
<1>2. RouteTypes /\ RouteMemory
  BY <1>1, PolicyAssumption DEF RouteTypes, RouteMemory, RouteInit, Risks, Free
<1>3. RecommendationSound /\ PreviewUsable
  BY DEF RecommendationSound, PreviewUsable, RouteInit
<1>. QED
  BY <1>2, <1>3 DEF RouteInv

(* Every step keeps the invariant. *)
LEMMA RouteStep == RouteInv /\ [RouteNext]_routeVars => RouteInv'
<1> SUFFICES ASSUME RouteInv, [RouteNext]_routeVars PROVE RouteInv'
  OBVIOUS
<1>1. RouteTypes /\ RouteMemory /\ RecommendationSound /\ PreviewUsable /\ Registers
  BY DEF RouteInv, RouteTypes
<1>2. ASSUME UNCHANGED <<preview, goodUntil>> PROVE RecommendationSound' /\ PreviewUsable'
  BY <1>1, <1>2 DEF RecommendationSound, PreviewUsable
<1>3. CASE \/ RouteTick \/ CacheHit \/ UNCHANGED routeVars
  <2>1. Registers' /\ UNCHANGED <<at, mem, routeState>>
    BY <1>1, <1>3, ClockMoves
       DEF RouteTick, CacheHit, Single, routeVars, environment, requests, Registers
  <2>2. RouteTypes' /\ RouteMemory'
    BY <1>1, <2>1 DEF RouteTypes, RouteMemory, routeState
  <2>. QED
    BY <1>2, <2>1, <2>2 DEF RouteInv, routeState
<1>4. ASSUME NEW r \in Routes, NEW risk \in Risks, ReportIncident(r, risk) PROVE RouteInv'
  <2>1. Registers' /\ UNCHANGED <<at, mem, preview, goodUntil>>
    BY <1>1, <1>4 DEF ReportIncident, Single, Registers
  <2>2. reported' \in [Routes -> Risks]
    BY <1>1, <1>4 DEF ReportIncident, RouteTypes
  <2>3. RouteTypes' /\ RouteMemory'
    BY <1>1, <2>1, <2>2 DEF RouteTypes, RouteMemory
  <2>. QED
    BY <1>2, <2>1, <2>3 DEF RouteInv
<1>5. CASE ClearRouteCache
  <2>1. Registers' /\ UNCHANGED <<at, mem, reported, goodUntil>> /\ preview' = NoPreview
    BY <1>1, <1>5 DEF ClearRouteCache, Single, Registers
  <2>. QED
    BY <1>1, <2>1 DEF RouteInv, RouteTypes, RouteMemory, RecommendationSound, PreviewUsable
<1>6. ASSUME NEW h \in Handlers, CacheMiss(h) \/ ProviderFails(h) \/ EvaluateFails(h)
      PROVE  RouteInv'
  <2>1. /\ Registers' /\ at'[h] # "rate-route" /\ UNCHANGED routeState
        /\ \A g \in Handlers \ {h} : at'[g] = at[g] /\ mem'[g] = mem[g]
    <3>1. \/ Begin(h, "call-routing", Nothing) \/ Proceed(h, Free, Nothing)
      BY <1>6 DEF CacheMiss, ProviderFails, EvaluateFails, Finish
    <3>2. UNCHANGED routeState
      BY <1>6 DEF CacheMiss, ProviderFails, EvaluateFails
    <3>. QED
      BY <1>1, <3>1, <3>2, HandlerMoves DEF Free
  <2>2. RouteTypes' /\ RouteMemory'
    BY <1>1, <2>1 DEF RouteTypes, RouteMemory, routeState
  <2>. QED
    BY <1>2, <2>1, <2>2 DEF RouteInv, routeState
<1>7. ASSUME NEW h \in Handlers, NEW offered \in Offers, ProviderAnswers(h, offered)
      PROVE  RouteInv'
  <2> DEFINE memory == [routes |-> Accepted(offered), risk |-> <<>>]
  <2>1. /\ Registers' /\ at'[h] = "rate-route" /\ mem'[h] = memory /\ UNCHANGED routeState
        /\ \A g \in Handlers \ {h} : at'[g] = at[g] /\ mem'[g] = mem[g]
        /\ Accepted(offered) # {}
    BY <1>1, <1>7, HandlerMoves DEF ProviderAnswers
  <2>2. Accepted(offered) \subseteq Routes \ (Malformed \cup Invalid)
    BY RoutesAssumption DEF Accepted
  <2>3. RouteTypes'
    BY <1>1, <2>1 DEF RouteTypes, routeState
  <2>4. RouteMemory'
    <3>1. DOMAIN memory.risk = {} /\ memory.risk \in [{} -> Risks]
      OBVIOUS
    <3>2. /\ memory = [routes |-> memory.routes, risk |-> memory.risk]
          /\ memory.routes = Accepted(offered)
      OBVIOUS
    <3> HIDE DEF memory
    <3>3. memory.routes \subseteq Routes \ (Malformed \cup Invalid) /\ memory.routes # {}
      BY <2>1, <2>2, <3>2, Zenon
    <3>. QED
      BY <1>1, <2>1, <3>1, <3>2, <3>3 DEF RouteMemory
  <2>. QED
    BY <1>2, <2>1, <2>3, <2>4 DEF RouteInv, routeState
<1>8. ASSUME NEW h \in Handlers, NEW r \in Routes, EvaluateRisk(h, r) PROVE RouteInv'
  <2> DEFINE rated == mem[h].risk
             found == [s \in DOMAIN rated \cup {r} |-> IF s = r THEN reported[r] ELSE rated[s]]
             memory == [mem[h] EXCEPT !.risk = found]
  <2>1. /\ Registers' /\ at'[h] = "rate-route" /\ mem'[h] = memory /\ UNCHANGED routeState
        /\ \A g \in Handlers \ {h} : at'[g] = at[g] /\ mem'[g] = mem[g]
        /\ at[h] = "rate-route" /\ r \in mem[h].routes
    BY <1>1, <1>8, HandlerMoves DEF EvaluateRisk
  <2>2. /\ mem[h] = [routes |-> mem[h].routes, risk |-> rated]
        /\ mem[h].routes \subseteq Routes \ (Malformed \cup Invalid) /\ mem[h].routes # {}
        /\ DOMAIN rated \subseteq mem[h].routes /\ rated \in [DOMAIN rated -> Risks]
    BY <1>1, <2>1 DEF RouteMemory
  <2>3. memory = [routes |-> mem[h].routes, risk |-> found]
    BY <2>2
  <2>4. DOMAIN found \subseteq mem[h].routes /\ found \in [DOMAIN found -> Risks]
    BY <1>1, <2>1, <2>2 DEF RouteTypes
  <2> HIDE DEF rated, found, memory
  <2>5. RouteMemory'
    BY <1>1, <2>1, <2>2, <2>3, <2>4 DEF RouteMemory
  <2>6. RouteTypes'
    BY <1>1, <2>1 DEF RouteTypes, routeState
  <2>. QED
    BY <1>2, <2>1, <2>5, <2>6 DEF RouteInv, routeState
<1>9. ASSUME NEW h \in Handlers, WriteCache(h) PROVE RouteInv'
  <2> DEFINE S == mem[h].routes
             risk == mem[h].risk
  <2>1. /\ Registers' /\ at'[h] = Free /\ now' = now /\ UNCHANGED reported
        /\ \A g \in Handlers \ {h} : at'[g] = at[g] /\ mem'[g] = mem[g]
        /\ preview' = Recommend(risk) /\ goodUntil' = now + CacheTtl
        /\ at[h] = "rate-route" /\ DOMAIN risk = S
    BY <1>1, <1>9, HandlerMoves DEF WriteCache, Rated, Finish
  <2>2. S \in SUBSET Routes /\ S # {} /\ S \cap (Malformed \cup Invalid) = {} /\ risk \in [S -> Risks]
    <3>1. /\ S \subseteq Routes \ (Malformed \cup Invalid) /\ S # {}
          /\ risk \in [DOMAIN risk -> Risks]
      BY <1>1, <2>1 DEF RouteMemory
    <3>2. risk \in [S -> Risks]
      BY <2>1, <3>1, Zenon
    <3> HIDE DEF S, risk
    <3>3. S \subseteq Routes /\ S # {} /\ S \cap (Malformed \cup Invalid) = {}
      BY <3>1, Zenon
    <3>. QED
      BY <3>2, <3>3, Zenon
  <2>3. preview'.risk = risk /\ preview'.recommended = Selected(S, risk)
    BY <2>1 DEF Recommend
  <2> HIDE DEF S, risk
  <2>4. RecommendationSound' /\ PreviewUsable'
    <3> DEFINE c == Selected(S, risk)
    <3>1. /\ c \in S
          /\ \A r \in S : Duration[c] * 100 <= Duration[r] * (100 + MaximumOverhead)
          /\ \A r \in S \ {c} :
               risk[r] <= risk[c] /\ Duration[r] <= Duration[c] /\ Distance[r] <= Distance[c] =>
                 risk[r] = risk[c] /\ Duration[r] = Duration[c] /\ Distance[r] = Distance[c]
      BY <2>2, SelectedIsBest
    <3>2. \A r \in S : risk[r] \in Nat /\ Duration[r] \in Nat /\ Distance[r] \in Nat
      BY <2>2, RoutesAssumption, PolicyAssumption DEF Risks
    <3> HIDE DEF c
    <3>3. preview'.recommended = c /\ preview'.risk = risk /\ DOMAIN risk = S
      BY <2>1, <2>3 DEF c
    <3>. QED
      BY <2>2, <3>1, <3>2, <3>3 DEF RecommendationSound, PreviewUsable
  <2>5. preview'.recommended \in DOMAIN preview'.risk
    BY <2>1, <2>2, <2>3, SelectedIsBest
  <2>6. goodUntil' \in Nat
    BY <1>1, <2>1, PolicyAssumption, RequestsAssumption DEF Registers, Times
  <2>7. RouteTypes' /\ RouteMemory'
    BY <1>1, <2>1, <2>5, <2>6 DEF RouteTypes, RouteMemory, Free
  <2>. QED
    BY <2>4, <2>7 DEF RouteInv
<1>. QED
  BY <1>3, <1>4, <1>5, <1>6, <1>7, <1>8, <1>9 DEF RouteNext

(* For any routes, weights, limits and changes of the risks: the route     *)
(* recommended is eligible and none that is as good is better.             *)
THEOREM RecommendationIsSound == RouteSpec => []RecommendationSound
<1>1. RouteInv => RecommendationSound
  BY DEF RouteInv
<1>. QED
  BY RouteStarts, RouteStep, <1>1, PTL DEF RouteSpec

(***************************************************************************)
(* Geocoding.                                                              *)
(***************************************************************************)

\* A handler keeps the operation it serves, and then places that are valid.
LookupMemory ==
  /\ \A h \in Handlers : at[h] = "call-geocoder" => mem[h] \in Operations
  /\ \A h \in Handlers : at[h] = "store-lookup" =>
       /\ mem[h].operation \in Operations
       /\ mem[h].places \subseteq Locations \ Shapeless
       /\ ValidPlaces(mem[h].operation, mem[h].places)

LookupInv == Registers /\ GeocodingTypeOK /\ LookupMemory /\ LookupsUsable

(* Nothing is cached. *)
LEMMA LookupStarts == GeocodingInit => LookupInv
<1> SUFFICES ASSUME GeocodingInit PROVE LookupInv
  OBVIOUS
<1>1. Registers /\ \A h \in Handlers : at[h] = Free
  BY RegistersStart DEF GeocodingInit
<1>2. GeocodingTypeOK /\ LookupMemory /\ LookupsUsable
  BY <1>1 DEF GeocodingInit, GeocodingTypeOK, LookupMemory, LookupsUsable, NoLookup, Free
<1>. QED
  BY <1>1, <1>2 DEF LookupInv

(* Every step keeps the invariant. *)
LEMMA LookupStep == LookupInv /\ [GeocodingNext]_geocodingVars => LookupInv'
<1> SUFFICES ASSUME LookupInv, [GeocodingNext]_geocodingVars PROVE LookupInv'
  OBVIOUS
<1>1. Registers /\ GeocodingTypeOK /\ LookupMemory /\ LookupsUsable
  BY DEF LookupInv
<1>2. CASE GeocodingTick \/ UNCHANGED geocodingVars \/ \E o \in Operations : LookupHit(o)
  <2>1. Registers' /\ UNCHANGED <<at, mem, lookups>>
    BY <1>1, <1>2, ClockMoves
       DEF GeocodingTick, LookupHit, Single, geocodingVars, environment, requests, Registers
  <2>. QED
    BY <1>1, <2>1 DEF LookupInv, GeocodingTypeOK, LookupMemory, LookupsUsable
<1>3. ASSUME NEW h \in Handlers, NEW o \in Operations, LookupMiss(h, o) PROVE LookupInv'
  <2>1. /\ Registers' /\ at'[h] = "call-geocoder" /\ mem'[h] = o /\ UNCHANGED lookups
        /\ \A g \in Handlers \ {h} : at'[g] = at[g] /\ mem'[g] = mem[g]
    BY <1>1, <1>3, HandlerMoves DEF LookupMiss
  <2>. QED
    BY <1>1, <2>1 DEF LookupInv, GeocodingTypeOK, LookupMemory, LookupsUsable
<1>4. ASSUME NEW h \in Handlers, GeocoderFails(h) \/ StoreFails(h) PROVE LookupInv'
  <2>1. /\ Registers' /\ at'[h] = Free /\ UNCHANGED lookups
        /\ \A g \in Handlers \ {h} : at'[g] = at[g] /\ mem'[g] = mem[g]
    BY <1>1, <1>4, HandlerMoves DEF GeocoderFails, StoreFails, Finish
  <2>. QED
    BY <1>1, <2>1 DEF LookupInv, GeocodingTypeOK, LookupMemory, LookupsUsable, Free
<1>5. ASSUME NEW h \in Handlers, NEW answer \in SUBSET Locations, GeocoderAnswers(h, answer)
      PROVE  LookupInv'
  <2> DEFINE places == answer \ Shapeless
             memory == [operation |-> mem[h], places |-> places]
  <2>1. /\ Registers' /\ at'[h] = "store-lookup" /\ mem'[h] = memory /\ UNCHANGED lookups
        /\ \A g \in Handlers \ {h} : at'[g] = at[g] /\ mem'[g] = mem[g]
        /\ ValidPlaces(mem[h], places) /\ mem[h] \in Operations
    BY <1>1, <1>5, HandlerMoves DEF GeocoderAnswers, LookupMemory
  <2>2. memory.operation = mem[h] /\ memory.places = places /\ places \subseteq Locations \ Shapeless
    OBVIOUS
  <2> HIDE DEF places, memory
  <2>3. LookupMemory'
    BY <1>1, <2>1, <2>2 DEF LookupMemory
  <2>. QED
    BY <1>1, <2>1, <2>3 DEF LookupInv, GeocodingTypeOK, LookupsUsable
<1>6. ASSUME NEW h \in Handlers, StoreLookup(h) PROVE LookupInv'
  <2> DEFINE o == mem[h].operation
             row == [places |-> mem[h].places, goodUntil |-> now + LookupCacheTtl]
  <2>1. /\ Registers' /\ at'[h] = Free /\ lookups' = [lookups EXCEPT ![o] = row]
        /\ \A g \in Handlers \ {h} : at'[g] = at[g] /\ mem'[g] = mem[g]
        /\ at[h] = "store-lookup"
    BY <1>1, <1>6, HandlerMoves DEF StoreLookup, Finish
  <2>2. /\ o \in Operations /\ row.places \subseteq Locations \ Shapeless
        /\ ValidPlaces(o, row.places)
    BY <1>1, <2>1 DEF LookupMemory
  <2>3. row \in [places : SUBSET (Locations \ Shapeless), goodUntil : Nat]
    BY <1>1, <2>2, LookupAssumption, RequestsAssumption DEF Registers, Times
  <2>4. /\ row.places \cap Unacceptable = {}
        /\ IF o = "search" THEN Cardinality(row.places) <= MaxLocations ELSE row.places # {}
    <3>1. row.places = {} => Cardinality(row.places) = 0
      BY FS_EmptySet
    <3>. QED
      BY <2>2, <3>1 DEF ValidPlaces
  <2> HIDE DEF o, row
  <2>5. lookups'[o] = row /\ \A p \in Operations \ {o} : lookups'[p] = lookups[p]
    BY <1>1, <2>1, <2>2 DEF GeocodingTypeOK
  <2>6. GeocodingTypeOK' /\ LookupMemory'
    BY <1>1, <2>1, <2>2, <2>3 DEF GeocodingTypeOK, LookupMemory, Free
  <2>7. LookupsUsable'
    BY <1>1, <2>4, <2>5 DEF LookupsUsable
  <2>. QED
    BY <2>1, <2>6, <2>7 DEF LookupInv
<1>. QED
  BY <1>2, <1>3, <1>4, <1>5, <1>6 DEF GeocodingNext

(***************************************************************************)
(* JobPipeline.                                                            *)
(***************************************************************************)

\* The jobs that an event may lead to: its own, that of navigation, and the
\* evaluation of alerts that a hazard, a request or a warning's job adds.
EventJob(name, e) == Job(name, e, RequiredField(name))
NavigationJob(e) == Job("evaluate-navigation", e, "incidentId")
HazardAlert(e) == Job("evaluate-alerts", e, "incidentId")
RequestAlert(e) == AlertEvaluation(e, Nothing)
WarningAlert(e) == AlertEvaluation(e, EventJob("warning", e))
IdsOf(e) ==
  {EventJob("change", e), EventJob("warning", e), NavigationJob(e), HazardAlert(e),
   RequestAlert(e), WarningAlert(e)}

JobRow == [state : {"waiting", "active", "completed", "failed"}, made : 0 .. Attempts]

\* A job that is to be run, or runs, has an attempt left.
JobRows ==
  /\ begun \in Nat
  /\ \A id \in DOMAIN jobs : id.event \in 1 .. begun /\ id \in IdsOf(id.event)
  /\ jobs \in [DOMAIN jobs -> JobRow]
  /\ \A job \in DOMAIN jobs : jobs[job].state \in {"waiting", "active"} => jobs[job].made < Attempts
  /\ extended \cup struck \subseteq 1 .. begun

\* The handler runs a job, and that of a change or a warning.
Holds(h) ==
  \/ at[h] \in {"recalculate", "evaluate", "complete"}
  \/ at[h] \in {"add-alert", "add-navigation"} /\ mem[h].job # Nothing
Dispatches(h) == Holds(h) /\ at[h] # "evaluate"

\* The event that a handler serves, of a hazard, for a request, and for a job.
ServesHazard(h, e) == at[h] \in {"add-demo-navigation", "add-demo-alert"} /\ mem[h] = e
ServesRequest(h, e) ==
  at[h] \in {"add-alert", "add-navigation"} /\ mem[h].job = Nothing /\ mem[h].event = e
ServesEvent(h, e) == (at[h] = "add-event" \/ Dispatches(h)) /\ mem[h].event = e

\* What a handler keeps of it.
EventKept(h) ==
  /\ \A e : ServesHazard(h, e) \/ ServesRequest(h, e) \/ ServesEvent(h, e) => e \in 1 .. begun
  /\ at[h] = "add-event" =>
       mem[h] \in {EventJob("change", mem[h].event), EventJob("warning", mem[h].event)}
  /\ Holds(h) => mem[h].job.event = mem[h].event /\ mem[h].event \in 1 .. begun
  /\ Dispatches(h) =>
       mem[h].job \in {EventJob("change", mem[h].event), EventJob("warning", mem[h].event)}
  /\ at[h] = "recalculate" => mem[h].job.name = "change"
  /\ at[h] = "evaluate" => mem[h].job.name \in Evaluations

\* What the run of a job has come to.
RunSoFar(h) ==
  /\ Dispatches(h) /\ at[h] # "recalculate" /\ mem[h].job.name = "change" =>
       mem[h].event \in extended
  /\ Dispatches(h) /\ at[h] \in {"add-navigation", "complete"} =>
       JobsOf("evaluate-alerts", mem[h].event) # {}

\* A job that is run is run by one handler.
HoldsAlone(h) ==
  Holds(h) =>
    /\ mem[h].job \in DOMAIN jobs /\ jobs[mem[h].job].state = "active"
    /\ \A g \in Handlers \ {h} : Holds(g) => mem[g].job # mem[h].job

HandlerSound(h) == EventKept(h) /\ RunSoFar(h) /\ HoldsAlone(h)

\* The traces of an event: of a hazard, of a request that adds the evaluations
\* itself, and of one that has a job of its own.
FromHazard(e) ==
  (\E h \in Handlers : ServesHazard(h, e)) \/ HazardAlert(e) \in DOMAIN jobs
FromRequest(e) ==
  (\E h \in Handlers : ServesRequest(h, e)) \/ RequestAlert(e) \in DOMAIN jobs
FromEvent(e) ==
  \/ \E h \in Handlers : ServesEvent(h, e)
  \/ \E id \in {EventJob("change", e), EventJob("warning", e), WarningAlert(e)} : id \in DOMAIN jobs

\* No event leaves two of them, so that no two jobs evaluate the alerts of one.
Separate ==
  \A e \in 1 .. begun :
    /\ ~(FromHazard(e) /\ FromRequest(e))
    /\ ~(FromHazard(e) /\ FromEvent(e))
    /\ ~(FromRequest(e) /\ FromEvent(e))

JobsEnd ==
  \A job \in DOMAIN jobs :
    /\ job.name \notin Evaluations /\ jobs[job].state = "completed" =>
         JobsOf("evaluate-alerts", job.event) # {}
    /\ jobs[job].state = "failed" /\ job.event \notin struck =>
         job.name = "change" /\ job.event \in extended

JobInv ==
  Registers /\ JobRows /\ (\A h \in Handlers : HandlerSound(h)) /\ Separate /\ JobsEnd

(* The jobs of an event, written out. *)
LEMMA IdForms ==
  \A e :
    /\ EventJob("change", e) =
         [name |-> "change", event |-> e, field |-> "incidentId", salt |-> 0, parts |-> 1]
    /\ EventJob("warning", e) =
         [name |-> "warning", event |-> e, field |-> "warningId", salt |-> 0, parts |-> 3]
    /\ NavigationJob(e) =
         [name |-> "evaluate-navigation", event |-> e, field |-> "incidentId",
          salt |-> 0, parts |-> 1]
    /\ HazardAlert(e) =
         [name |-> "evaluate-alerts", event |-> e, field |-> "incidentId", salt |-> 0, parts |-> 1]
    /\ RequestAlert(e) =
         [name |-> "evaluate-alerts", event |-> e, field |-> "sourceId", salt |-> 0, parts |-> 1]
    /\ WarningAlert(e) =
         [name |-> "evaluate-alerts", event |-> e, field |-> "sourceId", salt |-> 0, parts |-> 3]
<1> TAKE e
<1>1. EventJob("change", e) =
        [name |-> "change", event |-> e, field |-> "incidentId", salt |-> 0, parts |-> 1]
  BY DEF EventJob, Job, RequiredField
<1>2. EventJob("warning", e) =
        [name |-> "warning", event |-> e, field |-> "warningId", salt |-> 0, parts |-> 3]
  BY DEF EventJob, Job, RequiredField
<1>3. /\ NavigationJob(e) =
           [name |-> "evaluate-navigation", event |-> e, field |-> "incidentId",
          salt |-> 0, parts |-> 1]
      /\ HazardAlert(e) =
           [name |-> "evaluate-alerts", event |-> e, field |-> "incidentId", salt |-> 0, parts |-> 1]
  BY DEF NavigationJob, HazardAlert, Job
<1>4. Job("evaluate-alerts", e, "sourceId") =
        [name |-> "evaluate-alerts", event |-> e, field |-> "sourceId", salt |-> 0, parts |-> 1]
  BY DEF Job
<1>5. RequestAlert(e) =
        [name |-> "evaluate-alerts", event |-> e, field |-> "sourceId", salt |-> 0, parts |-> 1]
  BY <1>4 DEF RequestAlert, AlertEvaluation
<1>6. WarningAlert(e) =
        [name |-> "evaluate-alerts", event |-> e, field |-> "sourceId", salt |-> 0, parts |-> 3]
  <2>1. EventJob("warning", e).name = "warning" /\ EventJob("warning", e).parts = 3
        /\ EventJob("warning", e) # Nothing
    BY <1>2 DEF Nothing
  <2>2. WarningAlert(e) = [Job("evaluate-alerts", e, "sourceId") EXCEPT !.parts = 3]
    BY <2>1 DEF WarningAlert, AlertEvaluation
  <2>. QED
    BY <1>4, <2>2
<1>. QED
  BY <1>1, <1>2, <1>3, <1>5, <1>6

(* Every job of an event has its number. *)
LEMMA IdEvent == \A e : \A id \in IdsOf(e) : id.event = e /\ id.name \in JobNames
BY IdForms DEF IdsOf, JobNames, Evaluations

(* The queue knows no job, and nobody has changed anything. *)
LEMMA JobStarts == JobInit => JobInv
<1> SUFFICES ASSUME JobInit PROVE JobInv
  OBVIOUS
<1>1. /\ Registers /\ \A h \in Handlers : at[h] = Free
      /\ jobs = <<>> /\ begun = 0 /\ extended = {} /\ struck = {}
  BY RegistersStart DEF JobInit, EnvironmentInit
<1>2. DOMAIN jobs = {}
  BY <1>1
<1>3. JobRows
  BY <1>1, <1>2 DEF JobRows
<1>4. \A h \in Handlers : HandlerSound(h)
  BY <1>1 DEF HandlerSound, EventKept, RunSoFar, HoldsAlone, Holds, Dispatches, ServesHazard,
     ServesRequest, ServesEvent, Free
<1>5. Separate /\ JobsEnd
  BY <1>1, <1>2 DEF Separate, JobsEnd
<1>. QED
  BY <1>1, <1>3, <1>4, <1>5 DEF JobInv

(* An event that has left a trace is one that happened. *)
LEMMA TraceBound ==
  ASSUME JobInv, NEW e
  PROVE  FromHazard(e) \/ FromRequest(e) \/ FromEvent(e) => e \in 1 .. begun
<1>1. \A job \in DOMAIN jobs : job.event \in 1 .. begun
  BY DEF JobInv, JobRows
<1>2. /\ HazardAlert(e).event = e /\ RequestAlert(e).event = e /\ WarningAlert(e).event = e
      /\ EventJob("change", e).event = e /\ EventJob("warning", e).event = e
  BY IdForms
<1>3. \A h \in Handlers : ServesHazard(h, e) \/ ServesRequest(h, e) \/ ServesEvent(h, e) =>
        e \in 1 .. begun
  BY DEF JobInv, HandlerSound, EventKept
<1>. QED
  BY <1>1, <1>2, <1>3 DEF FromHazard, FromRequest, FromEvent

\* What a step of handler h may do to the queue: it adds jobs, and changes the
\* one the handler runs or one that nobody runs.
QueueMoves(h) ==
  /\ DOMAIN jobs \subseteq DOMAIN jobs'
  /\ \A job \in DOMAIN jobs :
       jobs[job].state = "active" /\ ~(Holds(h) /\ mem[h].job = job) => jobs'[job] = jobs[job]
  /\ \A job \in DOMAIN jobs' : job.name \notin Evaluations /\ jobs'[job].state = "completed" =>
       /\ job \in DOMAIN jobs
       /\ \/ jobs[job].state = "completed"
          \/ at[h] = "complete" /\ mem[h].job = job
  /\ \A job \in DOMAIN jobs' : jobs'[job].state = "failed" /\ job.event \notin struck' =>
       /\ job \in DOMAIN jobs
       /\ jobs[job].state = "failed" \/ (job.name = "change" /\ job.event \in extended)
  /\ \A job \in DOMAIN jobs' \ DOMAIN jobs : \A e :
       /\ job = HazardAlert(e) => FromHazard(e)
       /\ job = RequestAlert(e) => FromRequest(e)
       /\ job \in {EventJob("change", e), EventJob("warning", e), WarningAlert(e)} => FromEvent(e)

\* The job a handler runs next is the one it runs, or one that nobody runs.
TakesOne(h) ==
  Holds(h)' =>
    /\ mem'[h].job \in DOMAIN jobs /\ jobs'[mem'[h].job].state = "active"
    /\ \/ Holds(h) /\ mem'[h].job = mem[h].job
       \/ jobs[mem'[h].job].state # "active"

\* The event a handler serves next is the one it serves, or a new one.
ServesOne(h) ==
  \A e :
    /\ ServesHazard(h, e)' => FromHazard(e) \/ e = begun + 1
    /\ ServesRequest(h, e)' => FromRequest(e) \/ e = begun + 1
    /\ ServesEvent(h, e)' => FromEvent(e) \/ e = begun + 1

(* A step that does no more than that keeps the invariant. *)
LEMMA JobMoves ==
  ASSUME JobInv, NEW h \in Handlers, NEW step, NEW memory,
         Begin(h, step, memory) \/ Proceed(h, step, memory),
         JobRows', QueueMoves(h), TakesOne(h), ServesOne(h),
         extended \subseteq extended', struck \subseteq struck',
         EventKept(h)', RunSoFar(h)'
  PROVE  JobInv'
<1>1. /\ Registers' /\ at'[h] = step /\ mem'[h] = memory
      /\ \A g \in Handlers \ {h} : at'[g] = at[g] /\ mem'[g] = mem[g]
  BY HandlerMoves DEF JobInv
<1>2. begun \in Nat /\ begun' \in {begun, begun + 1}
  BY DEF JobInv, JobRows, Begin, Request, Proceed
<1>3. \A name, e : JobsOf(name, e) # {} => JobsOf(name, e)' # {}
  BY DEF QueueMoves, JobsOf
<1>4. \A g \in Handlers \ {h} :
        /\ Holds(g)' <=> Holds(g)
        /\ Dispatches(g)' <=> Dispatches(g)
        /\ \A e : /\ ServesHazard(g, e)' <=> ServesHazard(g, e)
                  /\ ServesRequest(g, e)' <=> ServesRequest(g, e)
                  /\ ServesEvent(g, e)' <=> ServesEvent(g, e)
  BY <1>1 DEF Holds, Dispatches, ServesHazard, ServesRequest, ServesEvent
<1>5. ASSUME NEW g \in Handlers \ {h} PROVE HandlerSound(g)'
  <2>1. HandlerSound(g) /\ HandlerSound(h) /\ at'[g] = at[g] /\ mem'[g] = mem[g]
    BY <1>1 DEF JobInv
  <2>2. EventKept(g)'
    BY <1>2, <1>4, <2>1 DEF HandlerSound, EventKept
  <2>3. RunSoFar(g)'
    BY <1>3, <1>4, <2>1 DEF HandlerSound, RunSoFar
  <2>4. HoldsAlone(g)'
    <3> SUFFICES ASSUME Holds(g)
                 PROVE  /\ mem'[g].job \in DOMAIN jobs' /\ jobs'[mem'[g].job].state = "active"
                        /\ \A k \in Handlers \ {g} : Holds(k)' => mem'[k].job # mem'[g].job
      BY <1>4 DEF HoldsAlone
    <3>1. /\ mem[g].job \in DOMAIN jobs /\ jobs[mem[g].job].state = "active"
          /\ \A k \in Handlers \ {g} : Holds(k) => mem[k].job # mem[g].job
      BY <2>1 DEF HandlerSound, HoldsAlone
    <3>2. mem'[g].job \in DOMAIN jobs' /\ jobs'[mem'[g].job].state = "active"
      BY <2>1, <3>1 DEF QueueMoves
    <3>3. ASSUME NEW k \in Handlers \ {g}, Holds(k)' PROVE mem'[k].job # mem'[g].job
      <4>1. CASE k = h
        BY <2>1, <3>1, <3>3, <4>1 DEF TakesOne
      <4>2. CASE k # h
        BY <1>1, <1>4, <2>1, <3>1, <3>3, <4>2
      <4>. QED
        BY <4>1, <4>2
    <3>. QED
      BY <3>2, <3>3
  <2>. QED
    BY <2>2, <2>3, <2>4 DEF HandlerSound
<1>6. HoldsAlone(h)'
  <2> SUFFICES ASSUME Holds(h)'
               PROVE  /\ mem'[h].job \in DOMAIN jobs' /\ jobs'[mem'[h].job].state = "active"
                      /\ \A g \in Handlers \ {h} : Holds(g)' => mem'[g].job # mem'[h].job
    BY DEF HoldsAlone
  <2>1. \A g \in Handlers \ {h} : Holds(g) =>
          /\ jobs[mem[g].job].state = "active"
          /\ Holds(h) => mem[g].job # mem[h].job
    BY DEF JobInv, HandlerSound, HoldsAlone
  <2>. QED
    BY <1>1, <1>4, <2>1 DEF TakesOne, QueueMoves
<1>7. JobsEnd'
  <2>1. ASSUME NEW job \in DOMAIN jobs', job.name \notin Evaluations,
               jobs'[job].state = "completed"
        PROVE  JobsOf("evaluate-alerts", job.event)' # {}
    <3>1. CASE job \in DOMAIN jobs /\ jobs[job].state = "completed"
      BY <1>3, <2>1, <3>1 DEF JobInv, JobsEnd
    <3>2. CASE at[h] = "complete" /\ mem[h].job = job
      <4>1. EventKept(h) /\ RunSoFar(h) /\ Holds(h) /\ Dispatches(h)
        BY <3>2 DEF JobInv, HandlerSound, Holds, Dispatches
      <4>2. job.event = mem[h].event /\ JobsOf("evaluate-alerts", mem[h].event) # {}
        BY <3>2, <4>1 DEF EventKept, RunSoFar
      <4>. QED
        BY <1>3, <4>2
    <3>. QED
      BY <2>1, <3>1, <3>2 DEF QueueMoves
  <2>2. ASSUME NEW job \in DOMAIN jobs', jobs'[job].state = "failed", job.event \notin struck'
        PROVE  job.name = "change" /\ job.event \in extended'
    BY <2>2 DEF QueueMoves, JobInv, JobsEnd
  <2>. QED
    BY <2>1, <2>2 DEF JobsEnd
<1>8. Separate'
  <2>1. ASSUME NEW e, FromHazard(e)'
        PROVE  FromHazard(e) \/ (e = begun + 1 /\ ServesHazard(h, e)')
    BY <1>4, <2>1 DEF FromHazard, QueueMoves, ServesOne
  <2>2. ASSUME NEW e, FromRequest(e)'
        PROVE  FromRequest(e) \/ (e = begun + 1 /\ ServesRequest(h, e)')
    BY <1>4, <2>2 DEF FromRequest, QueueMoves, ServesOne
  <2>3. ASSUME NEW e, FromEvent(e)'
        PROVE  FromEvent(e) \/ (e = begun + 1 /\ ServesEvent(h, e)')
    BY <1>4, <2>3 DEF FromEvent, QueueMoves, ServesOne
  <2>4. ~ (begun + 1 \in 1 .. begun)
    BY <1>2
  <2>5. \A e : /\ ~(ServesHazard(h, e)' /\ ServesRequest(h, e)')
               /\ ~(ServesHazard(h, e)' /\ ServesEvent(h, e)')
               /\ ~(ServesRequest(h, e)' /\ ServesEvent(h, e)')
    BY DEF ServesHazard, ServesRequest, ServesEvent, Dispatches, Holds
  <2>. QED
    BY <2>1, <2>2, <2>3, <2>4, <2>5, TraceBound DEF Separate, JobInv
<1>. QED
  BY <1>1, <1>5, <1>6, <1>7, <1>8 DEF JobInv, HandlerSound

(* Adding a job leaves those the queue knows as they are. *)
LEMMA JobAdded ==
  ASSUME JobInv, NEW h \in Handlers, NEW event \in 1 .. begun, NEW job \in IdsOf(event), Add(job),
         UNCHANGED <<begun, extended, struck>>,
         \A e : /\ job = HazardAlert(e) => FromHazard(e)
                /\ job = RequestAlert(e) => FromRequest(e)
                /\ job \in {EventJob("change", e), EventJob("warning", e), WarningAlert(e)} =>
                     FromEvent(e)
  PROVE  /\ JobRows' /\ QueueMoves(h)
         /\ DOMAIN jobs' = DOMAIN jobs \cup {job}
         /\ \A id \in DOMAIN jobs : jobs'[id] = jobs[id]
<1> DEFINE fresh == [state |-> "waiting", made |-> 0]
<1>1. /\ DOMAIN jobs' = DOMAIN jobs \cup {job}
      /\ \A id \in DOMAIN jobs : jobs'[id] = jobs[id]
      /\ job \notin DOMAIN jobs => jobs'[job] = fresh
      /\ jobs' = [id \in DOMAIN jobs' |-> jobs'[id]]
  BY DEF Add
<1>2. fresh \in JobRow /\ fresh.made < Attempts /\ fresh.state = "waiting"
  BY JobAttemptsAssumption DEF JobRow
<1> HIDE DEF fresh
<1>3. JobRows /\ job.event = event
  BY IdEvent DEF JobInv
<1>4. \A id \in DOMAIN jobs' : jobs'[id] \in JobRow
  BY <1>1, <1>2, <1>3 DEF JobRows
<1>5. jobs' \in [DOMAIN jobs' -> JobRow]
  BY <1>1, <1>4
<1>6. JobRows'
  BY <1>1, <1>2, <1>3, <1>5 DEF JobRows
<1>7. QueueMoves(h)
  BY <1>1, <1>2 DEF QueueMoves
<1>. QED
  BY <1>1, <1>6, <1>7

(* A job that the handler runs, or that nobody runs, is given a new state.  *)
LEMMA JobChanged ==
  ASSUME JobInv, NEW h \in Handlers, NEW job \in DOMAIN jobs, NEW row \in JobRow,
         jobs' = [jobs EXCEPT ![job] = row], UNCHANGED <<begun, extended>>,
         struck \subseteq struck', struck' \subseteq 1 .. begun,
         row.state \in {"waiting", "active"} => row.made < Attempts,
         (Holds(h) /\ mem[h].job = job) \/ jobs[job].state # "active",
         row.state = "completed" /\ job.name \notin Evaluations =>
           at[h] = "complete" /\ mem[h].job = job,
         row.state = "failed" =>
           job.event \in struck' \/ (job.name = "change" /\ job.event \in extended)
  PROVE  /\ JobRows' /\ QueueMoves(h)
         /\ DOMAIN jobs' = DOMAIN jobs /\ jobs'[job] = row
<1>1. JobRows
  BY DEF JobInv
<1>2. /\ DOMAIN jobs' = DOMAIN jobs /\ jobs'[job] = row
      /\ \A id \in DOMAIN jobs \ {job} : jobs'[id] = jobs[id]
      /\ jobs' \in [DOMAIN jobs -> JobRow]
  BY <1>1 DEF JobRows
<1>3. JobRows'
  BY <1>1, <1>2 DEF JobRows
<1>4. QueueMoves(h)
  BY <1>2 DEF QueueMoves
<1>. QED
  BY <1>2, <1>3, <1>4

(* A job that is run again, taken, completed or given up keeps its attempts. *)
LEMMA StateChanged ==
  ASSUME JobInv, NEW job \in DOMAIN jobs, NEW status \in {"waiting", "active", "completed", "failed"}
  PROVE  LET row == [state |-> status, made |-> jobs[job].made] IN
         row \in JobRow /\ Becomes(job, status) = [jobs EXCEPT ![job] = row]
<1>1. jobs[job] \in JobRow
  BY DEF JobInv, JobRows
<1>2. [jobs[job] EXCEPT !.state = status] = [state |-> status, made |-> jobs[job].made]
  BY <1>1 DEF JobRow
<1>3. Becomes(job, status) = [jobs EXCEPT ![job] = [jobs[job] EXCEPT !.state = status]]
  BY DEF Becomes
<1>. QED
  BY <1>1, <1>2, <1>3 DEF JobRow

(* A request begins: the queue stays as it is, and the event is new. *)
LEMMA RequestBegins ==
  ASSUME JobInv, NEW h \in Handlers, NEW step, NEW memory, Begin(h, step, memory),
         UNCHANGED jobState
  PROVE  /\ JobRows' /\ QueueMoves(h) /\ begun' = begun + 1
         /\ at'[h] = step /\ mem'[h] = memory /\ begun + 1 \in 1 .. begun'
         /\ UNCHANGED <<extended, struck>>
<1>1. begun \in Nat /\ begun' = begun + 1 /\ UNCHANGED <<jobs, extended, struck>>
  BY DEF Begin, Request, JobInv, JobRows, jobState
<1>2. at'[h] = step /\ mem'[h] = memory
  BY HandlerMoves DEF JobInv
<1>3. JobRows'
  BY <1>1 DEF JobInv, JobRows
<1>. QED
  BY <1>1, <1>2, <1>3 DEF QueueMoves

(* A step that only the handler makes: the queue and its traces stay.      *)
LEMMA QueueStays ==
  ASSUME JobInv, NEW h \in Handlers, NEW step, NEW memory, Proceed(h, step, memory),
         UNCHANGED <<jobs, struck>>, extended' \subseteq 1 .. begun
  PROVE  /\ JobRows' /\ QueueMoves(h) /\ at'[h] = step /\ mem'[h] = memory /\ begun' = begun
<1>1. begun' = begun
  BY DEF Proceed
<1>2. at'[h] = step /\ mem'[h] = memory
  BY HandlerMoves DEF JobInv
<1>3. JobRows'
  BY <1>1 DEF JobInv, JobRows
<1>. QED
  BY <1>1, <1>2, <1>3 DEF QueueMoves

(* A handler that is done holds nothing. *)
LEMMA HandlerDone ==
  ASSUME NEW h \in Handlers, at'[h] = Free
  PROVE  TakesOne(h) /\ ServesOne(h) /\ EventKept(h)' /\ RunSoFar(h)'
BY DEF TakesOne, ServesOne, EventKept, RunSoFar, Holds, Dispatches, ServesHazard, ServesRequest,
   ServesEvent, Free

(* A handler that goes on with the job, or the request, that it serves.    *)
LEMMA HandlerGoesOn ==
  ASSUME JobInv, NEW h \in Handlers, mem'[h] = mem[h], begun' = begun,
         at[h] \in {"recalculate", "add-alert", "add-navigation"},
         at'[h] \in {"add-alert", "add-navigation", "complete"},
         at'[h] = "complete" => mem[h].job # Nothing,
         Holds(h) => jobs'[mem[h].job] = jobs[mem[h].job]
  PROVE  TakesOne(h) /\ ServesOne(h) /\ EventKept(h)'
<1>1. /\ Holds(h) <=> mem[h].job # Nothing
      /\ Holds(h) => Dispatches(h)
  <2>1. EventKept(h)
    BY DEF JobInv, HandlerSound
  <2>2. ASSUME Holds(h) PROVE Dispatches(h) /\ mem[h].job # Nothing
    <3>1. /\ Dispatches(h)
          /\ mem[h].job \in {EventJob("change", mem[h].event), EventJob("warning", mem[h].event)}
      BY <2>1, <2>2 DEF Dispatches, EventKept
    <3>. QED
      BY <3>1, IdForms DEF Nothing
  <2>. QED
    BY <2>2 DEF Holds
<1>2. EventKept(h) /\ HoldsAlone(h)
  BY DEF JobInv, HandlerSound
<1>3. /\ Holds(h)' <=> Holds(h)
      /\ Dispatches(h)' <=> Holds(h)
      /\ \A e : /\ ServesRequest(h, e)' => ServesRequest(h, e)
                /\ ServesEvent(h, e)' => ServesEvent(h, e)
                /\ ~ServesHazard(h, e)'
  BY <1>1 DEF Holds, Dispatches, ServesRequest, ServesEvent, ServesHazard
<1>4. TakesOne(h)
  BY <1>2, <1>3 DEF TakesOne, HoldsAlone
<1>5. ServesOne(h)
  BY <1>3 DEF ServesOne, FromRequest, FromEvent
<1>6. EventKept(h)'
  BY <1>1, <1>2, <1>3 DEF EventKept
<1>. QED
  BY <1>4, <1>5, <1>6

(* What a handler that is about to add the evaluation of alerts adds.      *)
LEMMA AlertAdded ==
  ASSUME JobInv, NEW h \in Handlers, at[h] = "add-alert",
         IdAccepted(AlertEvaluation(mem[h].event, mem[h].job))
  PROVE  LET e == mem[h].event
             job == AlertEvaluation(e, mem[h].job) IN
         /\ e \in 1 .. begun /\ job \in IdsOf(e) /\ job.name = "evaluate-alerts"
         /\ \A k : /\ job = HazardAlert(k) => FromHazard(k)
                   /\ job = RequestAlert(k) => FromRequest(k)
                   /\ job \in {EventJob("change", k), EventJob("warning", k), WarningAlert(k)} =>
                        FromEvent(k)
         /\ mem[h].job # Nothing => mem[h].job.name # "change"
<1> DEFINE e == mem[h].event
           job == AlertEvaluation(e, mem[h].job)
<1>1. EventKept(h)
  BY DEF JobInv, HandlerSound
<1>2. CASE mem[h].job = Nothing
  <2>1. job = RequestAlert(e)
    BY <1>2 DEF RequestAlert
  <2>2. ServesRequest(h, e)
    BY <1>2 DEF ServesRequest
  <2>3. e \in 1 .. begun /\ FromRequest(e)
    BY <1>1, <2>2 DEF EventKept, FromRequest
  <2>. QED
    BY <1>2, <2>1, <2>3, IdForms DEF IdsOf
<1>3. CASE mem[h].job # Nothing
  <2>1. Dispatches(h) /\ Holds(h)
    BY <1>3 DEF Dispatches, Holds
  <2>2. /\ e \in 1 .. begun
        /\ mem[h].job \in {EventJob("change", e), EventJob("warning", e)}
    BY <1>1, <2>1 DEF EventKept
  <2>3. mem[h].job # EventJob("change", e)
    <3> SUFFICES ASSUME mem[h].job = EventJob("change", e) PROVE FALSE
      OBVIOUS
    <3>1. mem[h].job.name = "change" /\ mem[h].job.parts = 1
      BY IdForms
    <3>2. job = [Job("evaluate-alerts", e, "sourceId") EXCEPT !.parts = 2]
      BY <1>3, <3>1 DEF AlertEvaluation
    <3>3. job.parts = 2
      BY <3>2 DEF Job
    <3>. QED
      BY <3>3 DEF IdAccepted
  <2>4. mem[h].job = EventJob("warning", e) /\ job = WarningAlert(e)
    BY <2>2, <2>3 DEF WarningAlert
  <2>5. FromEvent(e)
    BY <2>1 DEF FromEvent, ServesEvent
  <2>. QED
    BY <2>2, <2>4, <2>5, IdForms DEF IdsOf
<1>. QED
  BY <1>2, <1>3

(* Every step keeps the invariant. *)
LEMMA JobStep == JobInv /\ [JobNext]_jobVars => JobInv'
<1> SUFFICES ASSUME JobInv, [JobNext]_jobVars PROVE JobInv'
  OBVIOUS
<1>1. /\ JobRows /\ begun \in Nat /\ (\A h \in Handlers : HandlerSound(h))
      /\ extended \cup struck \subseteq 1 .. begun
  BY DEF JobInv, JobRows
<1>2. CASE UNCHANGED jobVars
  <2>1. UNCHANGED <<now, begun, at, mem, jobs, extended, struck>>
    BY <1>2 DEF jobVars, jobState, environment, requests
  <2>. QED
    BY <2>1 DEF JobInv, Registers, JobRows, HandlerSound, EventKept, RunSoFar, HoldsAlone, Holds,
       Dispatches, ServesHazard, ServesRequest, ServesEvent, JobsOf, Separate, FromHazard,
       FromRequest, FromEvent, JobsEnd
<1>3. ASSUME NEW h \in Handlers, Change(h) \/ WarningChange(h) PROVE JobInv'
  <2> DEFINE e == begun + 1
  <2>1. PICK memory \in {EventJob("change", e), EventJob("warning", e)} :
          Begin(h, "add-event", memory)
    BY <1>3 DEF Change, WarningChange, EventJob, RequiredField
  <2>2. UNCHANGED jobState /\ memory.event = e
    BY <1>3, IdForms DEF Change, WarningChange
  <2>3. /\ JobRows' /\ QueueMoves(h) /\ begun' = e
        /\ at'[h] = "add-event" /\ mem'[h] = memory /\ e \in 1 .. begun'
        /\ UNCHANGED <<extended, struck>>
    BY <2>1, <2>2, RequestBegins
  <2>4. TakesOne(h) /\ ServesOne(h) /\ EventKept(h)' /\ RunSoFar(h)'
    BY <2>2, <2>3 DEF TakesOne, ServesOne, EventKept, RunSoFar, Holds, Dispatches, ServesHazard,
       ServesRequest, ServesEvent
  <2>. QED
    BY <2>1, <2>3, <2>4, JobMoves
<1>4. ASSUME NEW h \in Handlers, MaterialChange(h) PROVE JobInv'
  <2> DEFINE memory == [event |-> begun + 1, job |-> Nothing]
  <2>1. Begin(h, "add-alert", memory) /\ UNCHANGED jobState
    BY <1>4 DEF MaterialChange
  <2>2. memory.event = begun + 1 /\ memory.job = Nothing
    OBVIOUS
  <2> HIDE DEF memory
  <2>3. /\ JobRows' /\ QueueMoves(h) /\ begun' = begun + 1
        /\ at'[h] = "add-alert" /\ mem'[h] = memory /\ begun + 1 \in 1 .. begun'
        /\ UNCHANGED <<extended, struck>>
    BY <2>1, RequestBegins
  <2>4. TakesOne(h) /\ ServesOne(h) /\ EventKept(h)' /\ RunSoFar(h)'
    BY <2>2, <2>3 DEF TakesOne, ServesOne, EventKept, RunSoFar, Holds, Dispatches, ServesHazard,
       ServesRequest, ServesEvent
  <2>. QED
    BY <2>1, <2>3, <2>4, JobMoves
<1>5. ASSUME NEW h \in Handlers, TriggerHazard(h) PROVE JobInv'
  <2>1. Begin(h, "add-demo-navigation", begun + 1) /\ UNCHANGED jobState
    BY <1>5 DEF TriggerHazard
  <2>2. /\ JobRows' /\ QueueMoves(h) /\ begun' = begun + 1
        /\ at'[h] = "add-demo-navigation" /\ mem'[h] = begun + 1 /\ begun + 1 \in 1 .. begun'
        /\ UNCHANGED <<extended, struck>>
    BY <2>1, RequestBegins
  <2>3. TakesOne(h) /\ ServesOne(h) /\ EventKept(h)' /\ RunSoFar(h)'
    BY <2>2 DEF TakesOne, ServesOne, EventKept, RunSoFar, Holds, Dispatches, ServesHazard,
       ServesRequest, ServesEvent
  <2>. QED
    BY <2>1, <2>2, <2>3, JobMoves
<1>6. ASSUME NEW h \in Handlers, AddEvent(h) PROVE JobInv'
  <2> DEFINE e == mem[h].event
             job == mem[h]
  <2>1. /\ at[h] = "add-event" /\ Add(job) /\ Proceed(h, Free, Nothing)
        /\ UNCHANGED <<begun, extended, struck>>
    BY <1>6 DEF AddEvent, Finish, Proceed
  <2>2. ServesEvent(h, e)
    BY <2>1 DEF ServesEvent
  <2>3. /\ e \in 1 .. begun /\ FromEvent(e)
        /\ job \in {EventJob("change", e), EventJob("warning", e)}
    BY <1>1, <2>1, <2>2 DEF HandlerSound, EventKept, FromEvent
  <2>4. /\ job \in IdsOf(e)
        /\ \A k : /\ job # HazardAlert(k) /\ job # RequestAlert(k)
                  /\ job \in {EventJob("change", k), EventJob("warning", k), WarningAlert(k)} =>
                       FromEvent(k)
    BY <2>3, IdForms DEF IdsOf
  <2> HIDE DEF e, job
  <2>5. JobRows' /\ QueueMoves(h)
    BY <2>1, <2>3, <2>4, JobAdded
  <2>6. at'[h] = Free
    BY <2>1, HandlerMoves DEF JobInv
  <2>. QED
    BY <2>1, <2>5, <2>6, HandlerDone, JobMoves
<1>7. ASSUME NEW h \in Handlers, AddDemoNavigation(h) PROVE JobInv'
  <2> DEFINE e == mem[h]
             job == NavigationJob(e)
  <2>1. /\ at[h] = "add-demo-navigation" /\ Add(job) /\ Proceed(h, "add-demo-alert", e)
        /\ UNCHANGED <<begun, extended, struck>>
    BY <1>7 DEF AddDemoNavigation, NavigationJob, Proceed
  <2>2. e \in 1 .. begun /\ FromHazard(e)
    BY <1>1, <2>1 DEF HandlerSound, EventKept, FromHazard, ServesHazard
  <2>3. /\ job \in IdsOf(e)
        /\ \A k : job # HazardAlert(k) /\ job # RequestAlert(k)
        /\ \A k : job \notin {EventJob("change", k), EventJob("warning", k), WarningAlert(k)}
    BY IdForms DEF IdsOf
  <2> HIDE DEF job
  <2>4. JobRows' /\ QueueMoves(h)
    BY <2>1, <2>2, <2>3, JobAdded
  <2>5. at'[h] = "add-demo-alert" /\ mem'[h] = e
    BY <2>1, HandlerMoves DEF JobInv
  <2>6. TakesOne(h) /\ ServesOne(h) /\ EventKept(h)' /\ RunSoFar(h)'
    BY <2>1, <2>2, <2>5 DEF TakesOne, ServesOne, EventKept, RunSoFar, Holds, Dispatches,
       ServesHazard, ServesRequest, ServesEvent
  <2>. QED
    BY <2>1, <2>4, <2>6, JobMoves
<1>8. ASSUME NEW h \in Handlers, AddDemoAlert(h) PROVE JobInv'
  <2> DEFINE e == mem[h]
             job == HazardAlert(e)
  <2>1. /\ at[h] = "add-demo-alert" /\ Add(job) /\ Proceed(h, Free, Nothing)
        /\ UNCHANGED <<begun, extended, struck>>
    BY <1>8 DEF AddDemoAlert, HazardAlert, Finish, Proceed
  <2>2. e \in 1 .. begun /\ FromHazard(e)
    BY <1>1, <2>1 DEF HandlerSound, EventKept, FromHazard, ServesHazard
  <2>3. /\ job \in IdsOf(e)
        /\ \A k : job = HazardAlert(k) => FromHazard(k)
        /\ \A k : job # RequestAlert(k)
        /\ \A k : job \notin {EventJob("change", k), EventJob("warning", k), WarningAlert(k)}
    BY <2>2, IdForms DEF IdsOf
  <2> HIDE DEF job
  <2>4. JobRows' /\ QueueMoves(h)
    BY <2>1, <2>2, <2>3, JobAdded
  <2>5. at'[h] = Free
    BY <2>1, HandlerMoves DEF JobInv
  <2>. QED
    BY <2>1, <2>4, <2>5, HandlerDone, JobMoves
<1>9. ASSUME NEW h \in Handlers, RequestAddFails(h) PROVE JobInv'
  <2>1. Proceed(h, Free, Nothing) /\ UNCHANGED <<jobs, extended, struck>>
    BY <1>9 DEF RequestAddFails, Finish, jobState
  <2>2. JobRows' /\ QueueMoves(h) /\ at'[h] = Free
    BY <1>1, <2>1, QueueStays
  <2>. QED
    BY <2>1, <2>2, HandlerDone, JobMoves
<1>10. ASSUME NEW h \in Handlers, Recalculate(h) PROVE JobInv'
  <2>1. /\ at[h] = "recalculate" /\ Proceed(h, "add-alert", mem[h]) /\ UNCHANGED <<jobs, struck>>
        /\ extended' = extended \cup {mem[h].event}
    BY <1>10 DEF Recalculate
  <2>2. mem[h].event \in 1 .. begun
    BY <1>1, <2>1 DEF HandlerSound, EventKept, Holds
  <2>3. JobRows' /\ QueueMoves(h) /\ at'[h] = "add-alert" /\ mem'[h] = mem[h] /\ begun' = begun
    BY <1>1, <2>1, <2>2, QueueStays
  <2>4. TakesOne(h) /\ ServesOne(h) /\ EventKept(h)'
    BY <2>1, <2>3, HandlerGoesOn
  <2>5. RunSoFar(h)'
    BY <2>1, <2>3 DEF RunSoFar
  <2>. QED
    BY <2>1, <2>3, <2>4, <2>5, JobMoves
<1>11. ASSUME NEW h \in Handlers, AddAlert(h) PROVE JobInv'
  <2> DEFINE e == mem[h].event
             job == AlertEvaluation(e, mem[h].job)
             step == IF mem[h].job = Nothing \/ mem[h].job.name = "change" THEN "add-navigation"
                     ELSE "complete"
  <2>1. /\ at[h] = "add-alert" /\ Add(job) /\ IdAccepted(job) /\ Proceed(h, step, mem[h])
        /\ UNCHANGED <<begun, extended, struck>>
    BY <1>11 DEF AddAlert, Add, Proceed
  <2>2. /\ e \in 1 .. begun /\ job \in IdsOf(e) /\ job.name = "evaluate-alerts"
        /\ \A k : /\ job = HazardAlert(k) => FromHazard(k)
                  /\ job = RequestAlert(k) => FromRequest(k)
                  /\ job \in {EventJob("change", k), EventJob("warning", k), WarningAlert(k)} =>
                       FromEvent(k)
        /\ mem[h].job # Nothing => mem[h].job.name # "change"
    BY <2>1, AlertAdded
  <2>3. job.event = e
    BY <2>2, IdEvent
  <2> HIDE DEF job
  <2>4. /\ JobRows' /\ QueueMoves(h) /\ DOMAIN jobs' = DOMAIN jobs \cup {job}
        /\ \A id \in DOMAIN jobs : jobs'[id] = jobs[id]
    BY <2>1, <2>2, JobAdded
  <2>5. step \in {"add-navigation", "complete"} /\ (step = "complete" => mem[h].job # Nothing)
    OBVIOUS
  <2> HIDE DEF step
  <2>6. at'[h] = step /\ mem'[h] = mem[h]
    BY <2>1, HandlerMoves DEF JobInv
  <2>7. JobsOf("evaluate-alerts", e)' # {}
    <3>1. JobsOf("evaluate-alerts", e)' =
            {id \in DOMAIN jobs' : id.name = "evaluate-alerts" /\ id.event = mem'[h].event}
      BY <2>6 DEF JobsOf
    <3>. QED
      BY <2>2, <2>3, <2>4, <2>6, <3>1, Zenon
  <2>8. Holds(h) => mem[h].job \in DOMAIN jobs
    BY <1>1 DEF HandlerSound, HoldsAlone
  <2>9. TakesOne(h) /\ ServesOne(h) /\ EventKept(h)'
    BY <2>1, <2>4, <2>5, <2>6, <2>8, HandlerGoesOn
  <2>10. RunSoFar(h)'
    BY <2>1, <2>2, <2>5, <2>6, <2>7 DEF RunSoFar, Dispatches, Holds
  <2>. QED
    BY <2>1, <2>4, <2>9, <2>10, JobMoves
<1>12. ASSUME NEW h \in Handlers, AddNavigation(h) PROVE JobInv'
  <2> DEFINE e == mem[h].event
             job == NavigationJob(e)
  <2>1. /\ at[h] = "add-navigation" /\ Add(job) /\ UNCHANGED <<begun, extended, struck>>
        /\ \/ mem[h].job = Nothing /\ Proceed(h, Free, Nothing)
           \/ mem[h].job # Nothing /\ Proceed(h, "complete", mem[h])
    BY <1>12 DEF AddNavigation, NavigationJob, Finish, Proceed
  <2>2. e \in 1 .. begun
    <3>1. ServesRequest(h, e) \/ Holds(h)
      BY <2>1 DEF ServesRequest, Holds
    <3>. QED
      BY <1>1, <3>1 DEF HandlerSound, EventKept
  <2>3. /\ job \in IdsOf(e)
        /\ \A k : job # HazardAlert(k) /\ job # RequestAlert(k)
        /\ \A k : job \notin {EventJob("change", k), EventJob("warning", k), WarningAlert(k)}
    BY IdForms DEF IdsOf
  <2> HIDE DEF job
  <2>4. /\ JobRows' /\ QueueMoves(h) /\ DOMAIN jobs' = DOMAIN jobs \cup {job}
        /\ \A id \in DOMAIN jobs : jobs'[id] = jobs[id]
    BY <2>1, <2>2, <2>3, JobAdded
  <2>5. CASE mem[h].job = Nothing /\ Proceed(h, Free, Nothing)
    <3>1. at'[h] = Free
      BY <2>5, HandlerMoves DEF JobInv
    <3>. QED
      BY <2>1, <2>4, <2>5, <3>1, HandlerDone, JobMoves
  <2>6. CASE mem[h].job # Nothing /\ Proceed(h, "complete", mem[h])
    <3>1. at'[h] = "complete" /\ mem'[h] = mem[h] /\ Dispatches(h) /\ Holds(h)
      BY <2>1, <2>6, HandlerMoves DEF JobInv, Holds, Dispatches
    <3>2. /\ mem[h].job \in DOMAIN jobs /\ JobsOf("evaluate-alerts", e) # {}
          /\ mem[h].job.name = "change" => e \in extended
      BY <1>1, <2>1, <3>1 DEF HandlerSound, HoldsAlone, RunSoFar
    <3>3. TakesOne(h) /\ ServesOne(h) /\ EventKept(h)'
      BY <2>1, <2>4, <2>6, <3>1, <3>2, HandlerGoesOn
    <3>4. RunSoFar(h)'
      BY <2>1, <2>4, <3>1, <3>2 DEF RunSoFar, JobsOf
    <3>. QED
      BY <2>1, <2>4, <2>6, <3>3, <3>4, JobMoves
  <2>. QED
    BY <2>1, <2>5, <2>6
<1>13. ASSUME NEW h \in Handlers, AddSwallowed(h) PROVE JobInv'
  <2>1. /\ UNCHANGED <<jobs, extended, struck>>
        /\ at[h] \in {"add-alert", "add-navigation"}
        /\ \/ at[h] = "add-alert" /\ mem[h].job = Nothing /\ Proceed(h, "add-navigation", mem[h])
           \/ Proceed(h, Free, Nothing)
           \/ at[h] = "add-navigation" /\ mem[h].job # Nothing /\ Proceed(h, "complete", mem[h])
    BY <1>13 DEF AddSwallowed, Finish, jobState
  <2>2. CASE Proceed(h, Free, Nothing)
    <3>1. JobRows' /\ QueueMoves(h) /\ at'[h] = Free
      BY <1>1, <2>1, <2>2, QueueStays
    <3>. QED
      BY <2>1, <2>2, <3>1, HandlerDone, JobMoves
  <2>3. ASSUME NEW step \in {"add-navigation", "complete"}, Proceed(h, step, mem[h]),
               step = "add-navigation" => mem[h].job = Nothing,
               step = "complete" => at[h] = "add-navigation" /\ mem[h].job # Nothing
        PROVE  JobInv'
    <3>1. /\ JobRows' /\ QueueMoves(h) /\ at'[h] = step /\ mem'[h] = mem[h] /\ begun' = begun
      BY <1>1, <2>1, <2>3, QueueStays
    <3>2. TakesOne(h) /\ ServesOne(h) /\ EventKept(h)'
      BY <2>1, <2>3, <3>1, HandlerGoesOn
    <3>3. RunSoFar(h)'
      BY <1>1, <2>1, <2>3, <3>1 DEF HandlerSound, RunSoFar, Dispatches, Holds, JobsOf
    <3>. QED
      BY <2>1, <2>3, <3>1, <3>2, <3>3, JobMoves
  <2>. QED
    BY <2>1, <2>2, <2>3
<1>14. ASSUME NEW h \in Handlers, Complete(h) \/ Throw(h) \/ Refused(h) \/ Stall(h)
       PROVE  JobInv'
  <2> DEFINE job == mem[h].job
             e == mem[h].event
  <2>1. /\ Holds(h) /\ Proceed(h, Free, Nothing) /\ UNCHANGED <<begun, extended>>
        /\ struck' = struck \/ struck' = struck \cup {e}
    BY <1>14 DEF Complete, Throw, Refused, Stall, ThrowBack, Strike, Finish, Proceed, Holds
  <2>2. /\ job \in DOMAIN jobs /\ jobs[job].state = "active"
        /\ job.event = e /\ e \in 1 .. begun
        /\ at[h] = "evaluate" => job.name \in Evaluations
    BY <1>1, <2>1 DEF HandlerSound, HoldsAlone, EventKept
  <2>3. jobs[job] \in JobRow /\ jobs[job].made < Attempts
    BY <1>1, <2>2 DEF JobRows
  <2>4. PICK row \in JobRow :
          /\ jobs' = [jobs EXCEPT ![job] = row]
          /\ row.state \in {"waiting", "active"} => row.made < Attempts
          /\ row.state = "completed" => at[h] \in {"evaluate", "complete"}
          /\ row.state = "failed" => Refused(h) \/ e \in struck'
    <3>1. CASE Complete(h)
      <4> DEFINE row == [state |-> "completed", made |-> jobs[job].made]
      <4>1. /\ jobs' = Becomes(job, "completed") /\ at[h] \in {"evaluate", "complete"}
        BY <3>1 DEF Complete
      <4>2. row \in JobRow /\ jobs' = [jobs EXCEPT ![job] = row]
        BY <2>2, <4>1, StateChanged
      <4>. QED
        BY <4>1, <4>2
    <3>2. CASE Stall(h)
      <4>1. PICK status \in {"waiting", "failed"} : jobs' = Becomes(job, status)
        BY <3>2 DEF Stall
      <4> DEFINE row == [state |-> status, made |-> jobs[job].made]
      <4>2. row \in JobRow /\ jobs' = [jobs EXCEPT ![job] = row]
        BY <2>2, <4>1, StateChanged
      <4>3. e \in struck'
        BY <3>2 DEF Stall, Strike
      <4>. QED
        BY <2>3, <4>2, <4>3
    <3>3. CASE Throw(h) \/ Refused(h)
      <4> DEFINE made == jobs[job].made + 1
                 row == [state |-> IF made < Attempts THEN "waiting" ELSE "failed", made |-> made]
      <4>1. jobs' = [jobs EXCEPT ![job] = row] /\ (Refused(h) \/ e \in struck')
        BY <3>3 DEF Throw, Refused, ThrowBack, Strike
      <4>2. made \in 0 .. Attempts
        BY <2>3, JobAttemptsAssumption DEF JobRow
      <4>3. row \in JobRow /\ (row.state = "waiting" => row.made < Attempts)
            /\ row.state # "completed" /\ row.state # "active"
        BY <4>2 DEF JobRow
      <4>. QED
        BY <4>1, <4>3
    <3>. QED
      BY <1>14, <3>1, <3>2, <3>3
  <2>5. row.state = "completed" /\ job.name \notin Evaluations => at[h] = "complete"
    BY <2>2, <2>4
  <2>6. Refused(h) => job.name = "change" /\ e \in extended
    <3> SUFFICES ASSUME Refused(h) PROVE job.name = "change" /\ e \in extended
      OBVIOUS
    <3>1. /\ at[h] = "add-alert" /\ job # Nothing /\ ~IdAccepted(AlertEvaluation(e, job))
      BY DEF Refused
    <3>2. /\ Dispatches(h) /\ RunSoFar(h)
          /\ job \in {EventJob("change", e), EventJob("warning", e)}
      BY <1>1, <3>1 DEF Dispatches, Holds, HandlerSound, EventKept
    <3>3. IdAccepted(WarningAlert(e)) /\ EventJob("change", e).name = "change"
      BY IdForms DEF IdAccepted
    <3>4. job = EventJob("change", e)
      BY <3>1, <3>2, <3>3 DEF WarningAlert
    <3>. QED
      BY <3>1, <3>2, <3>3, <3>4 DEF RunSoFar
  <2>7. row.state = "failed" => job.event \in struck' \/ (job.name = "change" /\ job.event \in extended)
    BY <2>2, <2>4, <2>6
  <2>8. struck \subseteq struck' /\ struck' \subseteq 1 .. begun
    BY <1>1, <2>1, <2>2
  <2>9. JobRows' /\ QueueMoves(h)
    BY <2>1, <2>2, <2>4, <2>5, <2>7, <2>8, JobChanged
  <2>10. at'[h] = Free
    BY <2>1, HandlerMoves DEF JobInv
  <2>. QED
    BY <2>1, <2>8, <2>9, <2>10, HandlerDone, JobMoves
<1>15. ASSUME NEW h \in Handlers, NEW job \in DOMAIN jobs, TakeJob(h, job) PROVE JobInv'
  <2> DEFINE e == job.event
             memory == [event |-> e, job |-> job]
             row == [state |-> "active", made |-> jobs[job].made]
  <2>1. job \in IdsOf(e) /\ e \in 1 .. begun /\ job.name \in JobNames
    BY <1>1, IdEvent DEF JobRows
  <2>2. PICK step \in {"recalculate", "add-alert", "evaluate"} :
          /\ Proceed(h, step, memory)
          /\ step = "recalculate" <=> job.name = "change"
          /\ step = "add-alert" <=> job.name = "warning"
    BY <1>15, Zenon DEF TakeJob
  <2>3. /\ at[h] = Free /\ jobs[job].state = "waiting" /\ UNCHANGED <<begun, extended, struck>>
        /\ jobs' = Becomes(job, "active")
    BY <1>15 DEF TakeJob, Proceed
  <2>4. row \in JobRow /\ jobs' = [jobs EXCEPT ![job] = row]
    BY <2>3, StateChanged
  <2>5. row.state = "active" /\ row.made < Attempts
    BY <1>1, <2>3 DEF JobRows
  <2>6. memory.job = job /\ memory.event = e
    OBVIOUS
  <2>7. at'[h] = step /\ mem'[h] = memory
    BY <2>2, HandlerMoves DEF JobInv
  <2>8. /\ job.name \in Evaluations
           \/ job \in {EventJob("change", e), EventJob("warning", e)}
        /\ job # Nothing
    BY <2>1, IdForms DEF IdsOf, Evaluations, Nothing
  <2> HIDE DEF memory, row
  <2>9. JobRows' /\ QueueMoves(h) /\ DOMAIN jobs' = DOMAIN jobs /\ jobs'[job] = row
    BY <1>1, <2>3, <2>4, <2>5, JobChanged
  <2>10. TakesOne(h)
    BY <2>3, <2>5, <2>6, <2>7, <2>9 DEF TakesOne
  <2>11. Dispatches(h)' => job.name \in {"change", "warning"}
    BY <2>2, <2>7 DEF Dispatches, Holds
  <2>12. Dispatches(h)' => job \in {EventJob("change", e), EventJob("warning", e)}
    BY <2>8, <2>11 DEF Evaluations
  <2>13. \A k : ~ServesHazard(h, k)' /\ ~ServesRequest(h, k)'
                /\ (ServesEvent(h, k)' => k = e /\ FromEvent(e))
    BY <2>6, <2>7, <2>8, <2>12 DEF ServesHazard, ServesRequest, ServesEvent, FromEvent
  <2>14. ServesOne(h)
    BY <2>13 DEF ServesOne
  <2>15. at'[h] = "evaluate" => job.name \in Evaluations
    BY <2>1, <2>2, <2>7 DEF JobNames
  <2>16. EventKept(h)'
    BY <2>1, <2>2, <2>3, <2>6, <2>7, <2>12, <2>13, <2>15 DEF EventKept
  <2>17. RunSoFar(h)'
    BY <2>2, <2>6, <2>7 DEF RunSoFar
  <2>. QED
    BY <2>2, <2>3, <2>9, <2>10, <2>14, <2>16, <2>17, JobMoves
<1>. QED
  BY <1>2, <1>3, <1>4, <1>5, <1>6, <1>7, <1>8, <1>9, <1>10, <1>11, <1>12, <1>13, <1>14, <1>15
     DEF JobNext

(* What the invariant says of the evaluations of an event. *)
LEMMA OneJobOfEach ==
  ASSUME JobInv, NEW name \in Evaluations, NEW event \in 1 .. begun
  PROVE  Cardinality(JobsOf(name, event)) <= 1
<1>1. ASSUME NEW j \in JobsOf(name, event), NEW k \in JobsOf(name, event)
      PROVE  j = k
  <2>1. /\ j \in IdsOf(event) /\ k \in IdsOf(event) /\ j \in DOMAIN jobs /\ k \in DOMAIN jobs
        /\ j.name = name /\ k.name = name
    BY DEF JobInv, JobRows, JobsOf
  <2>2. CASE name = "evaluate-navigation"
    BY <2>1, <2>2, IdForms DEF IdsOf
  <2>3. CASE name = "evaluate-alerts"
    <3>1. {j, k} \subseteq {HazardAlert(event), RequestAlert(event), WarningAlert(event)}
      BY <2>1, <2>3, IdForms DEF IdsOf
    <3>2. /\ ~(HazardAlert(event) \in DOMAIN jobs /\ RequestAlert(event) \in DOMAIN jobs)
          /\ ~(HazardAlert(event) \in DOMAIN jobs /\ WarningAlert(event) \in DOMAIN jobs)
          /\ ~(RequestAlert(event) \in DOMAIN jobs /\ WarningAlert(event) \in DOMAIN jobs)
      BY DEF JobInv, Separate, FromHazard, FromRequest, FromEvent
    <3>. QED
      BY <2>1, <3>1, <3>2
  <2>. QED
    BY <2>2, <2>3 DEF Evaluations
<1>2. CASE JobsOf(name, event) = {}
  BY <1>2, FS_EmptySet
<1>3. CASE JobsOf(name, event) # {}
  <2>1. PICK j \in JobsOf(name, event) : TRUE
    BY <1>3
  <2>2. JobsOf(name, event) = {j}
    BY <1>1
  <2>. QED
    BY <2>2, FS_Singleton
<1>. QED
  BY <1>2, <1>3

LEMMA JobsEvaluateOnce == JobInv => EvaluatedOnce
BY OneJobOfEach DEF EvaluatedOnce, JobInv, JobsEnd

(* For any number of processors, attempts, stalls and failing adds: alerts *)
(* and navigation are evaluated at most once for a change each; the job of *)
(* a warning that completes has queued the evaluation of alerts; and only  *)
(* that of an incident's change fails without a fault, as the queue        *)
(* refuses its evaluation, when window and confidence have been written.   *)
THEOREM EvaluatedByOneJob == JobSpec => []EvaluatedOnce
BY JobStarts, JobStep, JobsEvaluateOnce, PTL DEF JobSpec

(***************************************************************************)
(* ProviderAdapters.                                                       *)
(***************************************************************************)

Outcomes == {"none", "failed", "sent"}

AdapterTypes ==
  /\ Registers
  /\ channel \in [Handlers -> Channels] /\ vendors \subseteq Channels
  /\ cache.until \in Int /\ cache.expires \in Int
  /\ cache.until >= NULL
  /\ outcome \in [Handlers -> Outcomes]
  /\ accepted \in [Handlers -> SUBSET (Devices \cup {"number"})]
  /\ \A h \in Handlers : accepted[h] \subseteq Recipients(h)
  /\ \A s \in stray : s \in Handlers \X (Devices \cup {"number"}) /\ s[2] \in Recipients(s[1])

\* A token is asked for no longer than an answer may take, and the cache is
\* ahead of the token by no more than that.
TokensTimed ==
  /\ \A h \in Handlers : at[h] = "token" =>
       mem[h].started \in Times /\ mem[h].started <= now /\ now - mem[h].started <= MaxLatency
  /\ cache.expires <= cache.until /\ cache.until - cache.expires <= MaxLatency

\* Whoever has not accepted the message of a post is still to answer.
PostsWait ==
  \A h \in Handlers : at[h] = "post" =>
    /\ mem[h] = [waiting |-> mem[h].waiting, started |-> mem[h].started, expires |-> mem[h].expires]
    /\ mem[h].waiting \subseteq Recipients(h)
    /\ Recipients(h) \ mem[h].waiting \subseteq accepted[h]

AdapterInv == AdapterTypes /\ TokensTimed /\ PostsWait /\ BearerValid /\ SentReachesAll

(* Nothing is cached, and nothing is sent. *)
LEMMA AdaptersStart == EnvironmentInit /\ AdaptersInit => AdapterInv
<1> SUFFICES ASSUME EnvironmentInit, AdaptersInit PROVE AdapterInv
  OBVIOUS
<1>1. Registers /\ \A h \in Handlers : at[h] = Free
  BY RegistersStart
<1>2. cache.until = NULL /\ cache.expires = NULL
  BY DEF AdaptersInit, NoToken
<1>3. AdapterTypes
  BY <1>1, <1>2 DEF AdapterTypes, AdaptersInit, Outcomes, NULL
<1>4. TokensTimed /\ PostsWait
  BY <1>1, <1>2, TokenAssumption DEF TokensTimed, PostsWait, NULL, Free
<1>5. BearerValid /\ SentReachesAll
  BY <1>1 DEF BearerValid, SentReachesAll, AdaptersInit, Free
<1>. QED
  BY <1>3, <1>4, <1>5 DEF AdapterInv

(* A post that begins waits for every recipient, under a token that has    *)
(* not expired if it needs one.                                            *)
LEMMA PostBegins ==
  ASSUME AdapterInv, NEW h \in Handlers, NEW expires \in Int,
         Registers', at'[h] = "post", mem'[h] = Post(h, expires), now' = now,
         Firebase(h) => now < expires,
         \A g \in Handlers \ {h} : at'[g] = at[g] /\ mem'[g] = mem[g],
         UNCHANGED <<channel, vendors, outcome, accepted, stray>>,
         cache' = cache \/ /\ cache'.until \in Nat /\ cache'.expires \in Int
                           /\ cache'.expires <= cache'.until
                           /\ cache'.until - cache'.expires <= MaxLatency
  PROVE  AdapterInv'
<1> DEFINE memory == Post(h, expires)
<1>1. /\ memory = [waiting |-> memory.waiting, started |-> memory.started, expires |-> memory.expires]
      /\ memory.waiting = Recipients(h) /\ memory.started = now /\ memory.expires = expires
  BY DEF Post
<1> HIDE DEF memory
<1>2. \A g \in Handlers : Recipients(g)' = Recipients(g) /\ (Firebase(g)' <=> Firebase(g))
  BY DEF Recipients, Firebase
<1>3. AdapterTypes'
  BY <1>2, TokenAssumption DEF AdapterInv, AdapterTypes, NULL
<1>4. TokensTimed'
  BY DEF AdapterInv, TokensTimed
<1>5. PostsWait'
  BY <1>1, <1>2 DEF AdapterInv, PostsWait, memory
<1>6. BearerValid'
  BY <1>1, <1>2 DEF AdapterInv, BearerValid, memory
<1>7. SentReachesAll'
  BY <1>2 DEF AdapterInv, SentReachesAll
<1>. QED
  BY <1>3, <1>4, <1>5, <1>6, <1>7 DEF AdapterInv

(* An attempt that ends, or a handler that is not posting, leaves the rest *)
(* of the adapters as they are.                                            *)
LEMMA AttemptEnds ==
  ASSUME AdapterInv, NEW h \in Handlers, Registers', now' = now,
         at'[h] = Free \/ (at'[h] = at[h] /\ mem'[h] = mem[h]),
         \A g \in Handlers \ {h} : at'[g] = at[g] /\ mem'[g] = mem[g],
         UNCHANGED <<channel, vendors, cache>>,
         outcome' \in [Handlers -> Outcomes],
         accepted' \in [Handlers -> SUBSET (Devices \cup {"number"})],
         \A g \in Handlers \ {h} : outcome'[g] = outcome[g] /\ accepted'[g] = accepted[g],
         accepted[h] \subseteq accepted'[h], accepted'[h] \subseteq Recipients(h),
         outcome'[h] = "sent" => accepted'[h] = Recipients(h),
         \A s \in stray' : s \in Handlers \X (Devices \cup {"number"}) /\ s[2] \in Recipients(s[1])
  PROVE  AdapterInv'
<1>1. \A g \in Handlers : Recipients(g)' = Recipients(g) /\ (Firebase(g)' <=> Firebase(g))
  BY DEF Recipients, Firebase
<1>2. AdapterTypes'
  BY <1>1 DEF AdapterInv, AdapterTypes
<1>3. TokensTimed'
  BY DEF AdapterInv, TokensTimed, Free
<1>4. PostsWait'
  BY <1>1 DEF AdapterInv, PostsWait, Free
<1>5. BearerValid' /\ SentReachesAll'
  BY <1>1 DEF AdapterInv, BearerValid, SentReachesAll, Free
<1>. QED
  BY <1>2, <1>3, <1>4, <1>5 DEF AdapterInv

(* Every step keeps the invariant. *)
LEMMA AdaptersStep == AdapterInv /\ [AdaptersNext]_<<adapterState, environment>> => AdapterInv'
<1> SUFFICES ASSUME AdapterInv, [AdaptersNext]_<<adapterState, environment>> PROVE AdapterInv'
  OBVIOUS
<1>1. /\ AdapterTypes /\ TokensTimed /\ PostsWait /\ BearerValid /\ SentReachesAll
      /\ Registers /\ now \in Nat
  BY RequestsAssumption DEF AdapterInv, AdapterTypes, Registers, Times
<1>2. CASE AdaptersTick \/ UNCHANGED <<adapterState, environment>>
  <2>1. Registers' /\ UNCHANGED <<at, mem, channel, vendors, cache, outcome, accepted, stray>>
    BY <1>1, <1>2, ClockMoves DEF AdaptersTick, adapterState, environment, requests, Registers
  <2>2. \A g \in Handlers : Recipients(g)' = Recipients(g) /\ (Firebase(g)' <=> Firebase(g))
    BY <2>1 DEF Recipients, Firebase
  <2>3. AdapterTypes' /\ PostsWait' /\ BearerValid' /\ SentReachesAll'
    BY <1>1, <2>1, <2>2 DEF AdapterTypes, PostsWait, BearerValid, SentReachesAll
  <2>4. TokensTimed'
    <3>1. CASE AdaptersTick
      <4>1. now' = now + 1 /\ \A h \in Handlers : at[h] = "token" => now - mem[h].started < MaxLatency
        BY <3>1 DEF AdaptersTick, PassTime
      <4>. QED
        BY <1>1, <2>1, <4>1, TokenAssumption, RequestsAssumption DEF TokensTimed, Times
    <3>2. CASE UNCHANGED <<adapterState, environment>>
      BY <1>1, <2>1, <3>2 DEF TokensTimed, environment
    <3>. QED
      BY <1>2, <3>1, <3>2
  <2>. QED
    BY <2>3, <2>4 DEF AdapterInv
<1>3. ASSUME NEW h \in Handlers, LocalSend(h) PROVE AdapterInv'
  <2>1. /\ outcome' = [outcome EXCEPT ![h] = "sent"]
        /\ accepted' = [accepted EXCEPT ![h] = Recipients(h)]
        /\ UNCHANGED <<now, at, mem, channel, vendors, cache, stray>>
    BY <1>3 DEF LocalSend, Single
  <2>2. Recipients(h) \subseteq Devices \cup {"number"}
    BY DEF Recipients
  <2>3. /\ outcome' \in [Handlers -> Outcomes] /\ accepted'[h] = Recipients(h)
        /\ accepted' \in [Handlers -> SUBSET (Devices \cup {"number"})]
        /\ \A g \in Handlers \ {h} : outcome'[g] = outcome[g] /\ accepted'[g] = accepted[g]
    BY <1>1, <2>1, <2>2 DEF AdapterTypes, Outcomes
  <2>4. Registers'
    BY <1>1, <2>1 DEF Registers
  <2>. QED
    BY <1>1, <2>1, <2>3, <2>4, AttemptEnds DEF AdapterTypes
<1>4. ASSUME NEW h \in Handlers, TwilioSend(h) PROVE AdapterInv'
  <2>1. /\ Begin(h, "post", Post(h, NULL)) /\ ~Firebase(h)
        /\ UNCHANGED <<channel, vendors, cache, outcome, accepted, stray>>
    BY <1>4 DEF TwilioSend, Twilio, Firebase, adapterState
  <2>. QED
    BY <1>1, <2>1, HandlerMoves, PostBegins DEF NULL
<1>5. ASSUME NEW h \in Handlers, SendWithCachedToken(h) PROVE AdapterInv'
  <2>1. /\ Begin(h, "post", Post(h, cache.expires)) /\ TokenUsable
        /\ UNCHANGED <<channel, vendors, cache, outcome, accepted, stray>>
    BY <1>5 DEF SendWithCachedToken, adapterState
  <2>2. now < cache.expires /\ cache.expires \in Int
    BY <1>1, <2>1, TokenAssumption DEF TokenUsable, TokensTimed, AdapterTypes
  <2>. QED
    BY <1>1, <2>1, <2>2, HandlerMoves, PostBegins
<1>6. ASSUME NEW h \in Handlers, AskForToken(h) PROVE AdapterInv'
  <2>1. /\ Begin(h, "token", [started |-> now])
        /\ UNCHANGED <<channel, vendors, cache, outcome, accepted, stray>>
    BY <1>6 DEF AskForToken, adapterState
  <2>2. /\ Registers' /\ at'[h] = "token" /\ mem'[h].started = now /\ now' = now
        /\ \A g \in Handlers \ {h} : at'[g] = at[g] /\ mem'[g] = mem[g]
    BY <1>1, <2>1, HandlerMoves
  <2>3. \A g \in Handlers : Recipients(g)' = Recipients(g) /\ (Firebase(g)' <=> Firebase(g))
    BY <2>1 DEF Recipients, Firebase
  <2>4. TokensTimed'
    BY <1>1, <2>1, <2>2, TokenAssumption DEF TokensTimed, Registers
  <2>5. AdapterTypes' /\ PostsWait' /\ BearerValid' /\ SentReachesAll'
    BY <1>1, <2>1, <2>2, <2>3 DEF AdapterTypes, PostsWait, BearerValid, SentReachesAll
  <2>. QED
    BY <2>4, <2>5 DEF AdapterInv
<1>7. ASSUME NEW h \in Handlers, TokenAnswers(h) PROVE AdapterInv'
  <2>1. PICK made \in mem[h].started .. now :
          /\ cache' = [until |-> now + TokenTtl, expires |-> made + TokenTtl]
          /\ Proceed(h, "post", Post(h, made + TokenTtl))
    BY <1>7 DEF TokenAnswers
  <2>2. at[h] = "token" /\ UNCHANGED <<channel, vendors, outcome, accepted, stray>>
    BY <1>7 DEF TokenAnswers
  <2>3. mem[h].started \in Nat /\ mem[h].started <= now /\ now - mem[h].started <= MaxLatency
    BY <1>1, <2>2, RequestsAssumption DEF TokensTimed, Times
  <2>4. /\ made + TokenTtl \in Int /\ now < made + TokenTtl
        /\ cache'.until \in Nat /\ cache'.expires \in Int /\ cache'.expires <= cache'.until
        /\ cache'.until - cache'.expires <= MaxLatency
    BY <1>1, <2>1, <2>3, TokenAssumption
  <2>. QED
    BY <1>1, <2>1, <2>2, <2>4, HandlerMoves, PostBegins
<1>8. ASSUME NEW h \in Handlers, TokenRefused(h) PROVE AdapterInv'
  <2>1. /\ Proceed(h, Free, Nothing) /\ outcome' = [outcome EXCEPT ![h] = "failed"]
        /\ UNCHANGED <<channel, vendors, cache, accepted, stray>>
    BY <1>8 DEF TokenRefused, Finish
  <2>2. /\ outcome' \in [Handlers -> Outcomes] /\ outcome'[h] = "failed"
        /\ \A g \in Handlers \ {h} : outcome'[g] = outcome[g]
    BY <1>1, <2>1 DEF AdapterTypes, Outcomes
  <2>. QED
    BY <1>1, <2>1, <2>2, HandlerMoves, AttemptEnds DEF AdapterTypes
<1>9. ASSUME NEW h \in Handlers, NEW d \in Devices \cup {"number"}, PostAccepted(h, d)
      PROVE  AdapterInv'
  <2> DEFINE waiting == mem[h].waiting \ {d}
             memory == [mem[h] EXCEPT !.waiting = waiting]
  <2>1. /\ at[h] = "post" /\ d \in mem[h].waiting
        /\ accepted' = [accepted EXCEPT ![h] = accepted[h] \cup {d}]
        /\ UNCHANGED <<channel, vendors, cache, stray>>
        /\ \/ waiting = {} /\ Proceed(h, Free, Nothing) /\ outcome' = [outcome EXCEPT ![h] = "sent"]
           \/ waiting # {} /\ Proceed(h, "post", memory) /\ outcome' = outcome
    BY <1>9 DEF PostAccepted, Resolved, Finish
  <2>2. /\ mem[h] = [waiting |-> mem[h].waiting, started |-> mem[h].started, expires |-> mem[h].expires]
        /\ mem[h].waiting \subseteq Recipients(h)
        /\ Recipients(h) \ mem[h].waiting \subseteq accepted[h]
        /\ Firebase(h) => mem[h].started < mem[h].expires
        /\ outcome[h] = "sent" => accepted[h] = Recipients(h)
        /\ accepted[h] \subseteq Recipients(h)
    BY <1>1, <2>1 DEF PostsWait, BearerValid, SentReachesAll, AdapterTypes
  <2>3. /\ accepted'[h] = accepted[h] \cup {d}
        /\ accepted' \in [Handlers -> SUBSET (Devices \cup {"number"})]
        /\ \A g \in Handlers \ {h} : accepted'[g] = accepted[g]
    BY <1>1, <2>1 DEF AdapterTypes
  <2>4. accepted'[h] \subseteq Recipients(h) /\ accepted[h] \subseteq accepted'[h]
    BY <2>1, <2>2, <2>3
  <2>5. CASE waiting = {} /\ Proceed(h, Free, Nothing) /\ outcome' = [outcome EXCEPT ![h] = "sent"]
    <3>1. accepted'[h] = Recipients(h)
      BY <2>1, <2>2, <2>3, <2>5
    <3>2. /\ outcome' \in [Handlers -> Outcomes]
          /\ \A g \in Handlers \ {h} : outcome'[g] = outcome[g]
      BY <1>1, <2>5 DEF AdapterTypes, Outcomes
    <3>. QED
      BY <1>1, <2>1, <2>3, <2>4, <2>5, <3>1, <3>2, HandlerMoves, AttemptEnds DEF AdapterTypes
  <2>6. CASE waiting # {} /\ Proceed(h, "post", memory) /\ outcome' = outcome
    <3>1. /\ Registers' /\ at'[h] = "post" /\ mem'[h] = memory /\ now' = now
          /\ \A g \in Handlers \ {h} : at'[g] = at[g] /\ mem'[g] = mem[g]
      BY <1>1, <2>6, HandlerMoves
    <3>2. memory = [waiting |-> waiting, started |-> mem[h].started, expires |-> mem[h].expires]
      BY <2>2
    <3>3. /\ memory = [waiting |-> memory.waiting, started |-> memory.started, expires |-> memory.expires]
          /\ memory.waiting = mem[h].waiting \ {d} /\ memory.started = mem[h].started
          /\ memory.expires = mem[h].expires
      BY <3>2
    <3> HIDE DEF memory
    <3>4. \A g \in Handlers : Recipients(g)' = Recipients(g) /\ (Firebase(g)' <=> Firebase(g))
      BY <2>1 DEF Recipients, Firebase
    <3>5. AdapterTypes' /\ TokensTimed'
      BY <1>1, <2>1, <2>3, <2>4, <2>6, <3>1, <3>4 DEF AdapterTypes, TokensTimed
    <3>6. PostsWait'
      BY <1>1, <2>2, <2>3, <3>1, <3>3, <3>4 DEF PostsWait
    <3>7. BearerValid' /\ SentReachesAll'
      BY <1>1, <2>2, <2>3, <2>4, <2>6, <3>1, <3>3, <3>4 DEF BearerValid, SentReachesAll
    <3>. QED
      BY <3>5, <3>6, <3>7 DEF AdapterInv
  <2>. QED
    BY <2>1, <2>5, <2>6
<1>10. ASSUME NEW h \in Handlers, NEW d \in Devices \cup {"number"}, PostRefused(h, d)
       PROVE  AdapterInv'
  <2>1. /\ Proceed(h, Free, Nothing) /\ outcome' = [outcome EXCEPT ![h] = "failed"]
        /\ at[h] = "post" /\ stray' = stray \cup {<<h, e>> : e \in mem[h].waiting \ {d}}
        /\ UNCHANGED <<channel, vendors, cache, accepted>>
    BY <1>10 DEF PostRefused, Finish
  <2>2. /\ outcome' \in [Handlers -> Outcomes] /\ outcome'[h] = "failed"
        /\ \A g \in Handlers \ {h} : outcome'[g] = outcome[g]
    BY <1>1, <2>1 DEF AdapterTypes, Outcomes
  <2>3. mem[h].waiting \subseteq Recipients(h) /\ Recipients(h) \subseteq Devices \cup {"number"}
    BY <1>1, <2>1 DEF PostsWait, Recipients
  <2>4. \A s \in stray' : s \in Handlers \X (Devices \cup {"number"}) /\ s[2] \in Recipients(s[1])
    BY <1>1, <2>1, <2>3 DEF AdapterTypes
  <2>. QED
    BY <1>1, <2>1, <2>2, <2>4, HandlerMoves, AttemptEnds DEF AdapterTypes
<1>11. ASSUME NEW h \in Handlers, NEW d \in Devices \cup {"number"}, StrayAnswers(h, d)
       PROVE  AdapterInv'
  <2>1. /\ <<h, d>> \in stray /\ stray' \subseteq stray
        /\ accepted' \in {accepted, [accepted EXCEPT ![h] = accepted[h] \cup {d}]}
        /\ UNCHANGED <<now, at, mem, channel, vendors, cache, outcome>>
    BY <1>11 DEF StrayAnswers, environment, requests
  <2>2. d \in Recipients(h) /\ accepted[h] \subseteq Recipients(h)
    <3>1. <<h, d>>[1] = h /\ <<h, d>>[2] = d
      OBVIOUS
    <3>. QED
      BY <1>1, <2>1, <3>1, Zenon DEF AdapterTypes
  <2>3. /\ accepted' \in [Handlers -> SUBSET (Devices \cup {"number"})]
        /\ \A g \in Handlers \ {h} : accepted'[g] = accepted[g]
        /\ accepted'[h] \subseteq Recipients(h) /\ accepted[h] \subseteq accepted'[h]
    <3>1. accepted \in [Handlers -> SUBSET (Devices \cup {"number"})]
      BY <1>1 DEF AdapterTypes
    <3>2. CASE accepted' = accepted
      BY <2>2, <3>1, <3>2
    <3>3. CASE accepted' = [accepted EXCEPT ![h] = accepted[h] \cup {d}]
      BY <2>2, <3>1, <3>3
    <3>. QED
      BY <2>1, <3>2, <3>3
  <2>4. /\ Registers' /\ outcome' \in [Handlers -> Outcomes]
        /\ outcome'[h] = "sent" => accepted'[h] = Recipients(h)
        /\ \A s \in stray' : s \in Handlers \X (Devices \cup {"number"}) /\ s[2] \in Recipients(s[1])
    <3>1. Registers' /\ outcome' \in [Handlers -> Outcomes]
      BY <1>1, <2>1 DEF Registers, AdapterTypes
    <3>2. outcome[h] = "sent" => accepted[h] = Recipients(h)
      BY <1>1 DEF SentReachesAll
    <3>3. outcome'[h] = "sent" => accepted'[h] = Recipients(h)
      BY <2>1, <2>3, <3>2
    <3>4. \A s \in stray : s \in Handlers \X (Devices \cup {"number"}) /\ s[2] \in Recipients(s[1])
      BY <1>1 DEF AdapterTypes
    <3>. QED
      BY <2>1, <3>1, <3>3, <3>4
  <2>. QED
    BY <2>1, <2>3, <2>4, AttemptEnds
<1>. QED
  BY <1>2, <1>3, <1>4, <1>5, <1>6, <1>7, <1>8, <1>9, <1>10, <1>11 DEF AdaptersNext

(* For any latency of the token endpoint below the margin, any devices,    *)
(* refusals, retries and late answers: no push is posted under an expired  *)
(* token, and none counts as sent that a recipient's provider has not      *)
(* accepted.                                                               *)
THEOREM PushesAreSound ==
  EnvironmentInit /\ AdaptersInit /\ [][AdaptersNext]_<<adapterState, environment>> => []PushesSound
<1>1. AdapterInv => PushesSound
  BY DEF AdapterInv, PushesSound
<1>. QED
  BY AdaptersStart, AdaptersStep, <1>1, PTL

-----------------------------------------------------------------------------
(***************************************************************************)
(* RateLimit.                                                              *)
(***************************************************************************)

\* What the counter's last window has let through.
LetThrough == IF Exceeds(hits.count) THEN HitLimit ELSE hits.count

\* The requests that the last window has let through are the last ones; the
\* first of them set the expiry, at least a window after the request that
\* lies as many before it as a window lets through.
WindowsFollow ==
  LET first == Len(passed) + 1 - LetThrough IN
  /\ LetThrough <= Len(passed)
  /\ passed # <<>> =>
       /\ LetThrough > 0
       /\ hits.expires = passed[first] + Window
       /\ first > HitLimit => passed[first] - passed[first - HitLimit] >= Window

\* The requests are in the order of their times.
PassedInOrder ==
  \A i \in DOMAIN passed :
    passed[i] <= now /\ \A j \in DOMAIN passed : i <= j => passed[i] <= passed[j]

RateTypes ==
  /\ Registers
  /\ RateTypeOK
  /\ hits = [count |-> hits.count, expires |-> hits.expires]
  /\ hits.expires \in Nat /\ hits.expires <= now + Window
  /\ passed = <<>> => hits.count = 0

\* A counter above the limit goes with a block that outlasts it.
BlockOutlasts ==
  /\ Exceeds(hits.count) => hits.expires <= blocked
  /\ Blocked => hits.expires <= blocked

RateInv == RateTypes /\ PassedInOrder /\ WindowsFollow /\ BlockOutlasts /\ RateHeld

LEMMA RateStarts == EnvironmentInit /\ RateInit => RateInv
<1> SUFFICES ASSUME EnvironmentInit, RateInit PROVE RateInv
  OBVIOUS
<1>1. /\ now = 0 /\ blocked = 0 /\ passed = <<>> /\ Registers
      /\ hits = [count |-> 0, expires |-> 0] /\ hits.count = 0 /\ hits.expires = 0
  BY RegistersStart DEF RateInit, EnvironmentInit
<1>2. HitLimit \in Nat /\ Window \in Nat
  BY RateAssumption
<1>3. RateTypes
  BY <1>1, <1>2 DEF RateTypes, RateTypeOK
<1>4. PassedInOrder /\ WindowsFollow /\ BlockOutlasts /\ RateHeld
  BY <1>1, <1>2 DEF PassedInOrder, WindowsFollow, BlockOutlasts, RateHeld, Blocked, Exceeds, LetThrough
<1>. QED
  BY <1>3, <1>4 DEF RateInv

(* A request that is let through when the counter lives is the next of the *)
(* last window; when the counter has expired, it begins a window.  Either  *)
(* way the one as many before it as two windows let through, less one,     *)
(* lies at least a window back: the last window began no less than a       *)
(* window after it.                                                        *)
LEMMA PassStep ==
  ASSUME RateInv, Increment, ~Exceeds(HitCount + 1)
  PROVE  RateInv'
<1> DEFINE n == Len(passed)
           first == n + 1 - LetThrough
<1>1. /\ ~Blocked /\ passed' = Append(passed, now) /\ blocked' = blocked
      /\ hits' = [count |-> HitCount + 1,
                  expires |-> IF HitCount = 0 THEN now + Window ELSE hits.expires]
      /\ UNCHANGED <<now, begun, at, mem>>
  BY DEF Increment, environment, requests
<1>2. /\ RateTypes /\ PassedInOrder /\ WindowsFollow /\ BlockOutlasts /\ RateHeld
      /\ Registers /\ now \in Nat /\ now \in Times /\ hits.expires \in Nat /\ blocked \in Nat
      /\ hits.count \in 0 .. HitLimit + 1 /\ hits.expires <= now + Window
      /\ passed \in Seq(Times)
      /\ HitLimit \in Nat \ {0} /\ Window \in Nat \ {0}
  BY RateAssumption, RequestsAssumption DEF RateInv, RateTypes, RateTypeOK, Registers, Times
<1>3. /\ HitCount = 0 \/ (HitCount = hits.count /\ hits.expires > now)
      /\ HitCount \in 0 .. HitLimit - 1
      /\ hits.expires > now => HitCount = hits.count /\ ~Exceeds(hits.count)
  <2>1. ~Exceeds(HitCount + 1) /\ ~(blocked > now) /\ (hits.count > HitLimit => hits.expires <= blocked)
    BY <1>1, <1>2 DEF BlockOutlasts, Exceeds, Blocked
  <2>2. HitCount = IF hits.expires > now THEN hits.count ELSE 0
    BY DEF HitCount
  <2>3. HitCount \in Nat /\ ~(HitCount + 1 > HitLimit)
    BY <1>2, <2>1, <2>2 DEF Exceeds
  <2>. QED
    BY <1>2, <2>1, <2>2, <2>3 DEF Exceeds
<1>4. /\ hits'.count = HitCount + 1 /\ ~Exceeds(hits'.count)
      /\ hits'.expires = IF HitCount = 0 THEN now + Window ELSE hits.expires
      /\ LetThrough' = HitCount + 1
  BY <1>1 DEF LetThrough, Exceeds
<1>5. /\ n \in Nat /\ Len(passed') = n + 1 /\ DOMAIN passed' = 1 .. n + 1 /\ DOMAIN passed = 1 .. n
      /\ passed'[n + 1] = now /\ \A i \in 1 .. n : passed'[i] = passed[i] /\ passed[i] \in Nat
      /\ passed' \in Seq(Times) /\ passed' # <<>>
      /\ passed = <<>> <=> n = 0
  <2>1. passed \in Seq(Nat) /\ now \in Nat
    <3>1. \A i \in 1 .. Len(passed) : passed[i] \in Times
      BY <1>2
    <3>. QED
      BY <1>2, <3>1, RequestsAssumption DEF Times
  <2>2. passed' \in Seq(Times) /\ passed' \in Seq(Nat) /\ Len(passed') = n + 1
    BY <1>1, <1>2, <2>1
  <2>3. passed'[n + 1] = now /\ \A i \in 1 .. n : passed'[i] = passed[i] /\ passed[i] \in Nat
    BY <1>1, <2>1
  <2>4. n \in Nat /\ DOMAIN passed = 1 .. n /\ (passed = <<>> <=> n = 0)
    BY <1>2
  <2>5. DOMAIN passed' = 1 .. n + 1 /\ passed' # <<>>
    <3>1. DOMAIN passed' = 1 .. Len(passed')
      BY <2>2
    <3>2. DOMAIN passed' = 1 .. n + 1
      BY <2>2, <3>1
    <3>. QED
      BY <2>4, <3>2
  <2>. QED
    BY <2>2, <2>3, <2>4, <2>5
<1> HIDE DEF n
<1>6. PassedInOrder'
  BY <1>1, <1>2, <1>5 DEF PassedInOrder
<1>7. RateTypes' /\ BlockOutlasts'
  <2>1. Registers'
    BY <1>1, <1>2 DEF Registers
  <2>2. hits' = [count |-> hits'.count, expires |-> hits'.expires]
    BY <1>1
  <2>3. hits'.expires \in Nat /\ hits'.expires <= now' + Window /\ hits'.count \in 0 .. HitLimit + 1
    BY <1>1, <1>2, <1>3, <1>4
  <2>4. BlockOutlasts'
    BY <1>1, <1>4 DEF BlockOutlasts, Blocked
  <2>. QED
    BY <1>1, <1>2, <1>5, <2>1, <2>2, <2>3, <2>4 DEF RateTypes, RateTypeOK
<1>8. /\ LetThrough \in 0 .. HitLimit /\ LetThrough <= n
      /\ n > 0 => /\ LetThrough > 0 /\ first \in 1 .. n
                  /\ hits.expires = passed[first] + Window
                  /\ first > HitLimit => passed[first] - passed[first - HitLimit] >= Window
  <2>1. LetThrough \in 0 .. HitLimit
    BY <1>2 DEF LetThrough, Exceeds
  <2>2. /\ LetThrough <= n
        /\ n > 0 => /\ LetThrough > 0
                    /\ hits.expires = passed[first] + Window
                    /\ first > HitLimit => passed[first] - passed[first - HitLimit] >= Window
    BY <1>2, <1>5 DEF WindowsFollow, n
  <2>3. n > 0 /\ LetThrough > 0 => first \in 1 .. n
    BY <1>5, <2>1, <2>2
  <2>. QED
    BY <2>1, <2>2, <2>3
<1> HIDE DEF first
\* Where the window of this request begins, and the one before it.
<1>9. CASE HitCount = 0
  <2>1. Len(passed') + 1 - LetThrough' = n + 1 /\ hits'.expires = now + Window
    BY <1>4, <1>5, <1>9
  <2>2. ASSUME n > 0 PROVE hits.expires <= now
    BY <1>2, <1>3, <1>8, <1>9, <2>2 DEF LetThrough
  <2>3. ASSUME NEW i \in 1 .. n, i <= n + 1 - HitLimit PROVE now - passed[i] >= Window
    <3>1. first \in 1 .. n /\ i <= first /\ hits.expires = passed[first] + Window
      BY <1>2, <1>5, <1>8, <2>3 DEF first
    <3>2. passed[i] <= passed[first]
      BY <1>2, <1>5, <3>1 DEF PassedInOrder
    <3>3. hits.expires <= now
      BY <1>5, <2>2, <2>3
    <3>4. passed[i] \in Nat /\ passed[first] \in Nat /\ now \in Nat /\ Window \in Nat
      BY <1>2, <1>5, <3>1
    <3>. QED
      BY <3>1, <3>2, <3>3, <3>4
  <2>4. WindowsFollow'
    <3>1. n + 1 > HitLimit => now - passed'[n + 1 - HitLimit] >= Window
      BY <1>2, <1>5, <2>3
    <3>. QED
      BY <1>2, <1>4, <1>5, <1>9, <2>1, <3>1 DEF WindowsFollow
  <2>5. RateHeld'
    <3>1. ASSUME NEW i \in 1 .. n + 1, NEW j \in 1 .. n + 1, j - i = 2 * HitLimit - 1
          PROVE  passed'[j] - passed'[i] >= Window
      <4>1. CASE j = n + 1
        BY <1>2, <1>5, <2>3, <3>1, <4>1
      <4>2. CASE j # n + 1
        <5>1. i \in 1 .. n /\ j \in 1 .. n
          BY <1>2, <1>5, <3>1, <4>2
        <5>. QED
          BY <1>2, <1>5, <3>1, <5>1 DEF RateHeld
      <4>. QED
        BY <4>1, <4>2
    <3>. QED
      BY <1>5, <1>7, <3>1 DEF RateHeld, BlockOutlasts
  <2>. QED
    BY <1>6, <1>7, <2>4, <2>5 DEF RateInv
<1>10. CASE HitCount # 0
  <2>1. /\ HitCount = hits.count /\ LetThrough = HitCount /\ n > 0
        /\ Len(passed') + 1 - LetThrough' = first /\ first \in 1 .. n
        /\ hits'.expires = hits.expires
    <3>1. HitCount = hits.count /\ ~Exceeds(hits.count) /\ LetThrough = HitCount
      BY <1>3, <1>10 DEF LetThrough
    <3>2. HitCount > 0 /\ LetThrough \in Nat /\ n > 0
      BY <1>3, <1>5, <1>8, <1>10, <3>1
    <3>. QED
      BY <1>4, <1>5, <1>8, <1>10, <3>1, <3>2 DEF first
  <2>2. ASSUME NEW i \in 1 .. n, i <= n + 2 - 2 * HitLimit PROVE now - passed[i] >= Window
    <3>1. first - HitLimit \in 1 .. n /\ i <= first - HitLimit /\ first > HitLimit
      <4>1. first = n + 1 - HitCount /\ HitCount + 1 <= HitLimit /\ HitCount \in Nat
        BY <1>2, <1>3, <2>1 DEF first
      <4>2. HitLimit \in Nat /\ n \in Nat /\ i \in Nat /\ i >= 1 /\ i <= n + 2 - 2 * HitLimit
        BY <1>2, <1>5, <2>2
      <4>3. first \in Int /\ first >= n + 2 - HitLimit /\ first <= n + 1
        BY <4>1, <4>2
      <4>. QED
        BY <1>2, <2>1, <4>2, <4>3
    <3>2. passed[i] <= passed[first - HitLimit] /\ passed[first] <= now
      BY <1>2, <1>5, <2>1, <3>1 DEF PassedInOrder
    <3>3. passed[first] - passed[first - HitLimit] >= Window
      BY <1>8, <2>1, <3>1
    <3>4. passed[i] \in Nat /\ passed[first] \in Nat /\ passed[first - HitLimit] \in Nat
      BY <1>5, <2>1, <3>1
    <3>5. now \in Nat /\ Window \in Nat
      BY <1>2
    <3>. QED
      BY <3>2, <3>3, <3>4, <3>5
  <2>3. WindowsFollow'
    <3>1. first > HitLimit => first - HitLimit \in 1 .. n
      BY <1>2, <1>5, <2>1
    <3>2. passed'[first] = passed[first] /\ (first > HitLimit => passed'[first - HitLimit] = passed[first - HitLimit])
      BY <1>5, <2>1, <3>1
    <3>3. LetThrough' \in Nat /\ LetThrough' > 0 /\ LetThrough' <= n + 1
      <4>1. HitCount \in Nat /\ LetThrough' = HitCount + 1 /\ n \in Nat /\ HitCount <= n
        BY <1>2, <1>3, <1>4, <1>5, <1>8, <2>1
      <4>. QED
        BY <4>1
    <3>. QED
      BY <1>5, <1>8, <2>1, <3>2, <3>3 DEF WindowsFollow
  <2>4. RateHeld'
    <3>1. ASSUME NEW i \in 1 .. n + 1, NEW j \in 1 .. n + 1, j - i = 2 * HitLimit - 1
          PROVE  passed'[j] - passed'[i] >= Window
      <4>1. CASE j = n + 1
        BY <1>2, <1>5, <2>2, <3>1, <4>1
      <4>2. CASE j # n + 1
        <5>1. i \in 1 .. n /\ j \in 1 .. n
          BY <1>2, <1>5, <3>1, <4>2
        <5>. QED
          BY <1>2, <1>5, <3>1, <5>1 DEF RateHeld
      <4>. QED
        BY <4>1, <4>2
    <3>. QED
      BY <1>5, <1>7, <3>1 DEF RateHeld, BlockOutlasts
  <2>. QED
    BY <1>6, <1>7, <2>3, <2>4 DEF RateInv
<1>. QED
  BY <1>9, <1>10

LEMMA RateStep == RateInv /\ [RateNext]_<<rateState, environment>> => RateInv'
<1>1. ASSUME RateInv PROVE /\ Registers /\ now \in Nat /\ RateTypes /\ hits.expires \in Nat
                           /\ hits.count \in 0 .. HitLimit + 1 /\ blocked \in Nat
                           /\ HitLimit \in Nat \ {0} /\ Window \in Nat \ {0}
                           /\ BlockDuration \in Nat /\ BlockDuration >= Window
  BY <1>1, RateAssumption, RequestsAssumption DEF RateInv, RateTypes, RateTypeOK, Registers, Times
<1>2. ASSUME RateInv, UNCHANGED <<rateState, environment>> PROVE RateInv'
  BY <1>2 DEF RateInv, RateTypes, RateTypeOK, PassedInOrder, WindowsFollow, LetThrough, BlockOutlasts,
              Blocked, RateHeld, Registers, rateState, environment, requests
<1>3. ASSUME RateInv, RateTick PROVE RateInv'
  <2>1. Registers' /\ UNCHANGED <<hits, blocked, passed>> /\ now' = now + 1
    BY <1>1, <1>3, ClockMoves DEF RateTick, PassTime, rateState
  <2>2. RateTypes' /\ WindowsFollow' /\ BlockOutlasts' /\ RateHeld'
    <3>1. RateTypes'
      <4>1. hits.expires <= now + Window
        BY <1>3 DEF RateInv, RateTypes
      <4>2. hits'.expires <= now' + Window
        BY <1>1, <1>3, <2>1, <4>1
      <4>. QED
        BY <1>3, <2>1, <4>2 DEF RateInv, RateTypes, RateTypeOK
    <3>2. WindowsFollow'
      BY <1>3, <2>1 DEF RateInv, WindowsFollow, LetThrough
    <3>3. BlockOutlasts'
      BY <1>1, <1>3, <2>1 DEF RateInv, BlockOutlasts, Blocked
    <3>4. RateHeld'
      BY <1>3, <2>1, <3>3 DEF RateInv, RateHeld, BlockOutlasts
    <3>. QED
      BY <3>1, <3>2, <3>3, <3>4
  <2>3. PassedInOrder'
    <3>1. \A i \in DOMAIN passed : passed[i] \in Nat
      BY <1>3, RequestsAssumption DEF RateInv, RateTypes, RateTypeOK, Times
    <3>. QED
      BY <1>1, <1>3, <2>1, <3>1 DEF RateInv, PassedInOrder
  <2>. QED
    BY <2>2, <2>3 DEF RateInv
<1>4. ASSUME RateInv, Increment, Exceeds(HitCount + 1) PROVE RateInv'
  <2>1. /\ ~Blocked /\ blocked' = now + BlockDuration /\ passed' = passed
        /\ hits' = [count |-> HitCount + 1,
                    expires |-> IF HitCount = 0 THEN now + Window ELSE hits.expires]
        /\ UNCHANGED <<now, begun, at, mem>>
    BY <1>4 DEF Increment, environment, requests
  <2>2. HitCount = hits.count /\ HitCount = HitLimit /\ hits.expires > now
    BY <1>1, <1>4, <2>1 DEF HitCount, Exceeds, RateInv, BlockOutlasts, Blocked
  <2>3. /\ hits'.count = HitLimit + 1 /\ hits'.expires = hits.expires
        /\ hits' = [count |-> hits'.count, expires |-> hits'.expires]
        /\ LetThrough = HitLimit /\ LetThrough' = HitLimit
    <3>1. HitCount # 0 /\ HitCount + 1 = HitLimit + 1
      BY <1>1, <1>4, <2>2
    <3>2. hits'.count = HitCount + 1 /\ hits'.expires = hits.expires
      BY <2>1, <3>1
    <3>3. HitLimit + 1 > HitLimit
      BY <1>1, <1>4
    <3>4. Exceeds(hits'.count) /\ hits.count = HitLimit /\ hits'.count = HitLimit + 1
      BY <2>2, <3>1, <3>2, <3>3 DEF Exceeds
    <3>. QED
      BY <2>1, <3>2, <3>4 DEF LetThrough
  <2>4. /\ RateTypes' /\ BlockOutlasts' /\ PassedInOrder'
    BY <1>1, <1>4, <2>1, <2>2, <2>3 DEF RateInv, RateTypes, RateTypeOK, BlockOutlasts, PassedInOrder,
                                        Registers, Blocked
  <2>5. WindowsFollow' /\ RateHeld'
    BY <1>4, <2>1, <2>3, <2>4 DEF RateInv, WindowsFollow, RateHeld, BlockOutlasts
  <2>. QED
    BY <2>4, <2>5 DEF RateInv
<1>. QED
  BY <1>2, <1>3, <1>4, PassStep DEF RateNext

(* For any limit, window and duration of the block, any stretch as long as *)
(* the window lets less than twice the limit through, and a block outlasts *)
(* the counter that caused it.                                             *)
THEOREM RateIsHeld ==
  EnvironmentInit /\ RateInit /\ [][RateNext]_<<rateState, environment>> => []RateHeld
<1>1. RateInv => RateHeld
  BY DEF RateInv
<1>. QED
  BY RateStarts, RateStep, <1>1, PTL

-----------------------------------------------------------------------------
(***************************************************************************)
(* The composition.  A behaviour exercises one part from its start to its  *)
(* end: the component of that part moves by its own next-state relation,   *)
(* and the others rest.                                                    *)
(***************************************************************************)

(* What the parts of AccountNext do in a step of the whole. *)
LEMMA AccountRuns ==
  [Next]_vars =>
    /\ part' = part
    /\ part = "auth" => [AuthNext]_authVars
    /\ part = "messaging" => [MessagingNext]_messagingVars
    /\ part = "settings" => [SettingsNext]_settingsVars
    /\ part # "auth" => UNCHANGED authState
    /\ part # "messaging" => UNCHANGED messagingState
    /\ part # "settings" => UNCHANGED settings
<1>1. CASE AccountNext
  BY <1>1 DEF AccountNext, authVars, messagingVars, settingsVars, authState, messagingState
<1>2. CASE EvidenceNext \/ PlumbingNext \/ ExchangeNext \/ ClientsNext
  <2>1. UNCHANGED <<part, accountState>> /\ part \notin {"auth", "messaging", "settings"}
    BY <1>2 DEF EvidenceNext, PlumbingNext, ExchangeNext, ClientsNext, ScreensNext, FollowersNext
  <2>. QED
    BY <2>1 DEF accountState
<1>3. CASE UNCHANGED vars
  BY <1>3 DEF vars, accountState, authVars, messagingVars, settingsVars, authState, messagingState
<1>. QED
  BY <1>1, <1>2, <1>3 DEF Next

(* What the parts of EvidenceNext do in a step of the whole. *)
LEMMA EvidenceRuns ==
  [Next]_vars =>
    /\ part' = part
    /\ part = "warnings" => [WarningNext]_warningVars
    /\ part = "media" => [MediaNext]_mediaVars
    /\ part = "confidence" => [ConfidenceNext]_confidenceVars
    /\ part # "warnings" => UNCHANGED warningState
    /\ part # "media" => UNCHANGED mediaState
    /\ part # "confidence" => UNCHANGED evidenceState
<1>1. CASE EvidenceNext
  BY <1>1 DEF EvidenceNext, warningVars, mediaVars, confidenceVars
<1>2. CASE AccountNext \/ PlumbingNext \/ ExchangeNext \/ ClientsNext
  <2>1. UNCHANGED <<part, evidence>> /\ part \notin {"warnings", "media", "confidence"}
    BY <1>2 DEF AccountNext, PlumbingNext, ExchangeNext, ClientsNext, ScreensNext, FollowersNext
  <2>. QED
    BY <2>1 DEF evidence
<1>3. CASE UNCHANGED vars
  BY <1>3 DEF vars, evidence, warningVars, mediaVars, confidenceVars
<1>. QED
  BY <1>1, <1>2, <1>3 DEF Next

(* What the parts of PlumbingNext do in a step of the whole. *)
LEMMA PlumbingRuns ==
  [Next]_vars =>
    /\ part' = part
    /\ part = "routes" => [RouteNext]_routeVars
    /\ part = "lookups" => [GeocodingNext]_geocodingVars
    /\ part = "jobs" => [JobNext]_jobVars
    /\ part # "routes" => UNCHANGED routeState
    /\ part # "lookups" => UNCHANGED lookups
    /\ part # "jobs" => UNCHANGED jobState
<1>1. CASE PlumbingNext
  BY <1>1 DEF PlumbingNext, routeVars, geocodingVars, jobVars
<1>2. CASE AccountNext \/ EvidenceNext \/ ExchangeNext \/ ClientsNext
  <2>1. UNCHANGED <<part, plumbing>> /\ part \notin {"routes", "lookups", "jobs"}
    BY <1>2 DEF AccountNext, EvidenceNext, ExchangeNext, ClientsNext, ScreensNext, FollowersNext
  <2>. QED
    BY <2>1 DEF plumbing
<1>3. CASE UNCHANGED vars
  BY <1>3 DEF vars, plumbing, routeVars, geocodingVars, jobVars
<1>. QED
  BY <1>1, <1>2, <1>3 DEF Next

(* What the parts of ExchangeNext do in a step of the whole. *)
LEMMA ExchangeRuns ==
  [Next]_vars =>
    /\ part' = part
    /\ part = "association" => [AssociationNext]_<<reportState, environment>>
    /\ part = "adapters" => [AdaptersNext]_<<adapterState, environment>>
    /\ part = "limits" => [RateNext]_<<rateState, environment>>
    /\ part # "association" => UNCHANGED reportState
    /\ part # "adapters" => UNCHANGED adapterState
    /\ part # "limits" => UNCHANGED rateState
<1>1. CASE ExchangeNext
  BY <1>1 DEF ExchangeNext
<1>2. CASE AccountNext \/ EvidenceNext \/ PlumbingNext \/ ClientsNext
  <2>1. UNCHANGED <<part, exchange>> /\ part \notin {"association", "adapters", "limits"}
    BY <1>2 DEF AccountNext, EvidenceNext, PlumbingNext, ClientsNext, ScreensNext, FollowersNext
  <2>. QED
    BY <2>1 DEF exchange
<1>3. CASE UNCHANGED vars
  BY <1>3 DEF vars, exchange
<1>. QED
  BY <1>1, <1>2, <1>3 DEF Next

(* What the parts of ClientsNext do in a step of the whole. *)
LEMMA ClientsRuns ==
  [Next]_vars =>
    /\ part' = part
    /\ part = "client" => [ClientNext]_<<clientState, environment>>
    /\ part = "search" => [SearchNext]_searchState
    /\ part = "live" => [LiveNext]_<<liveState, environment>>
    /\ part = "home" => [HomeNext]_homeState
    /\ part = "feed" => [FeedNext]_<<feedState, environment>>
    /\ part = "pages" => [PagesNext]_<<pageState, environment>>
    /\ part # "client" => UNCHANGED clientState
    /\ part # "search" => UNCHANGED searchState
    /\ part # "live" => UNCHANGED liveState
    /\ part # "home" => UNCHANGED homeState
    /\ part # "feed" => UNCHANGED feedState
    /\ part # "pages" => UNCHANGED pageState
<1>1. CASE ClientsNext
  BY <1>1 DEF ClientsNext, ScreensNext, FollowersNext
<1>2. CASE AccountNext \/ EvidenceNext \/ PlumbingNext \/ ExchangeNext
  <2>1. UNCHANGED <<part, clients>> /\ part \notin {"client", "search", "live", "home", "feed", "pages"}
    BY <1>2 DEF AccountNext, EvidenceNext, PlumbingNext, ExchangeNext
  <2>. QED
    BY <2>1 DEF clients
<1>3. CASE UNCHANGED vars
  BY <1>3 DEF vars, clients
<1>. QED
  BY <1>1, <1>2, <1>3 DEF Next

-----------------------------------------------------------------------------
(* The component of the part that is exercised keeps its own invariant; of *)
(* the others, what the properties need of a component at rest is enough.  *)

AccountsSound ==
  /\ part = "auth" => SpendInv
  /\ part = "messaging" => MessagingInv
  /\ part = "settings" => SettingsInv
  /\ part # "auth" => TokenSpentOnce
  /\ part # "messaging" => CodeUsedOnce /\ VerifiedNumber /\ ~Reachable
  /\ part # "settings" => SettingsKept

EvidenceSound ==
  /\ part = "warnings" => WarningInv
  /\ part = "media" => MediaInv
  /\ part = "confidence" => ConfidenceInv
  /\ part # "warnings" => warning = evaluated
  /\ part # "media" => AttachmentCap

PlumbingSound ==
  /\ part = "routes" => RouteInv
  /\ part = "lookups" => LookupInv
  /\ part = "jobs" => JobInv
  /\ part # "routes" => preview = NoPreview
  /\ part # "lookups" => LookupsUsable
  /\ part # "jobs" => jobs = <<>>

ExchangeSound ==
  /\ part = "association" => AssociationInv /\ AssociationBounds
  /\ part = "adapters" => AdapterInv
  /\ part = "limits" => RateInv
  /\ part # "association" => ReportsAssociatedOnce
  /\ part # "adapters" => vendors = {} /\ SentReachesAll
  /\ part # "limits" => hits.expires = 0 /\ blocked = 0 /\ passed = <<>>

ClientsSound ==
  /\ part = "client" => ClientInv /\ ClientBounds
  /\ part = "search" => SearchInv /\ SearchTyped
  /\ part = "live" => LiveInv /\ LiveTyped
  /\ part = "home" => HomeInv /\ HomeTyped
  /\ part = "feed" => FeedInv /\ FeedBounds
  /\ part = "pages" => PagesInv /\ PagesBounds
  /\ part # "client" => tokens = SignedOut
  /\ part # "home" => HomeMapCurrent
  /\ part # "feed" => \A i \in Incidents : markers[i].updated >= cursor
  /\ part # "pages" => page # 0

Sound == AccountsSound /\ EvidenceSound /\ PlumbingSound /\ ExchangeSound /\ ClientsSound

(* Every component starts as it does alone. *)
LEMMA AccountsStart == Init => AccountsSound
<1> SUFFICES ASSUME Init PROVE AccountsSound
  OBVIOUS
<1>1. AuthInit /\ MessagingInit /\ SettingsInit
  BY DEF Init
<1>2. SpendInv /\ MessagingInv /\ SettingsInv
  BY <1>1, SpendInit, MessagingStarts, SettingsStart
<1>3. TokenSpentOnce /\ CodeUsedOnce /\ VerifiedNumber /\ SettingsKept
  BY <1>2 DEF SpendInv, MessagingInv, SettingsInv, SettingsKept
<1>4. ~Reachable
  BY <1>1 DEF MessagingInit, Reachable
<1>. QED
  BY <1>2, <1>3, <1>4 DEF AccountsSound

LEMMA EvidenceStart == Init => EvidenceSound
<1> SUFFICES ASSUME Init PROVE EvidenceSound
  OBVIOUS
<1>1. WarningInit /\ MediaInit /\ ConfidenceInit
  BY DEF Init
<1>2. WarningInv /\ MediaInv /\ ConfidenceInv
  BY <1>1, WarningStarts, MediaStarts, ConfidenceStarts
<1>3. warning = evaluated /\ AttachmentCap
  BY <1>1, <1>2 DEF WarningInit, MediaInv
<1>. QED
  BY <1>2, <1>3 DEF EvidenceSound

LEMMA PlumbingStart == Init => PlumbingSound
<1> SUFFICES ASSUME Init PROVE PlumbingSound
  OBVIOUS
<1>1. RouteInit /\ GeocodingInit /\ JobInit
  BY DEF Init
<1>2. RouteInv /\ LookupInv /\ JobInv
  BY <1>1, RouteStarts, LookupStarts, JobStarts
<1>3. preview = NoPreview /\ LookupsUsable /\ jobs = <<>>
  BY <1>1, <1>2 DEF RouteInit, LookupInv, JobInit
<1>. QED
  BY <1>2, <1>3 DEF PlumbingSound

LEMMA ExchangeStart == Init => ExchangeSound
<1> SUFFICES ASSUME Init PROVE ExchangeSound
  OBVIOUS
<1>1. /\ EnvironmentInit /\ AssociationInit /\ AdaptersInit /\ RateInit
      /\ part # "adapters" => vendors = {}
  BY DEF Init, AuthInit
<1>2. AssociationInv /\ AssociationBounds /\ AdapterInv /\ RateInv
  BY <1>1, AssociationStarts, AssociationBoundsStart, AdaptersStart, RateStarts
<1>3. /\ ReportsAssociatedOnce /\ SentReachesAll
      /\ hits.expires = 0 /\ blocked = 0 /\ passed = <<>>
  BY <1>1, <1>2 DEF AssociationInv, AdapterInv, RateInit
<1>. QED
  BY <1>1, <1>2, <1>3 DEF ExchangeSound

LEMMA ClientsStart == Init => ClientsSound
<1> SUFFICES ASSUME Init PROVE ClientsSound
  OBVIOUS
<1>1. /\ EnvironmentInit /\ ClientInit /\ SearchInit /\ LiveInit /\ HomeInit
      /\ FeedInit /\ PagesInit
  BY DEF Init, AuthInit
<1>2. ClientInv /\ ClientBounds /\ SearchInv /\ SearchTyped /\ LiveInv /\ LiveTyped
  BY <1>1, ClientStarts, ClientBoundsStart, SearchStarts, SearchTypesStart, LiveStarts,
     LiveTypesStart
<1>3. HomeInv /\ HomeTyped /\ FeedInv /\ FeedBounds /\ PagesInv /\ PagesBounds
  BY <1>1, HomeStarts, HomeTypesStart, FeedStarts, FeedBoundsStart, PagesStarts, PagesBoundsStart
<1>4. tokens = SignedOut /\ page # 0
  BY <1>1 DEF ClientInit, PagesInit
<1>5. HomeMapCurrent
  BY <1>1 DEF HomeInit, HomeMapCurrent
<1>6. \A i \in Incidents : markers[i].updated >= cursor
  BY <1>1 DEF FeedInit, NULL
<1>. QED
  BY <1>2, <1>3, <1>4, <1>5, <1>6 DEF ClientsSound

(* A step moves one component, by its own next-state relation.             *)
LEMMA AccountsKept == AccountsSound /\ [Next]_vars => AccountsSound'
<1> SUFFICES ASSUME AccountsSound, [Next]_vars PROVE AccountsSound'
  OBVIOUS
<1>1. part' = part
  BY AccountRuns
<1>2. part = "auth" => SpendInv'
  BY AccountRuns, SpendNext DEF AccountsSound
<1>3. part = "messaging" => MessagingInv'
  BY AccountRuns, MessagingStep DEF AccountsSound
<1>4. part = "settings" => SettingsInv'
  BY AccountRuns, SettingsStep DEF AccountsSound
<1>5. part # "auth" => TokenSpentOnce'
  BY AccountRuns DEF AccountsSound, authState, TokenSpentOnce
<1>6. part # "messaging" => (CodeUsedOnce /\ VerifiedNumber /\ ~Reachable)'
  BY AccountRuns DEF AccountsSound, messagingState, deviceVars, phoneVars, CodeUsedOnce,
     VerifiedNumber, Reachable
<1>7. part # "settings" => SettingsKept'
  BY AccountRuns DEF AccountsSound, settings, SettingsKept, PlacesWellFormed, ChoiceKept
<1>. QED
  BY <1>1, <1>2, <1>3, <1>4, <1>5, <1>6, <1>7 DEF AccountsSound

LEMMA EvidenceKept == EvidenceSound /\ [Next]_vars => EvidenceSound'
<1> SUFFICES ASSUME EvidenceSound, [Next]_vars PROVE EvidenceSound'
  OBVIOUS
<1>1. part' = part
  BY EvidenceRuns
<1>2. part = "warnings" => WarningInv'
  BY EvidenceRuns, WarningStepInv DEF EvidenceSound
<1>3. part = "media" => MediaInv'
  BY EvidenceRuns, MediaStep DEF EvidenceSound
<1>4. part = "confidence" => ConfidenceInv'
  BY EvidenceRuns, ConfidenceStep DEF EvidenceSound
<1>5. part # "warnings" => (warning = evaluated)'
  BY EvidenceRuns DEF EvidenceSound, warningState
<1>6. part # "media" => AttachmentCap'
  BY EvidenceRuns DEF EvidenceSound, mediaState, AttachmentCap, Attached
<1>. QED
  BY <1>1, <1>2, <1>3, <1>4, <1>5, <1>6 DEF EvidenceSound

LEMMA PlumbingKept == PlumbingSound /\ [Next]_vars => PlumbingSound'
<1> SUFFICES ASSUME PlumbingSound, [Next]_vars PROVE PlumbingSound'
  OBVIOUS
<1>1. part' = part
  BY PlumbingRuns
<1>2. part = "routes" => RouteInv'
  BY PlumbingRuns, RouteStep DEF PlumbingSound
<1>3. part = "lookups" => LookupInv'
  BY PlumbingRuns, LookupStep DEF PlumbingSound
<1>4. part = "jobs" => JobInv'
  BY PlumbingRuns, JobStep DEF PlumbingSound
<1>5. part # "routes" => (preview = NoPreview)'
  BY PlumbingRuns DEF PlumbingSound, routeState
<1>6. part # "lookups" => LookupsUsable'
  BY PlumbingRuns DEF PlumbingSound, LookupsUsable
<1>7. part # "jobs" => (jobs = <<>>)'
  BY PlumbingRuns DEF PlumbingSound, jobState
<1>. QED
  BY <1>1, <1>2, <1>3, <1>4, <1>5, <1>6, <1>7 DEF PlumbingSound

LEMMA ExchangeKept == ExchangeSound /\ [Next]_vars => ExchangeSound'
<1> SUFFICES ASSUME ExchangeSound, [Next]_vars PROVE ExchangeSound'
  OBVIOUS
<1>1. part' = part
  BY ExchangeRuns
<1>2. part = "association" => (AssociationInv /\ AssociationBounds)'
  BY ExchangeRuns, AssociationStep, AssociationBoundsStep DEF ExchangeSound
<1>3. part = "adapters" => AdapterInv'
  BY ExchangeRuns, AdaptersStep DEF ExchangeSound
<1>4. part = "limits" => RateInv'
  BY ExchangeRuns, RateStep DEF ExchangeSound
<1>5. part # "association" => ReportsAssociatedOnce'
  BY ExchangeRuns DEF ExchangeSound, reportState, ReportsAssociatedOnce, OneIncidentPerPlace, NoRepeatedReport
<1>6. part # "adapters" => (vendors = {} /\ SentReachesAll)'
  BY ExchangeRuns DEF ExchangeSound, adapterState, SentReachesAll, Recipients
<1>7. part # "limits" => (hits.expires = 0 /\ blocked = 0 /\ passed = <<>>)'
  BY ExchangeRuns DEF ExchangeSound, rateState
<1>. QED
  BY <1>1, <1>2, <1>3, <1>4, <1>5, <1>6, <1>7 DEF ExchangeSound

LEMMA ClientsKept == ClientsSound /\ [Next]_vars => ClientsSound'
<1> SUFFICES ASSUME ClientsSound, [Next]_vars PROVE ClientsSound'
  OBVIOUS
<1>1. part' = part
  BY ClientsRuns
<1>2. part = "client" => (ClientInv /\ ClientBounds)'
  BY ClientsRuns, ClientStep, ClientBoundsStep DEF ClientsSound
<1>3. part = "search" => (SearchInv /\ SearchTyped)'
  BY ClientsRuns, SearchKeeps, SearchTypesStep DEF ClientsSound
<1>4. part = "live" => (LiveInv /\ LiveTyped)'
  BY ClientsRuns, LiveKeeps, LiveTypesStep DEF ClientsSound
<1>5. part = "home" => (HomeInv /\ HomeTyped)'
  BY ClientsRuns, HomeStep, HomeTypesStep DEF ClientsSound
<1>6. part = "feed" => (FeedInv /\ FeedBounds)'
  BY ClientsRuns, FeedStep, FeedBoundsStep DEF ClientsSound
<1>7. part = "pages" => (PagesInv /\ PagesBounds)'
  BY ClientsRuns, PagesStep, PagesBoundsStep DEF ClientsSound
<1>8. part # "client" => (tokens = SignedOut)'
  BY ClientsRuns DEF ClientsSound, clientState
<1>9. part # "home" => HomeMapCurrent'
  BY ClientsRuns DEF ClientsSound, homeState, view, position, shownFeed, HomeMapCurrent
<1>10. part # "feed" => (\A i \in Incidents : markers[i].updated >= cursor)'
  BY ClientsRuns DEF ClientsSound, feedState
<1>11. part # "pages" => (page # 0)'
  BY ClientsRuns DEF ClientsSound, pageState
<1>. QED
  BY <1>1, <1>2, <1>3, <1>4, <1>5, <1>6, <1>7, <1>8, <1>9, <1>10, <1>11 DEF ClientsSound

(* Every component keeps its invariant, whichever part is exercised.       *)
THEOREM EveryPartIsSound == Spec => []Sound
<1>1. Init => Sound
  BY AccountsStart, EvidenceStart, PlumbingStart, ExchangeStart, ClientsStart DEF Sound
<1>2. Sound /\ [Next]_vars => Sound'
  BY AccountsKept, EvidenceKept, PlumbingKept, ExchangeKept, ClientsKept DEF Sound
<1>. QED
  BY <1>1, <1>2, PTL DEF Spec

(* What the invariants of the components say of the rows and the memory.   *)
LEMMA SoundTypes == Sound => TypeOK
<1> SUFFICES ASSUME Sound PROVE TypeOK
  OBVIOUS
<1>1. part = "auth" => AuthTypeOK
  BY DEF Sound, AccountsSound, SpendInv, AuthTypes
<1>2. part = "messaging" => MessagingTypeOK
  BY DEF Sound, AccountsSound, MessagingInv
<1>3. part = "settings" => SettingsTypeOK
  BY DEF Sound, AccountsSound, SettingsInv
<1>4. part = "warnings" => WarningTypeOK
  BY DEF Sound, EvidenceSound, WarningInv
<1>5. part = "media" => MediaTypeOK
  BY DEF Sound, EvidenceSound, MediaInv
<1>6. part = "confidence" => ConfidenceTypeOK
  BY ConfidenceTypes DEF Sound, EvidenceSound
<1>7. part = "routes" => RouteTypeOK
  BY DEF Sound, PlumbingSound, RouteInv, RouteTypes, RouteMemory, RouteTypeOK
<1>8. part = "lookups" => GeocodingTypeOK
  BY DEF Sound, PlumbingSound, LookupInv
<1>9. part = "jobs" => JobTypeOK
  BY IdEvent DEF Sound, PlumbingSound, JobInv, JobRows, JobRow, JobTypeOK
<1>10. part = "association" => AssociationTypeOK
  BY AssociationTypes DEF Sound, ExchangeSound
<1>11. part = "adapters" => AdaptersTypeOK
  <2> SUFFICES ASSUME AdapterInv PROVE AdaptersTypeOK
    BY DEF Sound, ExchangeSound
  <2>1. cache.until \in Nat \cup {NULL} /\ cache.expires <= cache.until
    BY DEF AdapterInv, AdapterTypes, TokensTimed, NULL
  <2>2. outcome \in [Handlers -> {"none", "failed", "sent"}]
    BY DEF AdapterInv, AdapterTypes, Outcomes
  <2>. QED
    BY <2>1, <2>2 DEF AdapterInv, AdapterTypes, AdaptersTypeOK
<1>12. part = "limits" => RateTypeOK
  BY DEF Sound, ExchangeSound, RateInv, RateTypes
<1>13. part = "client" => ClientTypeOK
  BY ClientTypeCorrect DEF Sound, ClientsSound
<1>14. part = "search" => SearchTypeOK
  BY SearchTypes DEF Sound, ClientsSound
<1>15. part = "live" => LiveTypeOK
  BY LiveTypeCorrect DEF Sound, ClientsSound
<1>16. part = "home" => HomeTypeOK
  BY HomeTypeCorrect DEF Sound, ClientsSound
<1>17. part = "feed" => FeedTypeOK
  BY FeedTypeCorrect DEF Sound, ClientsSound
<1>18. part = "pages" => PagesTypeOK
  BY PagesTypeCorrect DEF Sound, ClientsSound
<1>. QED
  BY <1>1, <1>2, <1>3, <1>4, <1>5, <1>6, <1>7, <1>8, <1>9, <1>10, <1>11, <1>12, <1>13, <1>14,
     <1>15, <1>16, <1>17, <1>18, Zenon DEF TypeOK

(* What they say of what the components promise. *)
LEMMA SoundAccounts ==
  Sound => TokenSpentOnce /\ SettingsKept /\ CodeUsedOnce /\ VerifiedNumber /\ RevokedDeviceSilent
<1> SUFFICES ASSUME Sound PROVE TokenSpentOnce /\ SettingsKept /\ CodeUsedOnce /\ VerifiedNumber
                               /\ RevokedDeviceSilent
  OBVIOUS
<1>1. TokenSpentOnce
  BY DEF Sound, AccountsSound, SpendInv
<1>2. SettingsKept
  BY DEF Sound, AccountsSound, SettingsInv, SettingsKept
<1>3. CodeUsedOnce /\ VerifiedNumber /\ RevokedDeviceSilent
  BY DestinationsSound DEF Sound, AccountsSound, RevokedDeviceSilent
<1>. QED
  BY <1>1, <1>2, <1>3

LEMMA SoundPlumbing == Sound => PlanningSound /\ EvaluatedOnce
<1> SUFFICES ASSUME Sound PROVE PlanningSound /\ EvaluatedOnce
  OBVIOUS
<1>1. PlanningSound
  <2>1. RecommendationSound /\ PreviewUsable
    BY DEF Sound, PlumbingSound, RouteInv, RecommendationSound, PreviewUsable
  <2>2. LookupsUsable
    BY DEF Sound, PlumbingSound, LookupInv
  <2>. QED
    BY <2>1, <2>2 DEF PlanningSound
<1>2. CASE part = "jobs"
  BY <1>1, <1>2, JobsEvaluateOnce DEF Sound, PlumbingSound
<1>3. CASE part # "jobs"
  <2>1. DOMAIN jobs = {}
    BY <1>3 DEF Sound, PlumbingSound
  <2>2. \A name, event : JobsOf(name, event) = {}
    BY <2>1 DEF JobsOf
  <2>3. \A name \in Evaluations, event \in 1 .. begun : Cardinality(JobsOf(name, event)) <= 1
    <3>1. Cardinality({}) <= 1
      BY FS_EmptySet
    <3>. QED
      BY <2>2, <3>1
  <2>4. EvaluatedOnce
    BY <2>1, <2>3, Zenon DEF EvaluatedOnce
  <2>. QED
    BY <1>1, <2>4
<1>. QED
  BY <1>2, <1>3

LEMMA SoundExchange == Sound => ReportsAssociatedOnce /\ PushesSound /\ LimitsHeld
<1> SUFFICES ASSUME Sound PROVE ReportsAssociatedOnce /\ PushesSound /\ LimitsHeld
  OBVIOUS
<1>1. ReportsAssociatedOnce
  BY DEF Sound, ExchangeSound, AssociationInv
<1>2. PushesSound
  BY DEF Sound, ExchangeSound, AdapterInv, PushesSound, BearerValid, Firebase
<1>3. AttachmentCap
  BY DEF Sound, EvidenceSound, MediaInv
<1>4. RateHeld
  BY DEF Sound, ExchangeSound, RateInv, RateHeld
<1>. QED
  BY <1>1, <1>2, <1>3, <1>4 DEF LimitsHeld

LEMMA SoundClients == Sound => ChangesAreEvaluated /\ QuietClientIsCurrent /\ ListsComplete /\ HomeMapCurrent
<1> SUFFICES ASSUME Sound
             PROVE  ChangesAreEvaluated /\ QuietClientIsCurrent /\ ListsComplete /\ HomeMapCurrent
  OBVIOUS
<1>1. ChangesAreEvaluated
  BY DEF Sound, EvidenceSound, WarningInv, ChangesAreEvaluated
<1>2. QuietClientIsCurrent
  BY DEF Sound, ClientsSound, ClientInv, TokensCurrent, QuietClientIsCurrent, Free
<1>3. FeedComplete
  BY DEF Sound, ClientsSound, FeedInv, FeedComplete
<1>4. WalkComplete
  BY DEF Sound, ClientsSound, PagesInv, WalkComplete
<1>5. HomeMapCurrent
  BY DEF Sound, ClientsSound, HomeInv, HomeMapCurrent, FeedsNumbered, KeptNumbered, LoadedDraws
<1>. QED
  BY <1>1, <1>2, <1>3, <1>4, <1>5 DEF ListsComplete

(* The rows and the memory of every component that is exercised are typed. *)
THEOREM ServicesTypeCorrect == Spec => []TypeOK
BY EveryPartIsSound, SoundTypes, PTL

(* However the requests of one session or of several interleave, at most   *)
(* one is given the successor of a refresh token.                          *)
THEOREM TokensAreSpentOnce == Spec => []TokenSpentOnce
BY EveryPartIsSound, SoundAccounts, PTL

(* No report gets more photos than allowed, however many are authorised at *)
(* once, and any stretch as long as the window lets less than twice the    *)
(* limit of requests through, for any limits.                              *)
THEOREM LimitsAreHeld == Spec => []LimitsHeld
BY EveryPartIsSound, SoundExchange, PTL

(* The cached recommendation is the best eligible route at the risks read, *)
(* and the cached lookups are usable, for any routes, weights and limits.  *)
THEOREM PlanningIsSound == Spec => []PlanningSound
BY EveryPartIsSound, SoundPlumbing, PTL

(* Neither the incremental feed nor a walk through the pages passes over a *)
(* row, except in the ways the modules name, for any rows and page size.   *)
THEOREM ListsAreComplete == Spec => []ListsComplete
BY EveryPartIsSound, SoundClients, PTL

(* A user's places and preferences stay what the user made them, whichever *)
(* updates and inserts of defaults overlap.                                *)
THEOREM SettingsStayKept == Spec => []SettingsKept
BY EveryPartIsSound, SoundAccounts, PTL

(* A change of a warning is evaluated, or its event is on the way or among *)
(* those the module names as lost.                                         *)
THEOREM ChangesStayEvaluated == Spec => []ChangesAreEvaluated
BY EveryPartIsSound, SoundClients, PTL

(* Through any retries, stalls and failing adds nothing is evaluated by    *)
(* two jobs of a kind, a job that completes has queued the evaluation of   *)
(* alerts, and only the job of an incident's change fails without a fault, *)
(* after it wrote window and confidence.                                   *)
THEOREM ChangesAreEvaluatedOnce == Spec => []EvaluatedOnce
BY EveryPartIsSound, SoundPlumbing, PTL

(* Reports are stored and associated once, whatever transactions overlap.  *)
THEOREM ReportsStayAssociated == Spec => []ReportsAssociatedOnce
BY EveryPartIsSound, SoundExchange, PTL

(* No push is posted under an expired token, and none counts as sent that  *)
(* a recipient's provider has not accepted.                                *)
THEOREM PushesStaySound == Spec => []PushesSound
BY EveryPartIsSound, SoundExchange, PTL

(* A client whose calls are over is signed out or holds its newest tokens. *)
THEOREM ClientsStayCurrent == Spec => []QuietClientIsCurrent
BY EveryPartIsSound, SoundClients, PTL

(* No step of any component revives a revoked session or changes a verdict. *)
THEOREM FinalIsFinal == Spec => FinalStaysFinal
<1>1. Sound /\ [Next]_vars => [StaysRevoked]_auth
  BY AccountRuns, RevokedKept DEF Sound, AccountsSound, authState
<1>2. Sound /\ [Next]_vars => [VerdictStays]_media
  BY EvidenceRuns, VerdictsStay DEF Sound, EvidenceSound, mediaState
<1>3. Spec => [][Next]_vars
  BY DEF Spec
<1>. QED
  BY EveryPartIsSound, <1>1, <1>2, <1>3, PTL
     DEF FinalStaysFinal, RevokedIsFinal, VerdictFinal, StaysRevoked, VerdictStays

(* More evidence of a user of the incident, or of a verified one, never     *)
(* lowers its score, and time alone never raises it, for any weights,      *)
(* windows and penalty of the configuration.                               *)
THEOREM EvidenceIsCounted == Spec => EvidenceCounts
<1> DEFINE confidenceState == <<part, now, evidenceState>>
<1>1. Sound /\ [Next]_vars => [part = "confidence" => EvidenceStep]_confidenceState
  <2> SUFFICES ASSUME Sound, [Next]_vars, part = "confidence" PROVE EvidenceStep
    OBVIOUS
  <2>1. ConfidenceInv
    BY DEF Sound, EvidenceSound
  <2>2. [ConfidenceNext]_confidenceVars
    BY EvidenceRuns
  <2>. QED
    BY <2>1, <2>2, EvidenceStepHolds
<1>2. Spec => [][Next]_vars
  BY DEF Spec
<1>. QED
  BY EveryPartIsSound, <1>1, <1>2, PTL DEF EvidenceCounts

(* A code is used once, codes are apart, what is verified was confirmed    *)
(* while the number was the present one, and a revoked device is silent.   *)
THEOREM MessagingStaysSound == Spec => MessagingSound
<1>1. Sound /\ [Next]_vars => [CodeApart]_code
  BY AccountRuns, CodesApart DEF Sound, AccountsSound, messagingState, phoneVars
<1>2. Spec => [][Next]_vars
  BY DEF Spec
<1>. QED
  BY EveryPartIsSound, SoundAccounts, <1>1, <1>2, PTL DEF MessagingSound, CodesAreSpaced, CodeApart

(* The search and the route draw the answer they asked for last, and the   *)
(* home map the incidents the screen keeps: those of the area it shows     *)
(* when the map's own last feed brought them.                              *)
THEOREM ScreensAreCurrent == Spec => ScreensCurrent
<1>1. Sound /\ [Next]_vars => [AnswerLatest]_searchState
  BY ClientsRuns, SearchKeeps DEF Sound, ClientsSound
<1>2. Sound /\ [Next]_vars => [LiveShown]_liveState
  BY ClientsRuns, LiveKeeps DEF Sound, ClientsSound
<1>3. Spec => [][Next]_vars
  BY DEF Spec
<1>. QED
  BY EveryPartIsSound, SoundClients, <1>1, <1>2, <1>3, PTL
     DEF ScreensCurrent, AnswersAreLatest, LiveRouteCurrent, AnswerLatest, LiveShown
=============================================================================
