--------------------------- MODULE IncidentConfidence ---------------------------
(***************************************************************************)
(* How confident FloodLine is in one incident: the evidence that           *)
(* getEvidence counts from the rows of its reports, confirmations, photos  *)
(* and contributors, and the score that calculate makes of it.  When the   *)
(* score is recalculated and stored is part of IncidentLifecycle.          *)
(*                                                                         *)
(* Signals are fractions of Scale, which every number they are divided by  *)
(* divides; weights, penalties and thresholds are in percent.  The signals *)
(* of contradiction and resolution are 0: nothing feeds them.              *)
(***************************************************************************)
EXTENDS Requests, FiniteSetsExt

CONSTANTS
  Contributors,
  Scale,
  Maximum,       \* what saturates a signal: number of items, or hours of age
  Weight,
  RecentReport, RecentConfirmation, \* windows, in hours
  PenaltyAge, OfficialMinimum, LowThreshold, HighThreshold

Saturating == {"confirmations", "recentReports", "recentConfirmations",
               "distinctReporters", "photos"}
Signals == Saturating \cup {"trustedContributors", "officialSource"}

ASSUME ConfidenceAssumption ==
  /\ Maximum \in [Saturating \cup {"age"} -> Nat \ {0}]
  /\ Weight \in [Signals -> Nat]
  /\ {Scale, RecentReport, RecentConfirmation, PenaltyAge, OfficialMinimum,
      LowThreshold, HighThreshold} \subseteq Nat

VARIABLES
  official,    \* is source_type OFFICIAL?
  reports,     \* flood_reports: who and when
  refused,     \* those of them a moderator rejected
  pictured,    \* those with an available photo
  confirmedAt, \* incident_confirmations: last_confirmed_at, or NULL
  trusted      \* contributors whose status is VERIFIED

evidenceState == <<official, reports, refused, pictured, confirmedAt, trusted>>
confidenceVars == <<evidenceState, environment>>

ConfidenceInit ==
  /\ EnvironmentInit
  /\ official \in BOOLEAN
  /\ reports = {}
  /\ refused = {}
  /\ pictured = {}
  /\ confirmedAt = [c \in Contributors |-> NULL]
  /\ trusted \in SUBSET Contributors

-----------------------------------------------------------------------------
(* getEvidence *)

Standing == reports \ refused
Confirming == {c \in Contributors : confirmedAt[c] # NULL}
Reporting == {r[1] : r \in Standing}

Counted ==
  [confirmations |-> Cardinality(Confirming),
   recentReports |-> Cardinality({r \in Standing : r[2] >= now - RecentReport}),
   recentConfirmations |->
     Cardinality({c \in Confirming : confirmedAt[c] >= now - RecentConfirmation}),
   distinctReporters |-> Cardinality(Reporting),
   photos |-> Cardinality(pictured \ refused)]

\* Bug: the average is taken over reports and confirmations, not over users.
TrustedPerRow ==
  LET good == Cardinality({r \in Standing : r[1] \in trusted})
                   + Cardinality(Confirming \cap trusted)
      all == Cardinality(Standing) + Cardinality(Confirming)
  IN IF all = 0 THEN 0 ELSE (Scale * good) \div all

\* The share of verified users among those who reported or confirmed.
TrustedContributorWeight ==
  LET users == Confirming \cup Reporting
  IN IF users = {} THEN 0
     ELSE (Scale * Cardinality(users \cap trusted)) \div Cardinality(users)

-----------------------------------------------------------------------------
(* calculate *)

Normalize(value, maximum) ==
  (Scale * (IF value < maximum THEN value ELSE maximum)) \div maximum

Signal(s) ==
  CASE s \in Saturating -> Normalize(Counted[s], Maximum[s])
    [] s = "trustedContributors" -> TrustedContributorWeight
    [] s = "officialSource" -> IF official THEN Scale ELSE 0

Sum(term) ==
  term["confirmations"] + term["recentReports"] + term["recentConfirmations"]
    + term["distinctReporters"] + term["photos"] + term["trustedContributors"]
    + term["officialSource"]

\* Weights that are all 0 count as 1.
WeightTotal == Max({1, Sum(Weight)})
WeightedPositive == 100 * Sum([s \in Signals |-> Weight[s] * Signal(s)])
ConfidenceBase ==
  IF official THEN Max({WeightedPositive, OfficialMinimum * WeightTotal * Scale})
  ELSE WeightedPositive
TotalPenalty == PenaltyAge * WeightTotal * Normalize(now, Maximum["age"])

\* Between 0 and 100 * WeightTotal * Scale.
Score ==
  LET full == 100 * WeightTotal * Scale
  IN Max({0, Min({full, ConfidenceBase - TotalPenalty})})

Label ==
  LET score == Score
      reaches(threshold) == score >= threshold * WeightTotal * Scale
  IN IF reaches(HighThreshold) THEN "HIGH"
     ELSE IF reaches(LowThreshold) THEN "MEDIUM" ELSE "LOW"

-----------------------------------------------------------------------------
(* What the rest of the system does to the rows.                           *)

Report(c) ==
  /\ Single
  /\ reports' = reports \cup {<<c, now>>}
  /\ UNCHANGED <<official, refused, pictured, confirmedAt, trusted>>

Picture(r) ==
  /\ Single
  /\ pictured' = pictured \cup {r}
  /\ UNCHANGED <<official, reports, refused, confirmedAt, trusted>>

Reconfirm(c) ==
  /\ Single
  /\ confirmedAt' = [confirmedAt EXCEPT ![c] = now]
  /\ UNCHANGED <<official, reports, refused, pictured, trusted>>

Moderate(r) ==
  /\ Single
  /\ refused' = refused \cup {r}
  /\ UNCHANGED <<official, reports, pictured, confirmedAt, trusted>>

ConfidenceTick == PassTime /\ UNCHANGED evidenceState

ConfidenceNext ==
  \/ \E c \in Contributors : Report(c) \/ Reconfirm(c)
  \/ \E r \in reports : Picture(r) \/ Moderate(r)
  \/ ConfidenceTick

ConfidenceSpec == ConfidenceInit /\ [][ConfidenceNext]_confidenceVars

-----------------------------------------------------------------------------
ConfidenceTypeOK ==
  /\ reports \subseteq Contributors \X Times
  /\ refused \cup pictured \subseteq reports
  /\ confirmedAt \in [Contributors -> {NULL} \cup Times]
  /\ Label \in {"LOW", "MEDIUM", "HIGH"}

(* More evidence of a verified contributor, or of one who contributed      *)
(* before, never lowers the score, and time alone never raises it.  A      *)
(* newcomer without that status may lower it, as the share of the verified *)
(* falls.                                                                  *)
EvidenceStep ==
  LET contributors == Confirming \cup Reporting
      newcomers == (contributors' \ contributors) \ trusted
      more == refused' = refused /\ evidenceState' # evidenceState
  IN /\ more /\ newcomers = {} => Score' >= Score
     /\ now' # now => Score' <= Score
=============================================================================
