----------------------- MODULE ConfidenceScoringProofs -----------------------
(***************************************************************************)
(* What the scoring functions return, for every alert and every count of   *)
(* recent events; and, from that, what a further signal does to an alert,  *)
(* whatever levels, deviations and intel confidences there are.            *)
(***************************************************************************)
EXTENDS ScoringLattice, TLAPS

(* Clamping, the code's max(0, min(100, n)), lands in the percentages. *)
LEMMA ClampInRange == ASSUME NEW n \in Int PROVE Clamp(n) \in Percent
BY DEF Clamp, Percent

(* confidence_scorer.score returns a percentage for every Wazuh alert,      *)
(* whatever boosts and penalties it collects.                               *)
THEOREM ScoreInRange ==
    ASSUME NEW d \in Documents, NEW m \in BOOLEAN, NEW x \in Percent
    PROVE Score(d, m, x) \in Percent
<1>1. BaseScore(d.level) \in Int
  <2>1. d.level \in Nat
    BY DEF Documents
  <2>2. (d.level * 100) \div 15 \in Int
    BY <2>1
  <2> QED
    BY <2>2, ClampInRange DEF BaseScore, Percent
<1>2. RuleBoost(d) \in Int
  <2>1. d.level \in Int
    BY DEF Documents
  <2> QED
    BY <2>1 DEF RuleBoost, When
<1>3. ContextBoost(d) \in Int
  BY DEF ContextBoost, When
<1>4. CtiBoost(m) \in Int
  BY DEF CtiBoost, When
<1>5. UebaBoost(x) \in Int
  BY DEF UebaBoost, Percent
<1> QED
  BY <1>1, <1>2, <1>3, <1>4, <1>5, ClampInRange DEF Score

(* The scorer's tier and coordination's edge agree for every percentage,    *)
(* apart from the threat-intel override.                                    *)
THEOREM RoutingAgreement ==
    ASSUME NEW pct \in Percent, NEW c \in Percent
    PROVE RouteAfterCoordination(pct, c) = "triage"
            <=> Tier(pct) = "TRIAGE" \/ c > CtiOverride
BY DEF RouteAfterCoordination, Tier, Percent, CtiOverride, ReviewMax

(* Without strong intel a verdict is acted on exactly when it is suspicious *)
(* and the source had ten recent events: the pre-triage score plays no part.*)
THEOREM TenEventsOrIntel ==
    ASSUME NEW verdict \in Verdicts, NEW n \in Nat, NEW c \in Percent
    PROVE IsActionable(verdict, ConfidenceFromVerdict(verdict, n), c)
            <=> verdict = "suspicious" /\ (n >= 10 \/ c > CtiOverride)
BY DEF IsActionable, ConfidenceFromVerdict, VerdictBase, Clamp, Verdicts,
       Percent, ResponseThreshold, CtiOverride

(* Further signals (a higher level, groups that boost, context, a match, a  *)
(* larger anomaly) never lower the score.                                   *)
THEOREM MoreEvidenceNeverHurts ==
    ASSUME NEW d \in Documents, NEW e \in Documents,
           NEW m \in BOOLEAN, NEW n \in BOOLEAN, NEW x \in Percent, NEW y \in Percent,
           d.level <= e.level, d.groups \subseteq e.groups,
           "sca" \in e.groups => "sca" \in d.groups,
           AfterHours(d.hour) => AfterHours(e.hour),
           d.newIp => e.newIp, d.large => e.large, m => n, x <= y
    PROVE  Score(d, m, x) <= Score(e, n, y)
<1>1. d.level \in Nat /\ e.level \in Nat
  BY DEF Documents
<1>2. (d.level * 100) \div 15 \in Int /\ (e.level * 100) \div 15 \in Int
      /\ (d.level * 100) \div 15 <= (e.level * 100) \div 15
  BY <1>1
<1>3. BaseScore(d.level) \in Int /\ BaseScore(e.level) \in Int
      /\ BaseScore(d.level) <= BaseScore(e.level)
  BY <1>2 DEF BaseScore, Clamp
<1>4. RuleBoost(d) \in Int /\ RuleBoost(e) \in Int /\ RuleBoost(d) <= RuleBoost(e)
  BY <1>1 DEF RuleBoost, When
<1>5. ContextBoost(d) \in Int /\ ContextBoost(e) \in Int
      /\ ContextBoost(d) <= ContextBoost(e)
  BY DEF ContextBoost, When
<1>6. CtiBoost(m) \in Int /\ CtiBoost(n) \in Int /\ CtiBoost(m) <= CtiBoost(n)
  BY DEF CtiBoost, When
<1>7. UebaBoost(x) \in Int /\ UebaBoost(y) \in Int /\ UebaBoost(x) <= UebaBoost(y)
  BY DEF UebaBoost, Percent
<1>8. \A i, j \in Int : i <= j => Clamp(i) <= Clamp(j)
  BY DEF Clamp
<1> QED
  BY <1>3, <1>4, <1>5, <1>6, <1>7, <1>8 DEF Score

(* After triage a suspicious verdict is announced as high or critical, and  *)
(* ticketed as high exactly with ten recent events.                         *)
THEOREM SeveritiesFit ==
    ASSUME NEW n \in Nat
    PROVE  LET pct == ConfidenceFromVerdict("suspicious", n)
           IN  /\ NotifySeverity(pct) \in {"high", "critical"}
               /\ TicketSeverity(pct) = "high" <=> n >= 10
BY DEF ConfidenceFromVerdict, VerdictBase, Clamp, NotifySeverity, TicketSeverity
------------------------------------------------------------------------------
(* An alert that gains signals.                                            *)

LatticeInv ==
    /\ level \in 0..16 /\ groups \subseteq {"sca", "authentication_failed", "sshd"}
    /\ context \subseteq {"night", "newIp", "large"}
    /\ matched \in BOOLEAN /\ cti \in Percent /\ anomaly \in Percent

LEMMA LatticeStart == LatticeInit => LatticeInv
<1> SUFFICES ASSUME LatticeInit PROVE LatticeInv
  OBVIOUS
<1>1. level \in 0..16 /\ anomaly \in Percent /\ groups \subseteq {"sca"}
  BY BoundsAssumption DEF LatticeInit
<1>2. 0 \in Percent
  BY DEF Percent
<1> QED BY <1>1, <1>2 DEF LatticeInit, LatticeInv

LEMMA LatticeKept == LatticeInv /\ [LatticeNext]_signals => LatticeInv'
<1> SUFFICES ASSUME LatticeInv, [LatticeNext]_signals PROVE LatticeInv'
  OBVIOUS
<1> USE BoundsAssumption DEF LatticeInv
<1>1. CASE RaiseLevel
  BY <1>1 DEF RaiseLevel
<1>2. CASE AddGroup
  BY <1>2 DEF AddGroup
<1>3. CASE AddContext
  BY <1>3 DEF AddContext
<1>4. CASE Match
  BY <1>4 DEF Match
<1>5. CASE Deviate
  BY <1>5 DEF Deviate
<1>6. CASE UNCHANGED signals
  BY <1>6 DEF signals
<1> QED BY <1>1, <1>2, <1>3, <1>4, <1>5, <1>6 DEF LatticeNext

\* The alert the signals make up is one that Wazuh can send.
LEMMA DocumentType == LatticeInv => Document \in Documents
<1> SUFFICES ASSUME LatticeInv PROVE Document \in Documents
  OBVIOUS
<1>1. /\ level \in 0..16 /\ groups \in SUBSET Groups
      /\ 1 \in Nat /\ "other" \in RuleIds /\ "ipv4" \in SourceIps
      /\ (IF "night" \in context THEN 23 ELSE 12) \in 0..23 \cup {NoHour}
      /\ ("newIp" \in context) \in BOOLEAN /\ ("large" \in context) \in BOOLEAN
  BY DEF LatticeInv, Groups, RuleIds, SourceIps
<1> QED BY <1>1 DEF Document, Documents

(* A step adds a signal and takes none away. *)
LEMMA SignalsGrow ==
    ASSUME LatticeInv, [LatticeNext]_signals
    PROVE  /\ level <= level' /\ groups \subseteq groups' /\ context \subseteq context'
           /\ "sca" \in groups' => "sca" \in groups
           /\ matched => matched'
           /\ cti <= cti' /\ anomaly <= anomaly'
<1>1. \A n \in Percent : n \in Int /\ n <= n
  BY DEF Percent
<1>2. level <= level /\ cti <= cti /\ anomaly <= anomaly
  BY <1>1 DEF LatticeInv
<1>3. \A x \in Anomalies : x \in Int
  BY BoundsAssumption DEF Percent
<1>4. CASE RaiseLevel
  BY <1>2, <1>4, BoundsAssumption DEF RaiseLevel, LatticeInv
<1>5. CASE AddGroup
  BY <1>2, <1>5 DEF AddGroup
<1>6. CASE AddContext
  BY <1>2, <1>6 DEF AddContext
<1>7. CASE Match
  BY <1>2, <1>7, BoundsAssumption DEF Match, LatticeInv, Percent
<1>8. CASE Deviate
  BY <1>2, <1>8, BoundsAssumption DEF Deviate, LatticeInv, Percent
<1>9. CASE UNCHANGED signals
  BY <1>2, <1>9 DEF signals
<1> QED BY <1>4, <1>5, <1>6, <1>7, <1>8, <1>9 DEF LatticeNext

(* A further signal lowers no score, and takes no alert out of triage that  *)
(* coordination would send there.                                           *)
THEOREM SignalsNeverHurt == LatticeSpec => EvidenceNeverHurts
<1>1. ASSUME LatticeInv, LatticeInv', [LatticeNext]_signals
      PROVE  [/\ Pct' >= Pct
              /\ RouteAfterCoordination(Pct, cti) = "triage"
                   => RouteAfterCoordination(Pct', cti') = "triage"]_signals
  <2> DEFINE d == Document
             e == Document'
  <2>1. (LatticeInv => Document \in Documents)'
    BY DocumentType, PTL
  <2>2. d \in Documents /\ e \in Documents
    BY <1>1, <2>1, DocumentType
  <2>3. /\ matched \in BOOLEAN /\ matched' \in BOOLEAN
        /\ anomaly \in Percent /\ anomaly' \in Percent
        /\ cti \in Int /\ cti' \in Int /\ cti <= cti'
        /\ matched => matched'
        /\ anomaly <= anomaly'
    BY <1>1, SignalsGrow DEF LatticeInv, Percent
  <2>4. /\ d.level = level /\ e.level = level' /\ d.groups = groups /\ e.groups = groups'
        /\ d.newIp = ("newIp" \in context) /\ e.newIp = ("newIp" \in context')
        /\ d.large = ("large" \in context) /\ e.large = ("large" \in context')
        /\ d.hour = (IF "night" \in context THEN 23 ELSE 12)
        /\ e.hour = (IF "night" \in context' THEN 23 ELSE 12)
    BY DEF Document
  <2>5. /\ level <= level' /\ groups \subseteq groups' /\ context \subseteq context'
        /\ "sca" \in groups' => "sca" \in groups
    BY <1>1, SignalsGrow
  <2>6. AfterHours(d.hour) => AfterHours(e.hour)
    <3>1. AfterHours(23) /\ ~AfterHours(12)
      BY DEF AfterHours, NoHour
    <3> HIDE DEF d, e
    <3> QED BY <2>4, <2>5, <3>1
  <2>7. /\ d.level <= e.level /\ d.groups \subseteq e.groups
        /\ "sca" \in e.groups => "sca" \in d.groups
        /\ d.newIp => e.newIp
        /\ d.large => e.large
        /\ AfterHours(d.hour) => AfterHours(e.hour)
    <3> HIDE DEF d, e
    <3> QED BY <2>4, <2>5, <2>6
  <2> HIDE DEF d, e
  <2>8. Score(d, matched, anomaly) <= Score(e, matched', anomaly')
    BY <2>2, <2>3, <2>7, MoreEvidenceNeverHurts, Zenon
  <2>9. Score(d, matched, anomaly) \in Percent /\ Score(e, matched', anomaly') \in Percent
    BY <2>2, <2>3, ScoreInRange
  <2>10. Pct = Score(d, matched, anomaly) /\ Pct' = Score(e, matched', anomaly')
    BY DEF Pct, d, e
  <2>11. Pct \in Int /\ Pct' \in Int /\ Pct' >= Pct
    BY <2>8, <2>9, <2>10 DEF Percent
  <2> QED BY <2>3, <2>11 DEF RouteAfterCoordination, CtiOverride, ReviewMax
<1> QED BY <1>1, LatticeStart, LatticeKept, PTL DEF LatticeSpec, EvidenceNeverHurts

(* Tier label and routing edge agree on every alert that signals make up.   *)
THEOREM TierAndRouteAgree == LatticeSpec => []RoutingAgreesWithTier
<1>1. LatticeInv => RoutingAgreesWithTier
  <2> SUFFICES ASSUME LatticeInv PROVE RoutingAgreesWithTier
    OBVIOUS
  <2>1. Pct \in Percent /\ cti \in Percent
    BY DocumentType, ScoreInRange DEF LatticeInv, Pct
  <2> QED BY <2>1, RoutingAgreement DEF RoutingAgreesWithTier
<1> QED BY <1>1, LatticeStart, LatticeKept, PTL DEF LatticeSpec

(* The thresholds of response, ticket and notification fit together for     *)
(* every number of recent events and every confidence of the intel.         *)
THEOREM ThresholdsAlwaysFit == LatticeSpec => []ThresholdsFit
<1>1. LatticeInv => ThresholdsFit
  <2> SUFFICES ASSUME LatticeInv, NEW n \in Counts
               PROVE  LET pct == ConfidenceFromVerdict("suspicious", n) IN
                      /\ IsActionable("suspicious", pct, cti) <=> n >= 10 \/ cti > CtiOverride
                      /\ NotifySeverity(pct) \in {"high", "critical"}
                      /\ TicketSeverity(pct) = "high" <=> n >= 10
    BY DEF ThresholdsFit
  <2>1. n \in Nat /\ cti \in Percent /\ "suspicious" \in Verdicts
    BY BoundsAssumption DEF LatticeInv, Verdicts
  <2> QED BY <2>1, TenEventsOrIntel, SeveritiesFit
<1> QED BY <1>1, LatticeStart, LatticeKept, PTL DEF LatticeSpec
==============================================================================
