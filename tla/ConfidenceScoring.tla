-------------------------- MODULE ConfidenceScoring --------------------------
(***************************************************************************)
(* The numbers that steer the alert pipeline: the pre-triage score, the    *)
(* routing tiers, the rule-based pre-classifier, the percentage a verdict  *)
(* maps to and the thresholds of the response decision.  Pure operators,   *)
(* one per function of the code; AlertPipeline is built from them.         *)
(*                                                                         *)
(* An alert document keeps of the Wazuh alert what these functions read:   *)
(*   rule      the rule id, where the pre-classifier tells ids apart       *)
(*   level     rule.level                                                  *)
(*   groups    rule.groups                                                 *)
(*   srcip     data.srcip: absent, shaped like an IPv4 address, or another *)
(*             string                                                      *)
(*   internal  whether data.srcip lies in an address range that            *)
(*             _is_internal_ip accepts                                     *)
(*   scheduled whether the context note names scheduled work               *)
(*   hour      data.login_hour, or NoHour                                  *)
(*   newIp     data.is_new_ip                                              *)
(*   large     whether data.bytes_out exceeds 100 MB                       *)
(*   anomaly   the anomaly scores score_anomaly may return for it: with    *)
(*             the user's profile, and with the profile lookup failed      *)
(*   iocs      the confidences of the threat-intel entries it matches      *)
(***************************************************************************)
EXTENDS Integers

NoHour == -1
Percent == 0..100

RuleIds == {"5501", "5502", "5503", "other"}
Groups == {"authentication_failed", "authentication_success", "sshd", "sca",
           "pam", "sudo"}
SourceIps == {"absent", "ipv4", "other"}

Verdicts == {"suspicious", "benign", "unknown"}

Documents ==
    [ts: Nat, rule: RuleIds, level: 0..16, groups: SUBSET Groups,
     srcip: SourceIps, internal: BOOLEAN, scheduled: BOOLEAN,
     hour: 0..23 \cup {NoHour}, newIp: BOOLEAN, large: BOOLEAN,
     anomaly: SUBSET Percent, iocs: SUBSET Percent]

------------------------------------------------------------------------------
(* Pre-triage score *)

Clamp(n) == IF n < 0 THEN 0 ELSE IF n > 100 THEN 100 ELSE n

When(condition, points) == IF condition THEN points ELSE 0

\* int(level / 15 * 100): the floor of the quotient, for every Wazuh level.
BaseScore(level) == Clamp((level * 100) \div 15)

AfterHours(hour) == hour # NoHour /\ hour \notin 6..22

RuleBoost(d) ==
    When("authentication_failed" \in d.groups, 10)
  + When("sshd" \in d.groups, 10)
  + When(d.level >= 10, 5)
  - When("sca" \in d.groups, 10)

ContextBoost(d) ==
    When(AfterHours(d.hour), 15) + When(d.newIp, 10) + When(d.large, 15)

CtiBoost(matched) == When(matched, 20)

UebaBoost(anomaly) == anomaly \div 5

\* Mutant: a match replaces the boosts instead of adding to them.
ScoreIntelReplacesBoosts(d, matched, anomaly) ==
    Clamp(BaseScore(d.level)
            + IF matched THEN CtiBoost(matched)
              ELSE RuleBoost(d) + ContextBoost(d) + UebaBoost(anomaly))

\* Mutant: the sum is not clamped.
ScoreUnclamped(d, matched, anomaly) ==
    BaseScore(d.level) + RuleBoost(d) + ContextBoost(d) + CtiBoost(matched)
        + UebaBoost(anomaly)

Score(d, matched, anomaly) ==
    Clamp(BaseScore(d.level) + RuleBoost(d) + ContextBoost(d)
            + CtiBoost(matched) + UebaBoost(anomaly))

------------------------------------------------------------------------------
(* Tiers and routing *)

Tier(pct) == IF pct <= 39 THEN "ARCHIVE"
             ELSE IF pct <= 70 THEN "ANALYST_REVIEW" ELSE "TRIAGE"

ReviewMax == 70
CtiOverride == 80

\* Mutant: the review band ends one percent early.
RouteFromReviewMax(pct, cti) ==
    IF cti > CtiOverride \/ pct >= ReviewMax THEN "triage" ELSE "end"

\* The edge taken out of the coordination node.
RouteAfterCoordination(pct, cti) ==
    IF cti > CtiOverride \/ pct > ReviewMax THEN "triage" ELSE "end"

------------------------------------------------------------------------------
(* Triage *)

ScheduledMaintenance(d) == d.level <= 5 /\ d.internal /\ d.scheduled

SessionNoise(d) ==
    \/ d.rule = "5502"
    \/ d.rule # "5501" /\ "pam" \in d.groups /\ d.level <= 3

PlainLogin(d) ==
    /\ "authentication_success" \in d.groups \/ d.rule \in {"5501", "5503"}
    /\ d.level <= 5
    /\ "authentication_failed" \notin d.groups

\* The verdict of the rule-based fast path, or "none" when the LLM decides.
PreClassify(d) ==
    IF ScheduledMaintenance(d) \/ SessionNoise(d) THEN "benign"
    ELSE IF PlainLogin(d) THEN "unknown" ELSE "none"

VerdictBase == [suspicious |-> 75, unknown |-> 40, benign |-> 20]

\* Mutant: the bonus for ten events does not clear the response threshold.
ConfidenceSmallBonus(verdict, events) ==
    Clamp(VerdictBase[verdict]
            + (IF events >= 20 THEN 15 ELSE IF events >= 10 THEN 5 ELSE 0))

ConfidenceFromVerdict(verdict, events) ==
    Clamp(VerdictBase[verdict]
            + (IF events >= 20 THEN 15 ELSE IF events >= 10 THEN 8 ELSE 0))

------------------------------------------------------------------------------
(* Response decision and the severities derived from the percentage *)

ResponseThreshold == 80

IsActionable(verdict, pct, cti) ==
    verdict = "suspicious" /\ (pct > ResponseThreshold \/ cti > CtiOverride)

TicketSeverity(pct) == IF pct > 80 THEN "high"
                       ELSE IF pct >= 50 THEN "medium" ELSE "low"

NotifySeverity(pct) == IF pct >= 90 THEN "critical"
                       ELSE IF pct >= 70 THEN "high"
                       ELSE IF pct >= 40 THEN "medium" ELSE "low"
==============================================================================
