---------------------------- MODULE ScoringLattice ----------------------------
(***************************************************************************)
(* The scoring functions over a bounded lattice of alerts: an alert gains  *)
(* one signal at a time (a higher rule level, a group, a context flag, a   *)
(* threat-intel match, a larger deviation from the user's profile), so     *)
(* that what more evidence may never do is an action property.             *)
(***************************************************************************)
EXTENDS ConfidenceScoring

CONSTANTS Levels, Anomalies, Confidences, Counts

VARIABLES level, groups, context, matched, cti, anomaly

signals == <<level, groups, context, matched, cti, anomaly>>

Document ==
    [ts |-> 1, rule |-> "other", level |-> level, groups |-> groups,
     srcip |-> "ipv4", internal |-> FALSE, scheduled |-> FALSE,
     hour |-> IF "night" \in context THEN 23 ELSE 12,
     newIp |-> "newIp" \in context, large |-> "large" \in context,
     anomaly |-> Percent, iocs |-> Percent]

Pct == Score(Document, matched, anomaly)

ASSUME BoundsAssumption ==
    Levels \subseteq 0..16 /\ Anomalies \subseteq Percent
      /\ Confidences \subseteq Percent /\ Counts \subseteq Nat

LatticeInit ==
    /\ level \in Levels /\ groups \in SUBSET {"sca"} /\ context = {}
    /\ matched = FALSE /\ cti = 0 /\ anomaly \in Anomalies

RaiseLevel ==
    /\ \E l \in Levels : l > level /\ level' = l
    /\ UNCHANGED <<groups, context, matched, cti, anomaly>>

AddGroup ==
    /\ \E g \in {"authentication_failed", "sshd"} \ groups :
         groups' = groups \cup {g}
    /\ UNCHANGED <<level, context, matched, cti, anomaly>>

AddContext ==
    /\ \E c \in {"night", "newIp", "large"} \ context : context' = context \cup {c}
    /\ UNCHANGED <<level, groups, matched, cti, anomaly>>

Match ==
    /\ matched' = TRUE
    /\ \E c \in Confidences : c >= cti /\ cti' = c
    /\ UNCHANGED <<level, groups, context, anomaly>>

Deviate ==
    /\ \E x \in Anomalies : x > anomaly /\ anomaly' = x
    /\ UNCHANGED <<level, groups, context, matched, cti>>

LatticeNext == RaiseLevel \/ AddGroup \/ AddContext \/ Match \/ Deviate

LatticeSpec == LatticeInit /\ [][LatticeNext]_signals

(* A further signal never lowers the score, and never takes an alert that   *)
(* coordination sends to triage back out of it.                             *)
EvidenceNeverHurts ==
    [][/\ Pct' >= Pct
       /\ RouteAfterCoordination(Pct, cti) = "triage"
            => RouteAfterCoordination(Pct', cti') = "triage"]_signals

(* The scorer's tier label and coordination's edge, computed from           *)
(* thresholds of their own in two modules, agree on every score, except     *)
(* that strong threat intel reaches triage from any tier.                   *)
RoutingAgreesWithTier ==
    RouteAfterCoordination(Pct, cti) = "triage"
      <=> Tier(Pct) = "TRIAGE" \/ cti > CtiOverride

(* After triage has replaced the score, the thresholds of the response, the *)
(* ticket and the notification fit together: without strong intel only ten  *)
(* recent events make a suspicious verdict actionable; what is acted on is  *)
(* announced as high or critical, and ticketed as high unless intel alone   *)
(* carried it.                                                              *)
ThresholdsFit ==
    \A n \in Counts :
        LET pct == ConfidenceFromVerdict("suspicious", n) IN
        /\ IsActionable("suspicious", pct, cti) <=> n >= 10 \/ cti > CtiOverride
        /\ NotifySeverity(pct) \in {"high", "critical"}
        /\ TicketSeverity(pct) = "high" <=> n >= 10
==============================================================================
