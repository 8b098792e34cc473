----------------------------- MODULE UebaScoring -----------------------------
(***************************************************************************)
(* How far an alert departs from the profile of its user: the dimensions   *)
(* of tools/ueba_scorer.py and the risk score of tools/ueba_engine.py.     *)
(* Pure operators, one per function.                                       *)
(*                                                                         *)
(* An alert keeps what the dimensions read: the login hour (or NoHour),    *)
(* the source address (or NoIp), the command or rule description (or       *)
(* NoCommand) and the bytes sent (or NoBytes).  A profile keeps the same   *)
(* habits, how its addresses and volumes were come by, and its risk score. *)
(***************************************************************************)
EXTENDS Integers, FiniteSets

CONSTANTS
    Ips, Commands,      \* source addresses and command descriptions
    TopIps,             \* addresses that count as usual: 5
    IpBuckets,          \* addresses a profile lists: 10
    CommandBuckets,     \* commands a profile lists: 20
    FanOut,             \* more usual addresses than this are a risk: 5
    HeavyVolume,        \* daily bytes above this are a risk: 50 MB
    PeerGroup,          \* the seeded group of the profiled user
    NoProfile           \* what a search that finds no profile, or fails, returns

ASSUME LimitsAssumption ==
    /\ IsFiniteSet(Ips)
    /\ TopIps \in Nat /\ IpBuckets \in Nat /\ TopIps <= IpBuckets
    /\ CommandBuckets \in Nat
    /\ FanOut \in Nat /\ HeavyVolume \in Nat
    /\ PeerGroup \in {"unassigned", "infrastructure"}

ASSUME NamesAssumption == "no srcip" \notin Ips /\ "no command" \notin Commands

NoHour == -1
NoBytes == -1
NoIp == "no srcip"
NoCommand == "no command"

Hours == 0..23

IpCoverages == {"unknown", "ok", "ok_via_other_rule_types", "no_logins_matched",
                "no_srcip_on_matched_login_events", "no_srcip_anywhere_for_user"}

VolumeCoverages == {"unknown", "ok", "no_bytes_out_field_seen"}

BaselineStatuses == {"unset", "matched", "no_baseline_yet"}

Alerts == [hour: Hours \cup {NoHour}, ip: Ips \cup {NoIp},
           command: Commands \cup {NoCommand}, bytes: Nat \cup {NoBytes}]

\* usual: the first TopIps of the listed addresses.
Habits == [hours: SUBSET Hours, ips: SUBSET Ips, usual: SUBSET Ips,
           ipCoverage: IpCoverages, commands: SUBSET Commands, volume: Nat,
           volumeCoverage: VolumeCoverages, baseline: BaselineStatuses,
           risk: 0..100]

ASSUME NoProfileAssumption == NoProfile \notin Habits

------------------------------------------------------------------------------
(* Dimensions *)

DimensionWeight == 20

When(condition, points) == IF condition THEN points ELSE 0

HourDistance(h, k) ==
    LET d == IF h > k THEN h - k ELSE k - h IN IF d <= 12 THEN d ELSE 24 - d

LoginTimeDeviation(a, p) ==
    IF p = NoProfile \/ a.hour = NoHour THEN 0
    ELSE IF p.hours = {} \/ a.hour \in p.hours THEN 0
    ELSE IF \A k \in p.hours : HourDistance(a.hour, k) >= 3 THEN DimensionWeight
    ELSE IF \A k \in p.hours : HourDistance(a.hour, k) >= 2 THEN 13 ELSE 6

SourceIpNovelty(a, p) ==
    IF a.ip = NoIp THEN 0
    ELSE IF p = NoProfile THEN DimensionWeight
    ELSE IF p.ipCoverage \notin {"ok", "ok_via_other_rule_types"} THEN 0
    ELSE IF a.ip \in p.usual THEN 0
    ELSE IF a.ip \in p.ips THEN 5 ELSE DimensionWeight

CommandRarity(a, p) ==
    IF a.command = NoCommand THEN 0
    ELSE IF p = NoProfile THEN DimensionWeight
    ELSE When(p.commands # {} /\ a.command \notin p.commands, DimensionWeight)

PeerDeviation(p) ==
    IF p = NoProfile THEN 0
    ELSE IF PeerGroup = "unassigned" THEN When(p.risk >= 50, 10)
    ELSE IF p.risk >= 50 THEN DimensionWeight ELSE When(p.risk >= 25, 10)

VolumeSpike(a, p) ==
    IF p = NoProfile \/ a.bytes = NoBytes THEN 0
    ELSE IF p.volumeCoverage # "ok" \/ p.volume = 0 THEN 0
    ELSE IF a.bytes >= 5 * p.volume THEN DimensionWeight
    ELSE When(2 * a.bytes >= 5 * p.volume, 10)

AnomalyScore(a, p) ==
    LoginTimeDeviation(a, p) + SourceIpNovelty(a, p) + CommandRarity(a, p)
        + PeerDeviation(p) + VolumeSpike(a, p)

------------------------------------------------------------------------------
(* Risk score of a profile *)

UserRisk(p) ==
    When(\E h \in p.hours : h < 6 \/ h > 22, 15)
  + When(Cardinality(p.ips) > FanOut, 20)
  + When(p.volume > HeavyVolume, 25)
  + When(p.baseline = "no_baseline_yet", 5)
==============================================================================
