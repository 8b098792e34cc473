--------------------------- MODULE MCAlertPipeline ---------------------------
(* Alerts for TLC: a brute-force burst that scores into triage, a night     *)
(* login whose score only an indicator lifts into triage, and a sudo event  *)
(* without a source address.                                                *)
EXTENDS AlertPipeline, TLC

Quiet == [ts |-> 1, rule |-> "other", level |-> 3, groups |-> {},
          srcip |-> "ipv4", internal |-> FALSE, scheduled |-> FALSE,
          hour |-> NoHour, newIp |-> FALSE, large |-> FALSE,
          anomaly |-> {0}, iocs |-> {}]

BruteForce == [Quiet EXCEPT !.level = 12, !.anomaly = {40},
                            !.groups = {"authentication_failed", "sshd"}]
NightLogin == [Quiet EXCEPT !.groups = {"authentication_success"}, !.hour = 2,
                            !.iocs = {60, 90}, !.anomaly = {0, 40}]
Sudo == [Quiet EXCEPT !.level = 12, !.groups = {"sudo"}, !.srcip = "absent"]

TwoAlerts == {"brute", "night"}
TwoInOrder == ("brute" :> [BruteForce EXCEPT !.ts = 1])
              @@ ("night" :> [NightLogin EXCEPT !.ts = 2])

ThreeAlerts == {"brute", "night", "sudo"}
ThreeAtTwoTimes == ("brute" :> [BruteForce EXCEPT !.ts = 1])
                   @@ ("sudo" :> [Sudo EXCEPT !.ts = 1])
                   @@ ("night" :> [NightLogin EXCEPT !.ts = 2])

AllCalls == Calls
==============================================================================
