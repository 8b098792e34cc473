---------------------------- MODULE MCUebaProfiles ----------------------------
(* A user who logs in at night through PAM, without an address, and by day   *)
(* from the office; somebody whose name begins with his; a sudo command with *)
(* a transfer.  The limits are scaled so that two addresses pass the top.    *)
EXTENDS UebaProfiles, TLC

Symmetry == Permutations(Builders)

Event(name, groups, hour, ip) ==
    [name |-> name, groups |-> groups, hour |-> hour, ip |-> ip,
     command |-> "sudo", bytes |-> "firewall" \in groups]

MCEvents ==
    {Event("decorated", {"authentication_success"}, 23, NoIp),
     Event("plain", {"authentication_success"}, 9, "office"),
     Event("longer", {"authentication_success"}, 9, "abroad"),
     Event("plain", {"sudo", "firewall"}, 9, "home")}

\* A run before the start counted the night logins and the other user's.
MCEarlierBaselines == {{"decorated", "longer"}}

MCScored ==
    {[hour |-> hour, ip |-> ip, command |-> command, bytes |-> bytes] :
        hour \in {NoHour, 0, 9, 23}, ip \in Ips, command \in {"sudo", "curl"},
        bytes \in {0, 500}}
===============================================================================
