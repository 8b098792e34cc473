---------------------------- MODULE MCNotifications ----------------------------
(* One tenant with a floor rule and an exact rule, one without rules; one   *)
(* alert of each.  The settings of "alpha" name a channel without an        *)
(* address and one that is not an object.                                   *)
EXTENDS Notifications, TLC

Rule(severity, exact, channels) ==
    [severity |-> severity, exact |-> exact, channels |-> channels]

AlphaRules == {Rule("high", FALSE, {"slack"}),
               Rule("high", TRUE, {"pagerduty_webhook"}),
               Rule("critical", FALSE, {"email", "custom_webhook"})}
AlphaSettings ==
    [rules |-> AlphaRules,
     destinations |-> [c \in Channels |->
                         CASE c = "email" -> "missing"
                           [] c = "pagerduty_webhook" -> "missing"
                           [] c = "custom_webhook" -> "malformed"
                           [] OTHER -> "set"]]
OtherSettings == [NoSettings EXCEPT !.rules = {Rule("low", FALSE, {"teams"})}]

StoredDocs == ("alpha" :> [active |-> TRUE, settings |-> AlphaSettings])
              @@ ("beta" :> [active |-> FALSE, settings |-> NoSettings])
PostedSettings == {OtherSettings}

TwoNotices == {"n1", "n2"}
Owners == ("n1" :> "alpha") @@ ("n2" :> "beta")

OperatorSymmetry == Permutations(Operators)
==============================================================================
