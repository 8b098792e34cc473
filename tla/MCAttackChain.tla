--------------------------- MODULE MCAttackChain ---------------------------
(* Two hosts, of which the runner can reach one; a chain of the shipped    *)
(* kind, whose first techniques have no handler and no reviewed test, and  *)
(* one whose steps can all be exploited; one technique has two tests.      *)
EXTENDS AttackChain, TLC

CONSTANTS a, b, t1, t2, u

TwoHosts == {a, b}
OneReachable == {a}
TwoTests == {t1, t2}
Allowed == ("T1110" :> <<t1, t2>>) @@ ("T1059" :> <<t1>>)
           @@ ("T1021" :> <<t2>>) @@ ("T1082" :> <<>>)
SomeChains == ("external_intrusion" :> <<"T1190", "T1082", "T1059">>)
              @@ ("internal" :> <<"T1059", "T1021">>)
EntryOf == ("external_intrusion" :> "T1190") @@ ("internal" :> "T1110")
Techniques == {"T1190", "T1110", "T1059", "T1021", "T1082"}
Neighbours == {<<>>, <<a, b>>}
SomeGroups == {<<>>, <<"pam", "authentication_success", "sshd">>, <<"pam", "authentication_success">>}
=============================================================================
