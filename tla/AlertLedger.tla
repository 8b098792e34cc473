----------------------------- MODULE AlertLedger -----------------------------
(***************************************************************************)
(* What the poll loop promises about the alerts of the index, without      *)
(* pages, cursors, graph steps or failures.  In each round (a session of   *)
(* the runner) an alert is decided on at most once, with one verdict, and  *)
(* only while its document carries none.  The decision alone authorises    *)
(* what follows: actions, if it says suspicious and until the document is  *)
(* closed; closing the document with the decision's own verdict; and       *)
(* telling the tenant.  Once a new round decides on anything, the          *)
(* decisions of earlier rounds authorise nothing.                          *)
(***************************************************************************)
EXTENDS Integers

CONSTANTS Alerts, Verdicts, Rounds, Actions, Messages, NotClosed

VARIABLES
    verdict,   \* of each alert document
    decided,   \* decisions taken
    acted,     \* actions carried out, with the decision behind each
    told       \* messages sent, with the decision behind each

ledgerVars == <<verdict, decided, acted, told>>

Decisions == [alert: Alerts, round: Rounds, verdict: Verdicts]

Latest(r) == \A d \in decided : d.round <= r

Init ==
    /\ verdict = [a \in Alerts |-> NotClosed]
    /\ decided = {} /\ acted = {} /\ told = {}

Decide(d) ==
    /\ verdict[d.alert] = NotClosed
    /\ Latest(d.round)
    /\ ~ \E e \in decided : e.alert = d.alert /\ e.round = d.round
    /\ decided' = decided \cup {d}
    /\ UNCHANGED <<verdict, acted, told>>

Act(d, action) ==
    /\ d \in decided /\ Latest(d.round)
    /\ d.verdict = "suspicious" /\ verdict[d.alert] = NotClosed
    /\ acted' = acted \cup {[decision |-> d, action |-> action]}
    /\ UNCHANGED <<verdict, decided, told>>

Close(d) ==
    /\ d \in decided /\ Latest(d.round)
    /\ verdict[d.alert] = NotClosed
    /\ verdict' = [verdict EXCEPT ![d.alert] = d.verdict]
    /\ UNCHANGED <<decided, acted, told>>

Tell(d, message) ==
    /\ d \in decided /\ Latest(d.round)
    /\ told' = told \cup {[decision |-> d, message |-> message]}
    /\ UNCHANGED <<verdict, decided, acted>>

Next ==
    \E d \in Decisions :
        \/ Decide(d) \/ Close(d)
        \/ \E action \in Actions : Act(d, action)
        \/ \E message \in Messages : Tell(d, message)

Spec == Init /\ [][Next]_ledgerVars
==============================================================================
