------------------------------- MODULE MCTools -------------------------------
(***************************************************************************)
(* Three parts that read and write nothing of each other's: the scoring    *)
(* functions, the response tools and the feedback loop (whose weights the  *)
(* scoring does not read).  A behaviour follows one of them.               *)
(*                                                                         *)
(* Response: two callers on one endpoint and one address.  Both callers    *)
(* and both retrainers are alike.                                          *)
(* Feedback: false positives driven by the time of day in two buckets,     *)
(* which together take a weight to its floor in three retrains; a true     *)
(* positive driven by severity in one of the buckets; one whose stated     *)
(* confidence is off the scale.                                            *)
(***************************************************************************)
EXTENDS ScoringLattice, FeedbackLoop, ResponseActions, TLC

Symmetry == Permutations(Callers) \cup Permutations(Retrainers)

In(severity, deviation, time) ==
    [rule_severity |-> severity, anomaly |-> deviation, time_factor |-> time]
Submitted(verdict, stated, inputs) ==
    [verdict |-> verdict, stated |-> stated, inputs |-> inputs]

TimeSubmissions ==
    {Submitted("fp", pct, In(7, 0, 25)) : pct \in {NotStated, {85}}}

MixedSubmissions ==
    TimeSubmissions \cup
    {Submitted("tp", {85}, In(80, 0, 0)), Submitted("fp", {120}, In(60, 60, 0))}

VARIABLE part

Init ==
    /\ part \in {"scoring", "feedback", "response"}
    /\ LatticeInit /\ FeedbackInit /\ ResponseInit
    /\ part # "scoring" => level = 0 /\ groups = {} /\ anomaly = 0

Next ==
    \/ part = "scoring" /\ LatticeNext /\ UNCHANGED <<part, feedback, tools>>
    \/ part = "feedback" /\ FeedbackNext /\ UNCHANGED <<part, signals, tools>>
    \/ part = "response" /\ ResponseNext /\ UNCHANGED <<part, signals, feedback>>

Spec == Init /\ [][Next]_<<part, signals, feedback, tools>>
==============================================================================
