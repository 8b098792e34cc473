------------------------------ MODULE MCHunts ------------------------------
(* A department of three users and a user without peers; windows of one and *)
(* of three intervals; the shipped directory in small, with an insider file *)
(* in it, and one without.                                                  *)
EXTENDS Hunts, TLC

CONSTANTS none, dev, root, www, agent

FourUsers == <<agent, dev, root, www>>
Departments == (dev :> {}) @@ (root :> {www, agent}) @@ (www :> {root, agent}) @@ (agent :> {root, www})
Agents == {"s1", "s2", "s3"}
On(days, hours) == [d \in 1..3 |-> IF d \in days THEN hours ELSE {}]
SomeSchedules == {On({}, {}), On({2}, {3}), On({1, 2}, {3}), On({1, 3}, {3}), On(1..3, {0}),
                  [On(1..3, {3}) EXCEPT ![2] = {0, 3}]}
EscalateMost == [d \in Detections |-> d # "access_broadening"]

Hits1 == [insider |-> FALSE, complete |-> TRUE, aggregation |-> FALSE, finding_threshold |-> 2,
          escalate_if_found |-> TRUE, renders |-> TRUE, tags |-> TRUE, compares |-> TRUE]
Hits0 == [Hits1 EXCEPT !.finding_threshold = 0]
Aggregation3 == [Hits1 EXCEPT !.aggregation = TRUE, !.finding_threshold = 3]
ProxyHunt == [Hits1 EXCEPT !.escalate_if_found = FALSE]
NoRate == [Aggregation3 EXCEPT !.tags = FALSE, !.compares = FALSE]
NoWindow == [Hits1 EXCEPT !.renders = FALSE]
InsiderFile == [Hits1 EXCEPT !.insider = TRUE, !.complete = FALSE]
SomeDirectories == {<<Hits1, Aggregation3, ProxyHunt>>, <<Hits0, NoRate, Hits1>>,
                    <<Aggregation3, NoWindow>>, <<Hits1, InsiderFile, Aggregation3>>}
=============================================================================
