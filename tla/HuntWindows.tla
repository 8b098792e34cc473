---------------------------- MODULE HuntWindows ----------------------------
(***************************************************************************)
(* run_hunt (agents/hunting_agent.py) on the schedule of                   *)
(* start_hunt_scheduler (pipeline_runner.py), followed hour by hour for one *)
(* playbook: each cycle searches the last time_window hours and, when it   *)
(* finds anything, hands its newest finding to the graph.  Nothing is kept *)
(* from one cycle to the next.                                             *)
(*                                                                         *)
(* Abstracted: what a finding is (here the hour of its timestamp), the     *)
(* record and the summary.  A cycle takes less than an hour.  An escalation *)
(* counts when it is made, also if the graph it invokes fails: run_hunt     *)
(* does not look at what became of it.                                      *)
(***************************************************************************)
EXTENDS Naturals, FiniteSets

CONSTANTS
    HUNT_INTERVAL_HOURS,
    TimeWindows,        \* the time_window of the playbooks
    MaxDelay,           \* hours from an event to its being in the index
    LastHour,           \* bound: the hours followed
    MaxEvents           \* bound: events that match the playbook

ASSUME WindowsAssumption ==
    /\ HUNT_INTERVAL_HOURS \in Nat \ {0} /\ TimeWindows \subseteq Nat
    /\ {MaxDelay, LastHour, MaxEvents} \subseteq Nat

VARIABLES
    now, time_window,
    due,            \* the hour of the scheduler's next cycle
    matching,       \* events: hour of the timestamp -> hour it is in the index
    escalations,    \* history: how often each was a cycle's newest finding, so handed on
    passedOver,     \* history: events a later finding of the same cycle stood in for
    faulted         \* history: events whose cycle failed or never took place

windowVars == <<now, time_window, due, matching, escalations, passedOver, faulted>>

Hours == 0..LastHour
Happened == DOMAIN matching
\* Mutants: the query has no lower bound; its lower bound is gt, not gte.
InWindowForever == Happened
InWindowStrictly == {e \in Happened : e + time_window > now}

InWindow == {e \in Happened : e + time_window >= now}
Hits == {e \in InWindow : matching[e] <= now}

-----------------------------------------------------------------------------

WindowsInit ==
    /\ now = 0 /\ due = HUNT_INTERVAL_HOURS /\ time_window \in TimeWindows
    /\ matching = [e \in {} |-> 0] /\ escalations = [e \in {} |-> 0]
    /\ passedOver = {} /\ faulted = {}

(* The scheduler's thread is prompt: a cycle that is due comes first.      *)
Tick ==
    /\ now < LastHour /\ now < due
    /\ now' = now + 1
    /\ UNCHANGED <<time_window, due, matching, escalations, passedOver, faulted>>

Event ==
    /\ now \notin Happened /\ Cardinality(Happened) < MaxEvents
    /\ \E delay \in 0..MaxDelay :
         matching' = [e \in Happened \union {now} |-> IF e = now THEN now + delay ELSE matching[e]]
    /\ escalations' = [e \in Happened \union {now} |-> IF e = now THEN 0 ELSE escalations[e]]
    /\ UNCHANGED <<now, time_window, due, passedOver, faulted>>

(* The search, newest first, and the escalation of findings[0].            *)
RunHunt ==
    /\ now = due
    /\ due' = due + HUNT_INTERVAL_HOURS
    /\ \/ Hits = {} /\ UNCHANGED <<escalations, passedOver>>
       \/ \E top \in Hits :
            /\ \A e \in Hits : e <= top
            /\ escalations' = [escalations EXCEPT ![top] = @ + 1]
            /\ passedOver' = passedOver \union (Hits \ {top})
    /\ UNCHANGED <<now, time_window, matching, faulted>>

(* The search fails, or the scheduler misses its time.                     *)
HuntFails ==
    /\ now = due
    /\ due' = due + HUNT_INTERVAL_HOURS
    /\ faulted' = faulted \union InWindow
    /\ UNCHANGED <<now, time_window, matching, escalations, passedOver>>

(* A new process starts a new interval, without a cycle at its start.      *)
RestartScheduler ==
    /\ due' = now + HUNT_INTERVAL_HOURS /\ due' # due
    /\ faulted' = faulted \union InWindow
    /\ UNCHANGED <<now, time_window, matching, escalations, passedOver>>

WindowsStep == Tick \/ Event \/ RunHunt \/ HuntFails \/ RestartScheduler

-----------------------------------------------------------------------------
(* Properties.                                                             *)

WindowsTypeOK ==
    /\ now \in Hours /\ due \in Nat /\ time_window \in TimeWindows
    /\ Happened \subseteq Hours /\ matching \in [Happened -> Nat] /\ escalations \in [Happened -> Nat]
    /\ passedOver \subseteq Hours /\ faulted \subseteq Hours

(* The same finding is escalated again in every cycle until it leaves the  *)
(* window, and no longer: at most one more time than intervals fit in it.  *)
RepeatsAreBounded ==
    \A e \in Happened : escalations[e] > 0 =>
        (escalations[e] - 1) * HUNT_INTERVAL_HOURS <= time_window

(* An event that is indexed while a whole interval of its window is left   *)
(* is escalated or stood in for by a newer one, before it leaves the       *)
(* window, unless a cycle failed or the process was restarted meanwhile.   *)
(* (For a window of one interval that is no time at all.)                  *)
NoTimelyEventIsLost ==
    \A e \in Happened :
        /\ now > e + time_window
        /\ matching[e] + HUNT_INTERVAL_HOURS <= e + time_window
        /\ e \notin faulted
        => escalations[e] > 0 \/ e \in passedOver
=============================================================================
