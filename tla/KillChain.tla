----------------------------- MODULE KillChain -----------------------------
(***************************************************************************)
(* What run_attack_chain promises its reader: a report with one entry per  *)
(* planned step, in the plan's order; under stop_on_block everything after *)
(* the first step that is not exploitable is halted, and only that; and    *)
(* the verdict fully_exploitable exactly when every entry is exploitable.  *)
(* A run may also break off, with a prefix of the report and no verdict.   *)
(***************************************************************************)
EXTENDS Naturals, Sequences

CONSTANT Plans      \* the sequences of steps that may be asked for

VARIABLES
    plan,           \* the steps asked for, <<>> before a run starts
    stop,           \* stop_on_block
    entries,        \* "exploitable", "blocked" or "halted", one per step so far
    verdict         \* "none", "full" or "partial"

kcVars == <<plan, stop, entries, verdict>>

Stopped == stop /\ \E i \in DOMAIN entries : entries[i] # "exploitable"

Init == plan = <<>> /\ stop = FALSE /\ entries = <<>> /\ verdict = "none"

Ask ==
    /\ plan = <<>>
    /\ plan' \in Plans /\ stop' \in BOOLEAN
    /\ UNCHANGED <<entries, verdict>>

AddEntry ==
    /\ Len(entries) < Len(plan)
    /\ \E e \in IF Stopped THEN {"halted"} ELSE {"exploitable", "blocked"} :
         entries' = Append(entries, e)
    /\ UNCHANGED <<plan, stop, verdict>>

Conclude ==
    /\ plan # <<>> /\ Len(entries) = Len(plan) /\ verdict = "none"
    /\ verdict' = IF \A i \in DOMAIN entries : entries[i] = "exploitable"
                  THEN "full" ELSE "partial"
    /\ UNCHANGED <<plan, stop, entries>>

Next == Ask \/ AddEntry \/ Conclude
Spec == Init /\ [][Next]_kcVars
=============================================================================
