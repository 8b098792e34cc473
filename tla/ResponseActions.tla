--------------------------- MODULE ResponseActions ---------------------------
(***************************************************************************)
(* The response tools: blocking an address and isolating the host through  *)
(* the Wazuh API, undoing either over SSH, and opening a ticket.  Callers  *)
(* (the poll loop, the hunt thread, analysts) run them concurrently on one *)
(* endpoint.                                                               *)
(*                                                                         *)
(* Covered: replies lost after the request took effect, the delay between  *)
(* a queued active-response command and its execution, SSH attempts that   *)
(* time out after the script ran and are repeated, failed audit writes, a  *)
(* caller that dies in the middle.                                         *)
(*                                                                         *)
(* External, modelled from the code's comments: firewall-drop inserts one  *)
(* more set of DROP rules per "add" and takes one away per "delete";       *)
(* isolate-host, which is not in the repository, is taken to isolate or    *)
(* not, however often it runs.                                             *)
(***************************************************************************)
EXTENDS Integers

CONSTANTS
    Callers,
    Addresses,    \* source addresses that get blocked
    Host,         \* the endpoint itself, as the target of an isolation
    MaxAttempts,  \* max_attempts of _run_ssh_command_with_retry
    MaxCalls      \* bound on calls

ASSUME TargetAssumption == Host \notin Addresses
ASSUME AttemptAssumption == MaxAttempts \in Nat \ {0}
ASSUME CallAssumption == MaxCalls \in Nat

Targets == Addresses \cup {Host}
Ops == {"add", "delete", "ticket"}

VARIABLES
    step,      \* next step of each caller
    call,      \* its call: operation, target, SSH attempt, result
    rules,     \* per target: sets of DROP rules, or 1 while isolated
    queued,    \* commands the agent has accepted and not yet run
    issues,    \* tickets opened
    entries,   \* siem-response-log entries, by operation and success
    calls,     \* calls so far
    asked,     \* history: PUTs and ticket POSTs sent
    granted,   \* history: adds reported successful
    undos,     \* history: deletes begun
    removed    \* history: rule sets taken away

tools == <<step, call, rules, queued, issues, entries, calls, asked, granted,
           undos, removed>>

NoCall == [op |-> "ticket", target |-> Host, attempt |-> 0, success |-> FALSE]

Results == Ops \X BOOLEAN

Counter == [t \in Targets |-> 0]

ResponseInit ==
    /\ step = [c \in Callers |-> "idle"]
    /\ call = [c \in Callers |-> NoCall]
    /\ rules = Counter /\ queued = Counter
    /\ issues = 0 /\ calls = 0
    /\ entries = [r \in Results |-> 0]
    /\ asked = Counter /\ granted = Counter /\ undos = Counter /\ removed = Counter

------------------------------------------------------------------------------
(* block_ip, isolate_endpoint, unblock_ip, unisolate_endpoint, create_ticket *)

FirstStep(op) == IF op = "delete" THEN "ssh" ELSE "request"

Begin(c, op, target) ==
    /\ step[c] = "idle" /\ calls < MaxCalls
    /\ op = "ticket" => target = Host
    /\ calls' = calls + 1
    /\ step' = [step EXCEPT ![c] = FirstStep(op)]
    /\ call' = [call EXCEPT ![c] = [op |-> op, target |-> target, attempt |-> 1,
                                    success |-> FALSE]]
    /\ undos' = IF op = "delete" THEN [undos EXCEPT ![target] = @ + 1] ELSE undos
    /\ UNCHANGED <<rules, queued, issues, entries, asked, granted, removed>>

\* The call has its result and goes on to log it.
Conclude(c, success) ==
    /\ step' = [step EXCEPT ![c] = "log"]
    /\ call' = [call EXCEPT ![c].success = success]

\* No token, an unknown agent, no GitHub configuration: nothing is sent.
NotSent(c) ==
    /\ step[c] = "request"
    /\ Conclude(c, FALSE)
    /\ UNCHANGED <<rules, queued, issues, entries, calls, asked, granted,
                   removed, undos>>

\* Mutant: a 200 is a success whatever it counts as failed.
OutcomesTrusting200 ==
    {[taken |-> TRUE, success |-> TRUE], [taken |-> FALSE, success |-> TRUE],
     [taken |-> FALSE, success |-> FALSE]}

\* What sending can come to: taken and confirmed, taken and the reply lost,
\* or refused.  A 200 that counts failed items is a refusal.
Outcomes == {[taken |-> TRUE, success |-> TRUE], [taken |-> TRUE, success |-> FALSE],
             [taken |-> FALSE, success |-> FALSE]}

(* PUT /active-response, sent once. *)
Put(c) ==
    /\ step[c] = "request" /\ call[c].op = "add"
    /\ \E o \in Outcomes :
         /\ queued' = IF o.taken THEN [queued EXCEPT ![call[c].target] = @ + 1]
                      ELSE queued
         /\ granted' = IF o.success THEN [granted EXCEPT ![call[c].target] = @ + 1]
                       ELSE granted
         /\ Conclude(c, o.success)
    /\ asked' = [asked EXCEPT ![call[c].target] = @ + 1]
    /\ UNCHANGED <<rules, issues, entries, calls, removed, undos>>

(* POST to GitHub Issues, sent once. *)
PostIssue(c) ==
    /\ step[c] = "request" /\ call[c].op = "ticket"
    /\ \E o \in Outcomes :
         /\ issues' = IF o.taken THEN issues + 1 ELSE issues
         /\ Conclude(c, o.success)
    /\ UNCHANGED <<rules, queued, entries, calls, asked, granted, removed,
                   undos>>

(* The agent runs a queued command: the script's "add". *)
RunAdd(target) ==
    /\ queued[target] > 0
    /\ queued' = [queued EXCEPT ![target] = @ - 1]
    /\ rules' = [rules EXCEPT ![target] = IF target = Host THEN 1 ELSE @ + 1]
    /\ UNCHANGED <<step, call, issues, entries, calls, asked, granted,
                   removed, undos>>

\* The script's "delete".
RunDelete(target) ==
    /\ rules' = [rules EXCEPT ![target] = IF @ = 0 THEN 0 ELSE @ - 1]
    /\ removed' = [removed EXCEPT ![target] = @ + rules[target] - rules'[target]]

\* Mutant: one attempt too many.
RetryOnceMore(c) ==
    IF call[c].attempt <= MaxAttempts
    THEN /\ call' = [call EXCEPT ![c].attempt = @ + 1]
         /\ UNCHANGED step
    ELSE Conclude(c, FALSE)

\* A failed attempt is repeated until MaxAttempts are spent.
Retry(c) ==
    IF call[c].attempt < MaxAttempts
    THEN /\ call' = [call EXCEPT ![c].attempt = @ + 1]
         /\ UNCHANGED step
    ELSE Conclude(c, FALSE)

(* One SSH attempt: the script may run and report, run and be cut off, or   *)
(* not run.                                                                 *)
SshAttempt(c) ==
    /\ step[c] = "ssh"
    /\ \/ RunDelete(call[c].target) /\ Conclude(c, TRUE)
       \/ RunDelete(call[c].target) /\ Retry(c)
       \/ Retry(c) /\ UNCHANGED <<rules, removed>>
    /\ UNCHANGED <<queued, issues, entries, calls, asked, granted, undos>>

ResultOf(c) == <<call[c].op, call[c].success>>

(* _log_response_action, whose POST may fail, and the return. *)
Log(c) ==
    /\ step[c] = "log"
    /\ \/ entries' = [entries EXCEPT ![ResultOf(c)] = @ + 1]
       \/ UNCHANGED entries
    /\ step' = [step EXCEPT ![c] = "idle"]
    /\ call' = [call EXCEPT ![c] = NoCall]
    /\ UNCHANGED <<rules, queued, issues, calls, asked, granted, removed,
                   undos>>

(* The caller's process dies. *)
Die(c) ==
    /\ step[c] # "idle"
    /\ step' = [step EXCEPT ![c] = "idle"]
    /\ call' = [call EXCEPT ![c] = NoCall]
    /\ UNCHANGED <<rules, queued, issues, entries, calls, asked, granted,
                   removed, undos>>

------------------------------------------------------------------------------
Proceed(c) == NotSent(c) \/ Put(c) \/ PostIssue(c) \/ SshAttempt(c) \/ Log(c)

ResponseNext ==
    \/ \E c \in Callers :
         \/ \E op \in Ops, target \in Targets : Begin(c, op, target)
         \/ Proceed(c) \/ Die(c)
    \/ \E target \in Targets : RunAdd(target)

ResponseSpec == ResponseInit /\ [][ResponseNext]_tools

------------------------------------------------------------------------------
(* Properties *)

ResponseTypeOK ==
    /\ step \in [Callers -> {"idle", "request", "ssh", "log"}]
    /\ call \in [Callers -> [op: Ops, target: Targets, attempt: 0..MaxAttempts,
                             success: BOOLEAN]]
    /\ rules \in [Targets -> Nat] /\ queued \in [Targets -> Nat]
    /\ issues \in Nat /\ entries \in [Results -> Nat]
    /\ calls \in 0..MaxCalls
    /\ asked \in [Targets -> Nat] /\ granted \in [Targets -> Nat]
    /\ undos \in [Targets -> Nat] /\ removed \in [Targets -> Nat]

(* The DROP rules of an address account for the block calls, whatever       *)
(* replies were lost: each successful block_ip stands for one set of rules  *)
(* that is in place, on its way or was taken away by an unblock_ip, and no  *)
(* PUT stands for more than one.                                            *)
RulesMatchCalls ==
    \A a \in Addresses :
        LET accounted == rules[a] + queued[a] + removed[a] IN
        granted[a] <= accounted /\ accounted <= asked[a]

(* An unblock_ip whose attempts are cut off after the script ran may take   *)
(* away the rules of other blocks too, but never more than it has attempts. *)
UnblockIsBounded ==
    \A a \in Addresses : removed[a] <= MaxAttempts * undos[a]

(* A ticket the audit log calls successful exists on GitHub. *)
LoggedTicketsExist == entries[<<"ticket", TRUE>>] <= issues
==============================================================================
