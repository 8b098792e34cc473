------------------------ MODULE ResponseActionsProofs ------------------------
(***************************************************************************)
(* For any callers, addresses, number of attempts and number of calls: the *)
(* DROP rules on the endpoint account for the block calls, an unblock      *)
(* takes away no more than it has attempts, and logged tickets exist.      *)
(***************************************************************************)
EXTENDS ResponseActions, FiniteSetTheorems, TLAPS

LEMMA TypesInitially == ResponseInit => ResponseTypeOK
BY AttemptAssumption, CallAssumption
   DEF ResponseInit, ResponseTypeOK, NoCall, Ops, Targets, Results, Counter

\* A confirmed request was taken.
LEMMA OutcomeFacts ==
    \A o \in Outcomes : /\ o.taken \in BOOLEAN /\ o.success \in BOOLEAN
                        /\ o.success => o.taken
<1> SUFFICES ASSUME NEW o \in Outcomes
             PROVE /\ o.taken \in BOOLEAN /\ o.success \in BOOLEAN
                   /\ o.success => o.taken
  OBVIOUS
<1>1. CASE o = [taken |-> TRUE, success |-> TRUE]
  BY <1>1
<1>2. CASE o = [taken |-> TRUE, success |-> FALSE]
  BY <1>2
<1>3. CASE o = [taken |-> FALSE, success |-> FALSE]
  BY <1>3
<1> QED
  BY <1>1, <1>2, <1>3 DEF Outcomes

\* What a caller does next keeps its own types.
LEMMA ConcludeTypes ==
    ASSUME ResponseTypeOK, NEW c \in Callers, NEW success \in BOOLEAN, Conclude(c, success)
    PROVE ResponseTypeOK!1' /\ ResponseTypeOK!2'
BY DEF ResponseTypeOK, Conclude

LEMMA RetryTypes ==
    ASSUME ResponseTypeOK, NEW c \in Callers, Retry(c)
    PROVE ResponseTypeOK!1' /\ ResponseTypeOK!2'
<1>1. CASE call[c].attempt < MaxAttempts
  <2>1. call[c].attempt + 1 \in 0..MaxAttempts
    BY <1>1, AttemptAssumption DEF ResponseTypeOK
  <2> DEFINE next == [call[c] EXCEPT !.attempt = @ + 1]
  <2>2. next \in [op: Ops, target: Targets, attempt: 0..MaxAttempts,
                  success: BOOLEAN]
    BY <2>1 DEF ResponseTypeOK
  <2>3. call' = [call EXCEPT ![c] = next] /\ step' = step
    BY <1>1 DEF Retry
  <2> HIDE DEF next
  <2> QED
    BY <2>2, <2>3 DEF ResponseTypeOK
<1>2. CASE ~(call[c].attempt < MaxAttempts)
  BY <1>2, ConcludeTypes DEF Retry
<1> QED
  BY <1>1, <1>2

LEMMA TypesStep == ResponseTypeOK /\ [ResponseNext]_tools => ResponseTypeOK'
<1> SUFFICES ASSUME ResponseTypeOK, [ResponseNext]_tools PROVE ResponseTypeOK'
  OBVIOUS
<1> USE AttemptAssumption, CallAssumption DEF ResponseTypeOK
<1>1. ASSUME NEW c \in Callers, NEW op \in Ops, NEW target \in Targets,
             Begin(c, op, target)
      PROVE ResponseTypeOK'
  BY <1>1 DEF Begin, FirstStep
<1>2. ASSUME NEW c \in Callers, NotSent(c) PROVE ResponseTypeOK'
  BY <1>2 DEF NotSent, Conclude
<1>3. ASSUME NEW c \in Callers, Put(c) PROVE ResponseTypeOK'
  <2>1. PICK o \in Outcomes :
          /\ queued' = IF o.taken THEN [queued EXCEPT ![call[c].target] = @ + 1]
                       ELSE queued
          /\ granted' = IF o.success THEN [granted EXCEPT ![call[c].target] = @ + 1]
                        ELSE granted
          /\ Conclude(c, o.success)
    BY <1>3 DEF Put
  <2>2. o.success \in BOOLEAN /\ call[c].target \in Targets
    BY OutcomeFacts
  <2> QED
    BY <1>3, <2>1, <2>2 DEF Put, Conclude
<1>4. ASSUME NEW c \in Callers, PostIssue(c) PROVE ResponseTypeOK'
  <2>1. PICK o \in Outcomes :
          /\ issues' = IF o.taken THEN issues + 1 ELSE issues
          /\ Conclude(c, o.success)
    BY <1>4 DEF PostIssue
  <2> QED
    BY <1>4, <2>1, OutcomeFacts, ConcludeTypes DEF PostIssue
<1>5. ASSUME NEW target \in Targets, RunAdd(target) PROVE ResponseTypeOK'
  BY <1>5 DEF RunAdd
<1>6. ASSUME NEW c \in Callers, SshAttempt(c) PROVE ResponseTypeOK'
  <2>1. call[c].target \in Targets /\ call[c].attempt \in 0..MaxAttempts
    OBVIOUS
  <2>2. CASE Retry(c) /\ UNCHANGED <<rules, removed>>
    BY <1>6, <2>2, RetryTypes DEF SshAttempt
  <2>3. CASE RunDelete(call[c].target) /\ (Conclude(c, TRUE) \/ Retry(c))
    <3>1. rules' \in [Targets -> Nat] /\ removed' \in [Targets -> Nat]
      BY <2>1, <2>3 DEF RunDelete
    <3>2. ResponseTypeOK!1' /\ ResponseTypeOK!2'
      BY <2>3, RetryTypes, ConcludeTypes
    <3> QED
      BY <1>6, <3>1, <3>2 DEF SshAttempt
  <2> QED
    BY <1>6, <2>2, <2>3 DEF SshAttempt
<1>7. ASSUME NEW c \in Callers, Log(c) PROVE ResponseTypeOK'
  <2>1. ResultOf(c) \in Results
    BY DEF ResultOf, Results
  <2>2. /\ step' = [step EXCEPT ![c] = "idle"]
        /\ call' = [call EXCEPT ![c] = NoCall]
    BY <1>7 DEF Log
  <2>3. ResponseTypeOK!1' /\ ResponseTypeOK!2'
    BY <2>2 DEF NoCall, Ops, Targets
  <2> QED
    BY <1>7, <2>1, <2>3 DEF Log
<1>8. ASSUME NEW c \in Callers, Die(c) PROVE ResponseTypeOK'
  BY <1>8 DEF Die, NoCall, Ops, Targets
<1>9. CASE UNCHANGED tools
  BY <1>9 DEF tools
<1> QED
  BY <1>1, <1>2, <1>3, <1>4, <1>5, <1>6, <1>7, <1>8, <1>9 DEF ResponseNext, Proceed

LEMMA RulesInitially == ResponseInit => RulesMatchCalls
BY DEF ResponseInit, RulesMatchCalls, Counter, Targets

LEMMA RulesStep == ResponseTypeOK /\ RulesMatchCalls /\ [ResponseNext]_tools => RulesMatchCalls'
<1> SUFFICES ASSUME ResponseTypeOK, RulesMatchCalls, [ResponseNext]_tools, NEW a \in Addresses
             PROVE (/\ granted[a] <= rules[a] + queued[a] + removed[a]
                    /\ rules[a] + queued[a] + removed[a] <= asked[a])'
  BY DEF RulesMatchCalls
<1>0. /\ a \in Targets /\ a # Host
      /\ granted[a] <= rules[a] + queued[a] + removed[a]
      /\ rules[a] + queued[a] + removed[a] <= asked[a]
      /\ {granted[a], rules[a], queued[a], removed[a], asked[a]} \subseteq Nat
  BY TargetAssumption DEF ResponseTypeOK, Targets, RulesMatchCalls
<1>1. ASSUME NEW c \in Callers, Put(c)
      PROVE (/\ granted[a] <= rules[a] + queued[a] + removed[a]
             /\ rules[a] + queued[a] + removed[a] <= asked[a])'
  <2>1. PICK o \in Outcomes :
          /\ queued' = IF o.taken THEN [queued EXCEPT ![call[c].target] = @ + 1]
                       ELSE queued
          /\ granted' = IF o.success THEN [granted EXCEPT ![call[c].target] = @ + 1]
                        ELSE granted
    BY <1>1 DEF Put
  <2>2. o.success => o.taken  \* a reply the code trusts confirms the command
    BY OutcomeFacts
  <2> QED
    BY <1>0, <1>1, <2>1, <2>2 DEF Put, ResponseTypeOK
<1>2. ASSUME NEW target \in Targets, RunAdd(target)
      PROVE (/\ granted[a] <= rules[a] + queued[a] + removed[a]
             /\ rules[a] + queued[a] + removed[a] <= asked[a])'
  BY <1>0, <1>2 DEF RunAdd, ResponseTypeOK
<1>3. ASSUME NEW c \in Callers, SshAttempt(c)
      PROVE (/\ granted[a] <= rules[a] + queued[a] + removed[a]
             /\ rules[a] + queued[a] + removed[a] <= asked[a])'
  <2>1. rules'[a] + removed'[a] = rules[a] + removed[a]
    <3>1. CASE UNCHANGED <<rules, removed>>
      BY <3>1
    <3>2. CASE RunDelete(call[c].target)
      <4>1. CASE call[c].target = a
        <5>1. rules'[a] = IF rules[a] = 0 THEN 0 ELSE rules[a] - 1
          BY <1>0, <3>2, <4>1 DEF RunDelete, ResponseTypeOK
        <5>2. removed'[a] = removed[a] + rules[a] - rules'[a]
          BY <1>0, <3>2, <4>1 DEF RunDelete, ResponseTypeOK
        <5> QED
          BY <1>0, <5>1, <5>2
      <4>2. CASE call[c].target # a
        BY <1>0, <3>2, <4>2 DEF RunDelete, ResponseTypeOK
      <4> QED
        BY <4>1, <4>2
    <3> QED
      BY <1>3, <3>1, <3>2 DEF SshAttempt
  <2>2. rules'[a] \in Nat /\ removed'[a] \in Nat
    BY <1>0, TypesStep DEF ResponseTypeOK
  <2> QED
    BY <1>0, <1>3, <2>1, <2>2 DEF SshAttempt
<1>4. CASE UNCHANGED <<granted, rules, queued, removed, asked>>
  BY <1>0, <1>4
<1> QED
  BY <1>1, <1>2, <1>3, <1>4 DEF ResponseNext, Proceed, Begin, NotSent, PostIssue, Log, Die,
     tools

(* The response tools keep their types. *)
THEOREM TypeCorrect == ResponseSpec => []ResponseTypeOK
BY TypesInitially, TypesStep, PTL DEF ResponseSpec

(* Whatever replies are lost and attempts repeated, the rules in place, the *)
(* commands on their way and the rules taken away account for the blocks    *)
(* reported successful, and never exceed the blocks sent.                   *)
THEOREM RulesAccounted == ResponseSpec => []RulesMatchCalls
BY RulesInitially, RulesStep, TypeCorrect, PTL DEF ResponseSpec

-----------------------------------------------------------------------------
(* Attempts an unblock under way still has, and successful tickets still   *)
(* to be logged.  Counting them makes the two bounds inductive: an attempt *)
(* that removes a rule set is spent, and an entry logged was pending.      *)

Open(a) == {p \in Callers \X (1..MaxAttempts) :
              step[p[1]] = "ssh" /\ call[p[1]].target = a /\ call[p[1]].attempt <= p[2]}

Pending == {c \in Callers : step[c] = "log" /\ call[c].op = "ticket" /\ call[c].success}

Tickets == entries[<<"ticket", TRUE>>]

UnderSsh == \A c \in Callers : step[c] = "ssh" => call[c].op = "delete" /\ call[c].attempt > 0

Bounded(a) == /\ IsFiniteSet(Open(a))
              /\ removed[a] + Cardinality(Open(a)) <= MaxAttempts * undos[a]

LoggedOK == IsFiniteSet(Pending) /\ Tickets + Cardinality(Pending) <= issues

LEMMA SshInitially == ResponseInit => UnderSsh
BY DEF ResponseInit, UnderSsh

LEMMA SshStep == ResponseTypeOK /\ UnderSsh /\ [ResponseNext]_tools => UnderSsh'
<1> SUFFICES ASSUME ResponseTypeOK, UnderSsh, [ResponseNext]_tools PROVE UnderSsh'
  OBVIOUS
<1> USE DEF ResponseTypeOK, UnderSsh
<1>1. ASSUME NEW c \in Callers, NEW op \in Ops, NEW target \in Targets, Begin(c, op, target)
      PROVE UnderSsh'
  BY <1>1 DEF Begin, FirstStep, Ops
<1>2. ASSUME NEW c \in Callers, NotSent(c) \/ Put(c) \/ PostIssue(c) \/ Log(c) \/ Die(c)
      PROVE UnderSsh'
  <2>1. /\ step'[c] # "ssh"
        /\ \A d \in Callers \ {c} : step'[d] = step[d] /\ call'[d] = call[d]
    BY <1>2 DEF NotSent, Put, PostIssue, Log, Die, Conclude
  <2> QED BY <2>1
<1>3. ASSUME NEW c \in Callers, SshAttempt(c) PROVE UnderSsh'
  <2>1. CASE \E success \in BOOLEAN : Conclude(c, success)
    BY <2>1 DEF Conclude
  <2>2. CASE /\ call' = [call EXCEPT ![c].attempt = @ + 1]
             /\ UNCHANGED step
    BY <2>2
  <2> QED BY <1>3, <2>1, <2>2 DEF SshAttempt, Retry
<1>4. CASE UNCHANGED <<step, call>>
  BY <1>4
<1> QED BY <1>1, <1>2, <1>3, <1>4 DEF ResponseNext, Proceed, RunAdd, tools

-----------------------------------------------------------------------------
(* The bound on unblock_ip.                                                *)

\* Nothing is removed, and no attempt is added.
LEMMA FewerOpen ==
    ASSUME ResponseTypeOK, ResponseTypeOK', NEW a \in Addresses, Bounded(a),
           Open(a)' \subseteq Open(a), removed'[a] = removed[a], undos'[a] = undos[a]
    PROVE  Bounded(a)'
<1>1. /\ IsFiniteSet(Open(a)') /\ Cardinality(Open(a)') <= Cardinality(Open(a))
      /\ Cardinality(Open(a)) \in Nat /\ Cardinality(Open(a)') \in Nat
  BY FS_Subset, FS_CardinalityType DEF Bounded
<1>2. removed[a] \in Nat /\ MaxAttempts * undos[a] \in Nat
  BY AttemptAssumption DEF ResponseTypeOK, Targets
<1>3. removed[a] + Cardinality(Open(a)) <= MaxAttempts * undos[a]
  BY DEF Bounded
<1> HIDE DEF Open
<1>4. removed[a] + Cardinality(Open(a)') <= MaxAttempts * undos[a]
  BY <1>1, <1>2, <1>3
<1> QED BY <1>1, <1>4 DEF Bounded

\* An attempt that may have removed a rule set is spent.
LEMMA AttemptSpent ==
    ASSUME ResponseTypeOK, ResponseTypeOK', NEW a \in Addresses, Bounded(a), NEW p \in Open(a),
           Open(a)' \subseteq Open(a) \ {p}, removed'[a] <= removed[a] + 1, undos'[a] = undos[a]
    PROVE  Bounded(a)'
<1>1. IsFiniteSet(Open(a)) /\ removed[a] + Cardinality(Open(a)) <= MaxAttempts * undos[a]
  BY DEF Bounded
<1>2. /\ IsFiniteSet(Open(a) \ {p}) /\ Cardinality(Open(a) \ {p}) = Cardinality(Open(a)) - 1
      /\ Cardinality(Open(a)) \in Nat
  BY <1>1, FS_RemoveElement, FS_CardinalityType
<1>3. /\ IsFiniteSet(Open(a)') /\ Cardinality(Open(a)') \in Nat
      /\ Cardinality(Open(a)') <= Cardinality(Open(a) \ {p})
  BY <1>2, FS_Subset, FS_CardinalityType
<1>4. removed[a] \in Nat /\ removed'[a] \in Nat /\ MaxAttempts * undos[a] \in Nat
  BY AttemptAssumption DEF ResponseTypeOK, Targets
<1>5. removed'[a] + Cardinality(Open(a)') <= MaxAttempts * undos[a]
  BY <1>1, <1>2, <1>3, <1>4
<1> QED BY <1>3, <1>5 DEF Bounded

\* A new unblock brings MaxAttempts attempts.
LEMMA AttemptsGranted ==
    ASSUME ResponseTypeOK, ResponseTypeOK', NEW a \in Addresses, Bounded(a), NEW c \in Callers,
           Open(a)' \subseteq Open(a) \cup ({c} \X (1..MaxAttempts)),
           removed'[a] = removed[a], undos'[a] = undos[a] + 1
    PROVE  Bounded(a)'
<1> DEFINE New == {c} \X (1..MaxAttempts)
<1>1. IsFiniteSet(Open(a)) /\ removed[a] + Cardinality(Open(a)) <= MaxAttempts * undos[a]
  BY DEF Bounded
<1>2. MaxAttempts \in Nat \ {0}
  BY AttemptAssumption
<1>3. IsFiniteSet(1..MaxAttempts) /\ Cardinality(1..MaxAttempts) = MaxAttempts
  BY <1>2, FS_Interval
<1>4. IsFiniteSet({c}) /\ Cardinality({c}) = 1
  BY FS_Singleton
<1>5. IsFiniteSet(New) /\ Cardinality(New) = 1 * MaxAttempts
  BY <1>3, <1>4, FS_Product
<1> HIDE DEF New
<1>6. /\ IsFiniteSet(Open(a) \cup New)
      /\ Cardinality(Open(a) \cup New)
           = Cardinality(Open(a)) + Cardinality(New) - Cardinality(Open(a) \cap New)
  BY <1>1, <1>5, FS_Union
<1>7. IsFiniteSet(Open(a) \cap New)
  BY <1>1, FS_Subset
<1>8. /\ Cardinality(Open(a)) \in Nat /\ Cardinality(New) \in Nat
      /\ Cardinality(Open(a) \cap New) \in Nat
  BY <1>1, <1>5, <1>7, FS_CardinalityType
<1>9. Open(a)' \in SUBSET (Open(a) \cup New)
  BY DEF New
<1>10. /\ IsFiniteSet(Open(a)') /\ Cardinality(Open(a)') \in Nat
       /\ Cardinality(Open(a)') <= Cardinality(Open(a) \cup New)
  BY <1>6, <1>9, FS_Subset, FS_CardinalityType
<1>11. /\ removed[a] \in Nat /\ undos[a] \in Nat
  BY DEF ResponseTypeOK, Targets
<1>12. MaxAttempts * (undos[a] + 1) = MaxAttempts * undos[a] + MaxAttempts
       /\ MaxAttempts * undos[a] \in Nat
  BY <1>2, <1>11
<1>13. removed[a] + Cardinality(Open(a)') <= MaxAttempts * undos[a] + MaxAttempts
  BY <1>1, <1>2, <1>5, <1>6, <1>8, <1>10, <1>11, <1>12
<1> QED BY <1>10, <1>12, <1>13 DEF Bounded

LEMMA BoundInitially == ResponseInit => \A a \in Addresses : Bounded(a)
<1> SUFFICES ASSUME ResponseInit, NEW a \in Addresses PROVE Bounded(a)
  OBVIOUS
<1>1. Open(a) = {}
  BY DEF ResponseInit, Open
<1>2. removed[a] = 0 /\ undos[a] = 0 /\ MaxAttempts * 0 = 0
  BY AttemptAssumption DEF ResponseInit, Counter, Targets
<1> QED BY <1>1, <1>2, FS_EmptySet DEF Bounded

LEMMA BoundStep ==
    ASSUME ResponseTypeOK, ResponseTypeOK', UnderSsh, [ResponseNext]_tools, NEW a \in Addresses, Bounded(a)
    PROVE  Bounded(a)'
<1>0. a \in Targets /\ a # Host
  BY TargetAssumption DEF Targets
<1>1. ASSUME NEW c \in Callers, NEW op \in Ops, NEW target \in Targets, Begin(c, op, target)
      PROVE Bounded(a)'
  <2>1. Open(a)' \subseteq Open(a) \cup ({c} \X (1..MaxAttempts))
    BY <1>1 DEF Begin, Open, ResponseTypeOK
  <2>2. op # "delete" \/ target # a => Open(a)' \subseteq Open(a) /\ undos'[a] = undos[a]
    BY <1>1, <1>0 DEF Begin, FirstStep, Open, ResponseTypeOK
  <2>3. op = "delete" /\ target = a => undos'[a] = undos[a] + 1
    BY <1>1, <1>0 DEF Begin, ResponseTypeOK
  <2>4. removed'[a] = removed[a]
    BY <1>1 DEF Begin
  <2> QED BY <2>1, <2>2, <2>3, <2>4, FewerOpen, AttemptsGranted
<1>2. ASSUME NEW c \in Callers, NotSent(c) \/ Put(c) \/ PostIssue(c) \/ Log(c) \/ Die(c)
      PROVE Bounded(a)'
  <2>1. /\ step'[c] # "ssh"
        /\ \A d \in Callers \ {c} : step'[d] = step[d] /\ call'[d] = call[d]
    BY <1>2 DEF NotSent, Put, PostIssue, Log, Die, Conclude, ResponseTypeOK
  <2>2. Open(a)' \subseteq Open(a)
    BY <2>1 DEF Open
  <2>3. removed' = removed /\ undos' = undos
    BY <1>2 DEF NotSent, Put, PostIssue, Log, Die
  <2> QED BY <2>2, <2>3, FewerOpen
<1>3. ASSUME NEW c \in Callers, SshAttempt(c) PROVE Bounded(a)'
  <2>1. /\ step[c] = "ssh" /\ undos' = undos
        /\ call[c].attempt \in 1..MaxAttempts /\ call[c].target \in Targets
    BY <1>3 DEF SshAttempt, UnderSsh, ResponseTypeOK
  <2>2. /\ \A d \in Callers \ {c} : step'[d] = step[d] /\ call'[d] = call[d]
        /\ step'[c] # "ssh" \/ (call'[c].target = call[c].target
                                /\ call'[c].attempt = call[c].attempt + 1)
    BY <1>3 DEF SshAttempt, Conclude, Retry, ResponseTypeOK
  <2>3. CASE call[c].target # a
    <3>1. Open(a)' \subseteq Open(a)
      BY <2>2, <2>3 DEF Open
    <3>2. removed'[a] = removed[a]
      BY <1>0, <1>3, <2>1, <2>3 DEF SshAttempt, RunDelete, ResponseTypeOK
    <3> QED BY <2>1, <3>1, <3>2, FewerOpen
  <2>4. CASE call[c].target = a
    <3> DEFINE p == <<c, call[c].attempt>>
    <3>1. p \in Open(a)
      BY <2>1, <2>4 DEF Open
    <3>2. p \notin Open(a)' /\ Open(a)' \subseteq Open(a)
      BY <2>1, <2>2, <2>4 DEF Open
    <3>3. removed'[a] <= removed[a] + 1
      <4>1. CASE UNCHANGED removed
        BY <1>0, <4>1 DEF ResponseTypeOK
      <4>2. CASE RunDelete(a)
        BY <1>0, <4>2 DEF RunDelete, ResponseTypeOK
      <4> QED BY <1>3, <2>4, <4>1, <4>2 DEF SshAttempt
    <3> HIDE DEF p
    <3> QED BY <2>1, <3>1, <3>2, <3>3, AttemptSpent
  <2> QED BY <2>3, <2>4
<1>4. CASE UNCHANGED <<step, call, removed, undos>>
  BY <1>4, FewerOpen DEF Open
<1> QED BY <1>1, <1>2, <1>3, <1>4 DEF ResponseNext, Proceed, RunAdd, tools

(* However often the attempts of an unblock_ip are cut off after the script *)
(* ran, it takes away no more rule sets than it has attempts.               *)
THEOREM UnblockBounded == ResponseSpec => []UnblockIsBounded
<1> DEFINE Inv == ResponseTypeOK /\ UnderSsh /\ \A a \in Addresses : Bounded(a)
<1>1. ResponseInit => Inv
  BY TypesInitially, SshInitially, BoundInitially
<1>2. Inv /\ [ResponseNext]_tools => Inv'
  BY TypesStep, SshStep, BoundStep
<1>3. Inv => UnblockIsBounded
  <2> SUFFICES ASSUME Inv, NEW a \in Addresses PROVE removed[a] <= MaxAttempts * undos[a]
    BY DEF UnblockIsBounded
  <2>1. removed[a] \in Nat /\ undos[a] \in Nat /\ MaxAttempts \in Nat
    BY AttemptAssumption DEF ResponseTypeOK, Targets
  <2>2. Cardinality(Open(a)) \in Nat /\ removed[a] + Cardinality(Open(a)) <= MaxAttempts * undos[a]
    BY FS_CardinalityType DEF Bounded
  <2>3. MaxAttempts * undos[a] \in Nat
    BY <2>1
  <2> QED BY <2>1, <2>2, <2>3
<1> HIDE DEF Inv
<1> QED BY <1>1, <1>2, <1>3, PTL DEF ResponseSpec

-----------------------------------------------------------------------------
(* The audit log's tickets.                                                *)

\* No ticket becomes pending, and none is logged.
LEMMA FewerPending ==
    ASSUME ResponseTypeOK, ResponseTypeOK', LoggedOK, Pending' \subseteq Pending,
           Tickets' = Tickets, issues' = issues
    PROVE  LoggedOK'
<1>1. /\ IsFiniteSet(Pending') /\ Cardinality(Pending') <= Cardinality(Pending)
      /\ Cardinality(Pending) \in Nat /\ Cardinality(Pending') \in Nat
  BY FS_Subset, FS_CardinalityType DEF LoggedOK
<1>2. Tickets \in Nat /\ issues \in Nat
  BY DEF Tickets, ResponseTypeOK, Results, Ops
<1>3. Tickets + Cardinality(Pending) <= issues
  BY DEF LoggedOK
<1>4. Tickets + Cardinality(Pending') <= issues
  BY <1>1, <1>2, <1>3
<1> QED BY <1>1, <1>4 DEF LoggedOK

\* A ticket was opened and its call succeeded.
LEMMA OneMorePending ==
    ASSUME ResponseTypeOK, ResponseTypeOK', LoggedOK, NEW c, Pending' \subseteq Pending \cup {c},
           Tickets' = Tickets, issues' = issues + 1
    PROVE  LoggedOK'
<1>1. IsFiniteSet(Pending) /\ Tickets + Cardinality(Pending) <= issues
  BY DEF LoggedOK
<1>a. Cardinality(Pending) \in Nat
  BY <1>1, FS_CardinalityType
<1>b. /\ IsFiniteSet(Pending \cup {c})
      /\ Cardinality(Pending \cup {c})
           = IF c \in Pending THEN Cardinality(Pending) ELSE Cardinality(Pending) + 1
  BY <1>1, FS_AddElement
<1>2. /\ IsFiniteSet(Pending \cup {c}) /\ Cardinality(Pending) \in Nat
      /\ Cardinality(Pending \cup {c}) <= Cardinality(Pending) + 1
  BY <1>a, <1>b
<1>3. /\ IsFiniteSet(Pending') /\ Cardinality(Pending') \in Nat
      /\ Cardinality(Pending') <= Cardinality(Pending \cup {c})
      /\ Cardinality(Pending \cup {c}) \in Nat
  BY <1>2, FS_Subset, FS_CardinalityType
<1>4. Tickets \in Nat /\ issues \in Nat
  BY DEF Tickets, ResponseTypeOK, Results, Ops
<1>5. Tickets + Cardinality(Pending') <= issues + 1
  BY <1>1, <1>2, <1>3, <1>4
<1> QED BY <1>3, <1>5 DEF LoggedOK

\* A pending ticket was logged.
LEMMA PendingLogged ==
    ASSUME ResponseTypeOK, ResponseTypeOK', LoggedOK, NEW c \in Pending, Pending' \subseteq Pending \ {c},
           Tickets' <= Tickets + 1, issues' = issues
    PROVE  LoggedOK'
<1>1. IsFiniteSet(Pending) /\ Tickets + Cardinality(Pending) <= issues
  BY DEF LoggedOK
<1>2. /\ IsFiniteSet(Pending \ {c}) /\ Cardinality(Pending) \in Nat
      /\ Cardinality(Pending \ {c}) = Cardinality(Pending) - 1
  BY <1>1, FS_RemoveElement, FS_CardinalityType
<1>3. /\ IsFiniteSet(Pending') /\ Cardinality(Pending') \in Nat
      /\ Cardinality(Pending') <= Cardinality(Pending \ {c})
  BY <1>2, FS_Subset, FS_CardinalityType
<1>4. Tickets \in Nat /\ Tickets' \in Nat /\ issues \in Nat
  BY DEF Tickets, ResponseTypeOK, Results, Ops
<1>5. Tickets' + Cardinality(Pending') <= issues
  BY <1>1, <1>2, <1>3, <1>4
<1> QED BY <1>3, <1>5 DEF LoggedOK

LEMMA LoggedInitially == ResponseInit => LoggedOK
<1> SUFFICES ASSUME ResponseInit PROVE LoggedOK
  OBVIOUS
<1>1. Pending = {}
  BY DEF ResponseInit, Pending
<1>2. Tickets = 0 /\ issues = 0
  BY DEF ResponseInit, Tickets, Results, Ops
<1> QED BY <1>1, <1>2, FS_EmptySet DEF LoggedOK

LEMMA LoggedStep ==
    ASSUME ResponseTypeOK, ResponseTypeOK', UnderSsh, LoggedOK, [ResponseNext]_tools
    PROVE  LoggedOK'
<1>1. ASSUME NEW c \in Callers, NEW op \in Ops, NEW target \in Targets, Begin(c, op, target)
      PROVE LoggedOK'
  <2>1. Pending' \subseteq Pending
    BY <1>1 DEF Begin, FirstStep, Pending, ResponseTypeOK
  <2> QED BY <1>1, <2>1, FewerPending DEF Begin, Tickets
<1>2. ASSUME NEW c \in Callers, NotSent(c) \/ Put(c) \/ SshAttempt(c) \/ Die(c)
      PROVE LoggedOK'
  <2>1. /\ \A d \in Callers \ {c} : step'[d] = step[d] /\ call'[d] = call[d]
        /\ step'[c] = "log" => ~call'[c].success \/ call'[c].op # "ticket"
    <3>1. CASE NotSent(c) \/ Die(c)
      BY <3>1 DEF NotSent, Die, Conclude, ResponseTypeOK
    <3>2. CASE Put(c)
      <4>1. PICK o \in Outcomes : Conclude(c, o.success)
        BY <3>2 DEF Put
      <4>2. call[c].op = "add"
        BY <3>2 DEF Put
      <4> QED BY <4>1, <4>2 DEF Conclude, ResponseTypeOK
    <3>3. CASE SshAttempt(c)
      <4>1. call[c].op = "delete" /\ step[c] = "ssh"
        BY <3>3 DEF SshAttempt, UnderSsh
      <4>2. CASE \E success \in BOOLEAN : Conclude(c, success)
        BY <4>1, <4>2 DEF Conclude, ResponseTypeOK
      <4>3. CASE call' = [call EXCEPT ![c].attempt = @ + 1] /\ UNCHANGED step
        BY <4>1, <4>3 DEF ResponseTypeOK
      <4> QED BY <3>3, <4>2, <4>3 DEF SshAttempt, Retry
    <3> QED BY <1>2, <3>1, <3>2, <3>3
  <2>2. Pending' \subseteq Pending
    BY <2>1 DEF Pending
  <2>3. entries' = entries /\ issues' = issues
    BY <1>2 DEF NotSent, Put, SshAttempt, Die
  <2> QED BY <2>2, <2>3, FewerPending DEF Tickets
<1>3. ASSUME NEW c \in Callers, PostIssue(c) PROVE LoggedOK'
  <2>1. PICK o \in Outcomes :
          /\ issues' = IF o.taken THEN issues + 1 ELSE issues
          /\ Conclude(c, o.success)
    BY <1>3 DEF PostIssue
  <2>2. /\ \A d \in Callers \ {c} : step'[d] = step[d] /\ call'[d] = call[d]
        /\ call'[c].success = o.success
    BY <2>1 DEF Conclude, ResponseTypeOK
  <2>3. Tickets' = Tickets
    BY <1>3 DEF PostIssue, Tickets
  <2>4. CASE o.taken
    BY <2>1, <2>2, <2>3, <2>4, OneMorePending DEF Pending
  <2>5. CASE ~o.taken
    <3>1. Pending' \subseteq Pending
      BY <2>2, <2>5, OutcomeFacts DEF Pending
    <3> QED BY <2>1, <2>3, <2>5, <3>1, FewerPending
  <2> QED BY <2>4, <2>5
<1>4. ASSUME NEW c \in Callers, Log(c) PROVE LoggedOK'
  <2>1. /\ \A d \in Callers \ {c} : step'[d] = step[d] /\ call'[d] = call[d]
        /\ step'[c] = "idle" /\ step[c] = "log" /\ issues' = issues
    BY <1>4 DEF Log, ResponseTypeOK
  <2>2. Pending' \subseteq Pending \ {c}
    BY <2>1 DEF Pending
  <2>3. CASE c \in Pending
    <3>1. Tickets' <= Tickets + 1
      <4>1. <<"ticket", TRUE>> \in Results
        BY DEF Results, Ops
      <4> DEFINE k == ResultOf(c)
      <4>2. entries' = [entries EXCEPT ![k] = @ + 1] \/ entries' = entries
        BY <1>4 DEF Log
      <4> HIDE DEF k
      <4>3. entries \in [Results -> Nat]
        BY DEF ResponseTypeOK
      <4> QED BY <4>1, <4>2, <4>3 DEF Tickets
    <3> QED BY <2>1, <2>2, <2>3, <3>1, PendingLogged
  <2>4. CASE c \notin Pending
    <3>1. ResultOf(c) # <<"ticket", TRUE>>
      BY <2>1, <2>4 DEF ResultOf, Pending
    <3> DEFINE k == ResultOf(c)
    <3>a. entries' = [entries EXCEPT ![k] = @ + 1] \/ entries' = entries
      BY <1>4 DEF Log
    <3>b. k # <<"ticket", TRUE>>
      BY <3>1
    <3>c. entries \in [Results -> Nat] /\ <<"ticket", TRUE>> \in Results
      BY DEF ResponseTypeOK, Results, Ops
    <3> HIDE DEF k
    <3>2. Tickets' = Tickets
      BY <3>a, <3>b, <3>c DEF Tickets
    <3> QED BY <2>1, <2>2, <3>2, FewerPending
  <2> QED BY <2>3, <2>4
<1>5. CASE UNCHANGED <<step, call, entries, issues>>
  BY <1>5, FewerPending DEF Pending, Tickets
<1> QED BY <1>1, <1>2, <1>3, <1>4, <1>5 DEF ResponseNext, Proceed, RunAdd, tools

(* A ticket the audit log calls successful exists: an entry is written only *)
(* after GitHub confirmed the issue, whatever replies and entries get lost. *)
THEOREM LoggedTicketsAreReal == ResponseSpec => []LoggedTicketsExist
<1> DEFINE Inv == ResponseTypeOK /\ UnderSsh /\ LoggedOK
<1>1. ResponseInit => Inv
  BY TypesInitially, SshInitially, LoggedInitially
<1>2. Inv /\ [ResponseNext]_tools => Inv'
  BY TypesStep, SshStep, LoggedStep
<1>3. Inv => LoggedTicketsExist
  <2> SUFFICES ASSUME Inv PROVE Tickets <= issues
    BY DEF LoggedTicketsExist, Tickets
  <2>1. Tickets \in Nat /\ issues \in Nat
    BY DEF Tickets, ResponseTypeOK, Results, Ops
  <2>2. Cardinality(Pending) \in Nat /\ Tickets + Cardinality(Pending) <= issues
    BY FS_CardinalityType DEF LoggedOK
  <2> QED BY <2>1, <2>2
<1> HIDE DEF Inv
<1> QED BY <1>1, <1>2, <1>3, PTL DEF ResponseSpec
==============================================================================
