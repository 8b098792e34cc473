------------------------ MODULE AttackChainProofs ------------------------
(***************************************************************************)
(* Safety of the attack-chain simulator for every set of hosts, reviewed   *)
(* tests, chains and topologies.  The inductive invariant adds to the      *)
(* types what a simulation under way knows (it is live, its cursors are    *)
(* within the tests and hosts, its findings justify its judgement) and how *)
(* it fits the chain that started it (it is the next step's, and a chain   *)
(* that halts has none).  Last, why a run ends.                            *)
(***************************************************************************)
EXTENDS AttackChain, WellFoundedInduction, TLAPS

Active == {"plan", "run", "cleanup", "log", "check", "recheck"}

SimType ==
    [phase : {"idle", "plan", "run", "cleanup", "log", "check", "recheck", "reported"},
     technique : TECHNIQUE_HANDLERS, target : Host, adjacent : Seq(Host),
     h : Nat \ {0}, g : Nat \ {0}, rc : BOOLEAN, verified : BOOLEAN,
     findings : SUBSET Findings, gap : BOOLEAN, exploitable : BOOLEAN]

(* A test of lateral movement that ran next door unseen.                   *)
Grounds(f, s) ==
    /\ f.success /\ f.detected = "no" /\ f.run \in executed /\ f.run[1] = "T1021"
    /\ \E i \in DOMAIN s.adjacent : s.adjacent[i] = f.run[3]
Undetected(s) == \E f \in s.findings : Grounds(f, s)

(* What holds of a simulation at every step.                               *)
SimOK(s) ==
    /\ s \in SimType
    /\ s.phase \in Active =>
          mode = "live" /\ s.g \in 1..Len(Guids(s)) /\ s.h \in 1..Len(Targets(s))
    /\ s.phase = "recheck" => s.technique \in {"T1110", "T1059"}
    /\ s.phase = "check" => s.rc
    /\ s.phase \in {"plan", "run", "cleanup"} => ~s.verified
    /\ s.gap => s.technique = "T1021" /\ Undetected(s)
    /\ s.exploitable =>
          /\ s.phase = "reported" /\ mode = "live"
          /\ s.technique # "T1082" /\ Guids(s) # <<>>
          /\ s.technique = "T1021" => Undetected(s)

LEMMA GuidsType == ASSUME NEW s \in SimType
                   PROVE  Guids(s) \in Seq(Test) /\ Targets(s) \in Seq(Host)
  BY RedTeamAssumption DEF SimType, Guids, Targets, TECHNIQUE_HANDLERS

LEMMA SameTests ==
    ASSUME NEW s, NEW r, r.technique = s.technique, r.target = s.target, r.adjacent = s.adjacent
    PROVE  Guids(r) = Guids(s) /\ Targets(r) = Targets(s)
  BY DEF Guids, Targets

LEMMA Moved ==
    ASSUME NEW s \in SimType, NEW g \in Nat \ {0}, NEW h \in Nat \ {0}
    PROVE  [s EXCEPT !.phase = "plan", !.rc = FALSE, !.verified = FALSE, !.g = g, !.h = h] \in SimType
  BY DEF SimType

LEMMA MovedInPlace ==
    ASSUME NEW s \in SimType, NEW g \in Nat \ {0},
           NEW p \in {"idle", "plan", "run", "cleanup", "log", "check", "recheck", "reported"}
    PROVE  [s EXCEPT !.phase = p, !.rc = FALSE, !.verified = FALSE, !.g = g] \in SimType
  BY DEF SimType

LEMMA NoSimOK == SimOK(NoSim) /\ SimOK(Report(NoSim, FALSE)) /\ Guids(NoSim) \in Seq(Test)
  <1> DEFINE any == CHOOSE h \in Host : TRUE
  <1>1. any \in Host
    BY RedTeamAssumption
  <1> HIDE DEF any
  <1>2. NoSim = [NewSim("T1082", any, <<>>) EXCEPT !.phase = "idle"]
    BY DEF NoSim, any
  <1>5. NewSim("T1082", any, <<>>) = [phase |-> "plan", technique |-> "T1082", target |-> any,
            adjacent |-> <<>>, h |-> 1, g |-> 1, rc |-> FALSE, verified |-> FALSE, findings |-> {},
            gap |-> FALSE, exploitable |-> FALSE]
    BY DEF NewSim
  <1>6. NewSim("T1082", any, <<>>) \in SimType
    <2>1. "T1082" \in TECHNIQUE_HANDLERS
      BY DEF TECHNIQUE_HANDLERS
    <2>2. QED
      BY <1>1, <2>1 DEF NewSim, SimType
  <1>3. NoSim \in SimType
    BY <1>2, <1>6 DEF SimType
  <1>4. QED
    BY <1>2, <1>3, <1>5, GuidsType DEF SimOK, Report, NewSim, SimType, Active

(* A handler that has something to run starts at its first test.           *)
LEMMA NewSimOK ==
    ASSUME NEW t, NEW target \in Host, NEW adjacent \in Seq(Host), ~NothingToRun(t, adjacent)
    PROVE  SimOK(NewSim(t, target, adjacent))
  <1> DEFINE s == NewSim(t, target, adjacent)
  <1>1. s \in SimType
    BY DEF NothingToRun, NewSim, SimType, Findings
  <1>2. Guids(s) # <<>> /\ Targets(s) # <<>>
    BY DEF NothingToRun, NewSim, Guids, Targets
  <1>3. 1 \in 1..Len(Guids(s)) /\ 1 \in 1..Len(Targets(s))
    BY <1>1, <1>2, GuidsType
  <1>4. mode = "live"
    BY DEF NothingToRun
  <1>5. s.g = 1 /\ s.h = 1 /\ s.phase = "plan" /\ ~s.verified /\ ~s.gap /\ ~s.exploitable
    BY DEF NewSim
  <1>6. QED
    BY <1>1, <1>3, <1>4, <1>5 DEF SimOK, Active

(* Recording a finding and moving to the next test keeps a simulation in   *)
(* order, whether another test follows, a second pass or the report.       *)
LEMMA FoundOK ==
    ASSUME NEW s \in SimType, SimOK(s), s.phase \in {"log", "check"},
           NEW success \in BOOLEAN, NEW d \in Detected, success => RunOf(s) \in executed
    PROVE  SimOK(Found(s, success, d)) /\ Found(s, success, d).technique = s.technique
  <1> DEFINE f == [run |-> RunOf(s), success |-> success, detected |-> d]
             r == [s EXCEPT !.findings = s.findings \union {f},
                            !.gap = s.gap \/ CountsAsGap(s.technique, success, d)]
  <1>6. mode = "live" /\ s.g \in 1..Len(Guids(s)) /\ s.h \in 1..Len(Targets(s)) /\ ~s.exploitable
    BY DEF SimOK, Active
  <1>0. RunOf(s) \in Execution /\ RunOf(s)[1] = s.technique /\ RunOf(s)[3] = Targets(s)[s.h]
    <2>1. Guids(s)[s.g] \in Test /\ Targets(s)[s.h] \in Host
      BY <1>6, GuidsType
    <2>2. QED
      BY <2>1 DEF RunOf, Execution, SimType
  <1>1. f \in Findings /\ (s.gap \/ CountsAsGap(s.technique, success, d)) \in BOOLEAN
    BY <1>0 DEF Findings, SimType, CountsAsGap
  <1>2. r \in SimType /\ r.technique = s.technique /\ r.g = s.g /\ r.h = s.h /\ r.phase = s.phase
    BY <1>1 DEF SimType
  <1>3. f \in r.findings /\ s.findings \subseteq r.findings
    BY DEF SimType
  <1>4. r.gap => r.technique = "T1021" /\ Undetected(r)
    <2>0. r.adjacent = s.adjacent
      BY DEF SimType
    <2>1. CASE s.gap
      BY <2>0, <2>1, <1>2, <1>3 DEF SimOK, Undetected, Grounds
    <2>2. CASE CountsAsGap(s.technique, success, d)
      <3>1. s.technique = "T1021" /\ success /\ d = "no"
        BY <2>2 DEF CountsAsGap
      <3>2. Targets(s) = s.adjacent /\ s.h \in DOMAIN Targets(s)
        BY <3>1, <1>6, GuidsType DEF Targets
      <3>3. Grounds(f, r)
        BY <3>1, <3>2, <2>0, <1>0 DEF Grounds
      <3>4. QED
        BY <3>1, <3>3, <1>2, <1>3 DEF Undetected
    <2>3. QED
      BY <2>1, <2>2, <1>1 DEF SimType
  <1>5. Guids(r) = Guids(s) /\ Targets(r) = Targets(s)
    BY <1>2 DEF Guids, Targets, SimType
  <1>7. ~r.exploitable
    BY <1>6 DEF SimType
  <1> HIDE DEF r
  <1>8. Guids(r) \in Seq(Test) /\ Targets(r) \in Seq(Host)
    BY <1>2, GuidsType
  <1>9. ASSUME r.g < Len(Guids(r))
         PROVE  SimOK(Advance(r))
    <2>1. Advance(r) = [r EXCEPT !.phase = "plan", !.rc = FALSE, !.verified = FALSE, !.g = r.g + 1]
      BY <1>9 DEF Advance
    <2>2a. Advance(r) \in SimType
      <3>1. r.g + 1 \in Nat \ {0}
        BY <1>2 DEF SimType
      <3>2. 1 \in Nat \ {0}
        OBVIOUS
      <3>3. QED
        BY <3>1, <3>2, <2>1, <1>2, MovedInPlace
    <2>2b. /\ Advance(r).technique = r.technique /\ Advance(r).target = r.target
           /\ Advance(r).adjacent = r.adjacent
      BY <2>1, <1>2 DEF SimType
    <2>2. Guids(Advance(r)) = Guids(r) /\ Targets(Advance(r)) = Targets(r)
      BY <2>2b, SameTests
    <2>5. /\ Advance(r).phase = "plan" /\ ~Advance(r).verified /\ Advance(r).g = r.g + 1 /\ Advance(r).h = r.h
          /\ Advance(r).gap = r.gap /\ Advance(r).exploitable = r.exploitable
          /\ Advance(r).technique = r.technique
      BY <2>1, <1>2 DEF SimType
    <2>3. Undetected(r) => Undetected(Advance(r))
      BY <2>1, <1>2 DEF SimType, Undetected, Grounds
    <2>4. QED
      BY <2>2a, <2>5, <2>2, <2>3, <1>2, <1>4, <1>5, <1>6, <1>7, <1>8, <1>9 DEF SimOK, SimType, Active
  <1>10. ASSUME ~(r.g < Len(Guids(r))) /\ r.h < Len(Targets(r))
         PROVE  SimOK(Advance(r))
    <2>1. Advance(r) = [r EXCEPT !.phase = "plan", !.rc = FALSE, !.verified = FALSE, !.g = 1, !.h = r.h + 1]
      BY <1>10 DEF Advance
    <2>2a. Advance(r) \in SimType
      <3>1. r.h + 1 \in Nat \ {0}
        BY <1>2 DEF SimType
      <3>2. 1 \in Nat \ {0}
        OBVIOUS
      <3>3. QED
        BY <3>1, <3>2, <2>1, <1>2 DEF SimType
    <2>2b. /\ Advance(r).technique = r.technique /\ Advance(r).target = r.target
           /\ Advance(r).adjacent = r.adjacent
      BY <2>1, <1>2 DEF SimType
    <2>2. Guids(Advance(r)) = Guids(r) /\ Targets(Advance(r)) = Targets(r)
      BY <2>2b, SameTests
    <2>5. /\ Advance(r).phase = "plan" /\ ~Advance(r).verified /\ Advance(r).g = 1 /\ Advance(r).h = r.h + 1
          /\ Advance(r).gap = r.gap /\ Advance(r).exploitable = r.exploitable
          /\ Advance(r).technique = r.technique
      BY <2>1, <1>2 DEF SimType
    <2>3. Undetected(r) => Undetected(Advance(r))
      BY <2>1, <1>2 DEF SimType, Undetected, Grounds
    <2>4. QED
      BY <2>2a, <2>5, <2>2, <2>3, <1>2, <1>4, <1>5, <1>6, <1>7, <1>8, <1>10 DEF SimOK, SimType, Active
  <1>11. ASSUME ~(r.g < Len(Guids(r))) /\ ~(r.h < Len(Targets(r))) /\ r.technique \in {"T1110", "T1059"}
         PROVE  SimOK(Advance(r))
    <2>1. Advance(r) = [r EXCEPT !.phase = "recheck", !.rc = FALSE, !.verified = FALSE, !.g = 1]
      BY <1>11, <1>2 DEF Advance, Conclude, SimType
    <2>2a. Advance(r) \in SimType
      <3>1. 1 \in Nat \ {0} /\ r.h \in Nat \ {0}
        BY <1>2 DEF SimType
      <3>2. QED
        BY <3>1, <2>1, <1>2, MovedInPlace
    <2>2b. /\ Advance(r).technique = r.technique /\ Advance(r).target = r.target
           /\ Advance(r).adjacent = r.adjacent
      BY <2>1, <1>2 DEF SimType
    <2>2. Guids(Advance(r)) = Guids(r) /\ Targets(Advance(r)) = Targets(r)
      BY <2>2b, SameTests
    <2>5. /\ Advance(r).phase = "recheck" /\ Advance(r).g = 1 /\ Advance(r).h = r.h
          /\ Advance(r).gap = r.gap /\ Advance(r).exploitable = r.exploitable
          /\ Advance(r).technique = r.technique /\ Advance(r).findings = r.findings
      BY <2>1, <1>2 DEF SimType
    <2>3. Undetected(r) => Undetected(Advance(r))
      BY <2>1, <1>2 DEF SimType, Undetected, Grounds
    <2>4. QED
      BY <2>2a, <2>5, <2>2, <2>3, <1>2, <1>3, <1>4, <1>5, <1>6, <1>7, <1>8, <1>11 DEF SimOK, SimType, Active
  <1>12. ASSUME ~(r.g < Len(Guids(r))) /\ ~(r.h < Len(Targets(r))) /\ r.technique \notin {"T1110", "T1059"}
         PROVE  SimOK(Advance(r))
    <2> DEFINE e == r.technique = "T1021" /\ r.gap
    <2>1. Advance(r) = [r EXCEPT !.phase = "reported", !.rc = FALSE, !.verified = FALSE, !.exploitable = e] /\ e \in BOOLEAN
      BY <1>12, <1>2 DEF Advance, Conclude, Report, SimType
    <2>2. Advance(r) \in SimType /\ Guids(Advance(r)) = Guids(r)
      BY <2>1, <1>2 DEF SimType, Guids
    <2>3. Undetected(r) => Undetected(Advance(r))
      BY <2>1, <1>2 DEF SimType, Undetected, Grounds
    <2>4. Guids(r) # <<>>
      BY <1>5, <1>6, <1>8
    <2>5. QED
      BY <2>1, <2>2, <2>3, <2>4, <1>2, <1>3, <1>4, <1>6 DEF SimOK, SimType, Active
  <1>13. Advance(r).technique = s.technique
    BY <1>2 DEF Advance, Conclude, Report, SimType
  <1>14. QED
    BY <1>9, <1>10, <1>11, <1>12, <1>13 DEF Found, r

-----------------------------------------------------------------------------
(* The blast radius.                                                       *)

EdgeMaps == [Peer -> ConnectionTypes \union {"none"}]

(* A map that only adds hosts to another or makes their type more specific. *)
Sharper(before, after) ==
    \A p \in Peer : before[p] # "none" /\ after[p] # before[p] =>
        before[p] \in Unspecific /\ after[p] \notin Unspecific \union {"none"}

BlastOK == BlastTypeOK /\ (blast.phase = "idle" => blast.edges = NoEdges)

LEMMA InferredType ==
    ASSUME NEW groups \in Seq(STRING)
    PROVE  InferConnectionType(groups) \in Protocols \union {"AUTH", "unknown"}
  <1> DEFINE protocol == {i \in DOMAIN groups : groups[i] \in PROTOCOL_GROUPS}
             first == CHOOSE i \in protocol : \A j \in protocol : i <= j
  <1>1. CASE protocol # {}
    <2>1. protocol \subseteq Nat
      OBVIOUS
    <2>2. PICK i \in protocol : \A j \in protocol : <<j, i>> \notin OpToRel(<, Nat)
      BY <1>1, <2>1, NatLessThanWellFounded, WFMin, Zenon
    <2>3. \A j \in protocol : i <= j
      <3>1. \A j \in protocol : ~(j < i)
        BY <2>1, <2>2, Zenon DEF OpToRel
      <3>2. i \in Nat /\ \A j \in protocol : j \in Nat
        BY <2>1, <2>2
      <3> HIDE DEF protocol
      <3>3. QED
        BY <3>1, <3>2
    <2>4. first \in protocol
      BY <2>3
    <2>5. InferConnectionType(groups) = ConnTypeOf(groups[first])
      BY <1>1 DEF InferConnectionType
    <2>6. groups[first] \in PROTOCOL_GROUPS
      BY <2>4
    <2> HIDE DEF first
    <2>7. QED
      BY <2>5, <2>6 DEF ConnTypeOf, PROTOCOL_GROUPS, Protocols
  <1>2. CASE protocol = {}
    BY <1>2 DEF InferConnectionType
  <1>3. QED
    BY <1>1, <1>2

LEMMA AddConnectionsOK ==
    ASSUME NEW edges \in EdgeMaps, NEW host, NEW seen \in Buckets
    PROVE  /\ AddConnections(edges, host, seen) \in EdgeMaps
           /\ Sharper(edges, AddConnections(edges, host, seen))
           /\ \A p \in Peer : AddConnections(edges, host, seen)[p] # edges[p] =>
                 edges[p] \in {"none", "unknown"}
  <1>1. \A p \in DOMAIN seen : InferConnectionType(seen[p]) \in Protocols \union {"AUTH", "unknown"}
    <2>1. \A p \in DOMAIN seen : seen[p] \in Seq(STRING)
      BY BlastRadiusAssumption DEF Buckets
    <2>2. QED
      BY <2>1, InferredType
  <1>2. QED
    BY <1>1 DEF AddConnections, MayTake, EdgeMaps, ConnectionTypes, Protocols, Sharper, Unspecific

LEMMA AddSubnetOK ==
    ASSUME NEW edges \in EdgeMaps, NEW host, NEW seen
    PROVE  AddSubnet(edges, host, seen) \in EdgeMaps /\ Sharper(edges, AddSubnet(edges, host, seen))
  BY DEF AddSubnet, MayTake, EdgeMaps, ConnectionTypes, Sharper

LEMMA AddSharedUserOK ==
    ASSUME NEW edges \in EdgeMaps, NEW host, NEW seen
    PROVE  /\ AddSharedUser(edges, host, seen) \in EdgeMaps
           /\ Sharper(edges, AddSharedUser(edges, host, seen))
  BY DEF AddSharedUser, MayTake, EdgeMaps, ConnectionTypes, Sharper, Unspecific

(* No query of the blast radius loses or blurs what an earlier one found.  *)
LEMMA BlastStepOK ==
    ASSUME BlastOK, BlastStep
    PROVE  BlastOK' /\ Sharper(blast.edges, blast'.edges)
  <1> USE DEF BlastOK, BlastTypeOK
  <1>0. blast.edges \in EdgeMaps
    BY DEF EdgeMaps
  <1>1. CASE QueryRecentConnections
    <2>1. CASE blast' = [blast EXCEPT !.phase = "subnet", !.errors = blast.errors \union {"connections"}]
      BY <2>1, <1>0 DEF Sharper
    <2>2. ASSUME NEW names \in Buckets, NEW addresses \in Buckets,
                 blast' = [blast EXCEPT !.phase = "subnet",
                     !.edges = AddConnections(AddConnections(blast.edges, blast.host, names),
                                              blast.host, addresses)]
          PROVE  BlastOK' /\ Sharper(blast.edges, blast'.edges)
      <3> DEFINE one == AddConnections(blast.edges, blast.host, names)
                 two == AddConnections(one, blast.host, addresses)
      <3>1. /\ one \in EdgeMaps /\ Sharper(blast.edges, one)
            /\ \A p \in Peer : one[p] # blast.edges[p] => blast.edges[p] \in {"none", "unknown"}
        BY <1>0, AddConnectionsOK
      <3>2. /\ two \in EdgeMaps /\ Sharper(one, two)
            /\ \A p \in Peer : two[p] # one[p] => one[p] \in {"none", "unknown"}
        BY <3>1, AddConnectionsOK
      <3>3. blast' = [blast EXCEPT !.phase = "subnet", !.edges = two]
        BY <2>2
      <3> HIDE DEF one, two
      <3>4. Sharper(blast.edges, two)
        BY <3>1, <3>2 DEF Sharper, Unspecific
      <3>5. QED
        BY <3>2, <3>3, <3>4 DEF EdgeMaps
    <2>3. QED
      BY <1>1, <2>1, <2>2 DEF QueryRecentConnections
  <1>2. CASE QuerySameSubnet
    <2>1. CASE blast' = [blast EXCEPT !.phase = "users", !.errors = blast.errors \union {"subnet"}]
      BY <2>1, <1>0 DEF Sharper
    <2>2. ASSUME NEW seen \in SUBSET Peer,
                 blast' = [blast EXCEPT !.phase = "users",
                                        !.edges = AddSubnet(blast.edges, blast.host, seen)]
          PROVE  BlastOK' /\ Sharper(blast.edges, blast'.edges)
      BY <2>2, <1>0, AddSubnetOK DEF EdgeMaps
    <2>3. QED
      BY <1>2, <2>1, <2>2 DEF QuerySameSubnet
  <1>3. CASE QueryUsers
    BY <1>3, <1>0 DEF QueryUsers, Sharper
  <1>4. ASSUME NEW u \in Account, QueryUserHosts(u)
        PROVE  BlastOK' /\ Sharper(blast.edges, blast'.edges)
    <2> DEFINE rest == blast.todo \ {u}
               next == IF rest = {} THEN "mapped" ELSE "hosts"
    <2>1. CASE blast' = [blast EXCEPT !.phase = next, !.todo = rest,
                                      !.errors = blast.errors \union {u}]
      BY <2>1, <1>0 DEF Sharper
    <2>2. ASSUME NEW seen \in SUBSET (Peer \ {blast.host}),
                 blast' = [blast EXCEPT !.phase = next, !.todo = rest,
                               !.edges = AddSharedUser(blast.edges, blast.host, seen)]
          PROVE  BlastOK' /\ Sharper(blast.edges, blast'.edges)
      BY <2>2, <1>0, AddSharedUserOK DEF EdgeMaps
    <2>3. QED
      BY <1>4, <2>1, <2>2 DEF QueryUserHosts
  <1>5. QED
    BY <1>1, <1>2, <1>3, <1>4 DEF BlastStep

-----------------------------------------------------------------------------
(* The simulator, whoever drives it.                                       *)

Told == atomicLog \union refused

(* What a simulation under way knows of the test in hand.                  *)
InHand ==
    /\ sim.phase = "run" => <<Current, "pre_execution">> \in Told
    /\ sim.phase \in {"cleanup", "log", "check"} /\ sim.rc => Current \in executed
    /\ sim.phase = "log" /\ sim.verified => Current \notin residue

SimInv == SimTypeOK /\ SimOK(sim) /\ NothingUnreviewed /\ ResidueIsOnRecord /\ InHand

LEMMA Framed ==
    ASSUME SimInv, UNCHANGED <<mode, sim, executed, residue, atomicLog, refused>>
    PROVE  SimInv'
  <1>1. SimTypeOK' /\ SimOK(sim)'
    BY DEF SimInv, SimTypeOK, SimOK, Undetected, Grounds, Guids, Targets
  <1>2. NothingUnreviewed' /\ ResidueIsOnRecord' /\ InHand'
    BY DEF SimInv, NothingUnreviewed, ResidueIsOnRecord, InFlight, InHand, Told, Current, RunOf, Guids, Targets
  <1> QED BY <1>1, <1>2 DEF SimInv

(* When the next state's simulation is in order and its runs are accounted  *)
(* for, the simulator's invariant holds there.                             *)
LEMMA Assembled ==
    ASSUME SimTypeOK, mode' = mode, SimOK(sim'), executed \subseteq executed',
           NothingUnreviewed', executed' \subseteq Execution, residue' \subseteq Execution,
           atomicLog' \subseteq Entries, refused' \subseteq Entries, ResidueIsOnRecord', InHand'
    PROVE  SimInv'
  <1>1. Undetected(sim') => Undetected(sim)'
    BY DEF Undetected, Grounds
  <1>2. SimOK(sim)'
    BY <1>1 DEF SimOK, SimType, Guids, Targets
  <1>3. SimTypeOK'
    BY DEF SimTypeOK, SimOK, SimType
  <1> QED BY <1>2, <1>3 DEF SimInv

LEMMA CurrentOK ==
    ASSUME SimInv, sim.phase \in Active
    PROVE  /\ Current \in Execution /\ mode = "live"
           /\ \E i \in DOMAIN ALLOWED_TESTS[Current[1]] : ALLOWED_TESTS[Current[1]][i] = Current[2]
  <1>1. sim \in SimType /\ mode = "live" /\ sim.g \in 1..Len(Guids(sim)) /\ sim.h \in 1..Len(Targets(sim))
    BY DEF SimInv, SimOK
  <1>2. Guids(sim) \in Seq(Test) /\ Targets(sim) \in Seq(Host)
    BY <1>1, GuidsType
  <1>3. Guids(sim)[sim.g] \in Test /\ Targets(sim)[sim.h] \in Host
    BY <1>1, <1>2
  <1>4. sim.technique \in TECHNIQUE_HANDLERS
    BY <1>1 DEF SimType
  <1>5. sim.g \in DOMAIN Guids(sim)
    BY <1>1, <1>2
  <1>6. Current[1] = sim.technique /\ Current[2] = Guids(sim)[sim.g]
    BY DEF Current, RunOf
  <1>7. QED
    BY <1>1, <1>3, <1>4, <1>5, <1>6 DEF Current, RunOf, Execution, Guids

LEMMA SimulateOK ==
    ASSUME SimInv, NEW t, NEW target \in Host, NEW adjacent \in Seq(Host),
           Simulate(t, target, adjacent)
    PROVE  /\ SimInv' /\ sim'.phase \in {"plan", "reported"} /\ ~sim'.exploitable
           /\ sim'.phase = "plan" => sim'.technique = t
  <1>1. SimOK(sim')
    BY NoSimOK, NewSimOK DEF Simulate
  <1>2. /\ sim'.phase \in {"plan", "reported"} /\ ~sim'.exploitable
        /\ sim'.phase = "plan" => sim'.technique = t
    BY NoSimOK DEF Simulate, Report, NewSim, NoSim
  <1>3. NothingUnreviewed' /\ ResidueIsOnRecord' /\ InHand'
    BY <1>2 DEF Simulate, SimInv, NothingUnreviewed, ResidueIsOnRecord, InFlight, InHand
  <1>4. QED
    BY <1>1, <1>2, <1>3, Assembled DEF Simulate, SimInv, SimTypeOK

LEMMA ResetOK ==
    ASSUME SimInv, sim.phase = "reported", sim' = NoSim,
           UNCHANGED <<mode, executed, residue, atomicLog, refused>>
    PROVE  SimInv' /\ sim'.phase = "idle" /\ ~sim'.exploitable
  <1>1. SimOK(sim') /\ sim'.phase = "idle" /\ ~sim'.exploitable
    BY NoSimOK DEF NoSim, NewSim, SimOK
  <1>2. NothingUnreviewed' /\ ResidueIsOnRecord' /\ InHand'
    BY <1>1 DEF SimInv, NothingUnreviewed, ResidueIsOnRecord, InFlight, InHand
  <1>3. QED
    BY <1>1, <1>2, Assembled DEF SimInv, SimTypeOK

(* Phases in which a simulation goes on, and the one in which it is over.  *)
Continued == sim'.phase \in Active \union {"reported"}

LEMMA FoundPhase ==
    ASSUME NEW s \in SimType, NEW success \in BOOLEAN, NEW d \in Detected
    PROVE  Found(s, success, d).phase \in {"plan", "recheck", "reported"}
  <1> DEFINE r == [s EXCEPT !.findings = s.findings \union
                               {[run |-> RunOf(s), success |-> success, detected |-> d]},
                            !.gap = s.gap \/ CountsAsGap(s.technique, success, d)]
             q == [r EXCEPT !.phase = "plan", !.rc = FALSE, !.verified = FALSE]
  <1>1. {"phase", "g", "h", "exploitable"} \subseteq DOMAIN q /\ q.phase = "plan"
    BY DEF SimType
  <1>2. Found(s, success, d) = Advance(r)
    BY DEF Found
  <1> HIDE DEF r
  <1>3. Advance(r) \in {[q EXCEPT !.g = r.g + 1], [q EXCEPT !.g = 1, !.h = r.h + 1], Conclude(q)}
    BY DEF Advance
  <1> HIDE DEF q
  <1>4. Conclude(q).phase \in {"recheck", "reported"}
    BY <1>1 DEF Conclude, Report
  <1> QED BY <1>1, <1>2, <1>3, <1>4

(* A step that keeps to the test in hand.                                  *)
LEMMA StaysOK ==
    ASSUME SimInv, sim.phase \in {"plan", "run", "cleanup", "log"},
           NEW p \in {"run", "cleanup", "log", "check"}, NEW rc \in BOOLEAN, NEW v \in BOOLEAN,
           p = "check" => rc, p \in {"run", "cleanup"} => ~v,
           sim' = [sim EXCEPT !.phase = p, !.rc = rc, !.verified = v]
    PROVE  /\ SimOK(sim') /\ Current' = Current /\ sim'.technique = sim.technique
           /\ sim'.phase = p /\ sim'.rc = rc /\ sim'.verified = v
           /\ Guids(sim') = Guids(sim) /\ Targets(sim') = Targets(sim)
           /\ sim'.g = sim.g /\ sim'.h = sim.h
  <1>1. sim \in SimType /\ SimOK(sim)
    BY DEF SimInv, SimOK
  <1>2. /\ sim' \in SimType /\ sim'.phase = p /\ sim'.technique = sim.technique
        /\ sim'.g = sim.g /\ sim'.h = sim.h /\ sim'.gap = sim.gap /\ sim'.findings = sim.findings
        /\ sim'.target = sim.target /\ sim'.adjacent = sim.adjacent
        /\ sim'.exploitable = sim.exploitable /\ sim'.rc = rc /\ sim'.verified = v
    BY <1>1 DEF SimType
  <1>3. Guids(sim') = Guids(sim) /\ Targets(sim') = Targets(sim)
    BY <1>2, SameTests
  <1>4. SimOK(sim')
    BY <1>1, <1>2, <1>3 DEF SimOK, Active, Undetected, Grounds
  <1>5. Current' = Current
    BY <1>2, <1>3 DEF Current, RunOf, Guids, Targets
  <1> QED BY <1>2, <1>3, <1>4, <1>5

LEMMA LogOK ==
    ASSUME SimInv, Current \in Execution,
           NEW stage \in {"pre_execution", "verified", "unverified"}, LogExecution(stage)
    PROVE  /\ atomicLog' \subseteq Entries /\ refused' \subseteq Entries
           /\ Told' = Told \union {<<Current, stage>>}
  BY DEF SimInv, SimTypeOK, LogExecution, Entries, Told

(* Every step of the simulator, whatever the hosts and the SIEM answer.    *)
LEMMA SimStepOK ==
    ASSUME SimInv, SimStep
    PROVE  SimInv' /\ sim.phase \in Active /\ Continued /\ sim'.technique = sim.technique
  <1>0. /\ sim \in SimType /\ SimOK(sim) /\ SimTypeOK /\ NothingUnreviewed /\ InHand
        /\ sim.rc \in BOOLEAN /\ sim.verified \in BOOLEAN
    BY DEF SimInv, SimOK, SimType
  <1>a. FALSE \in BOOLEAN /\ TRUE \in BOOLEAN /\ "none" \in Detected
    BY DEF Detected
  <1>b. /\ executed \subseteq Execution /\ residue \subseteq Execution
        /\ atomicLog \subseteq Entries /\ refused \subseteq Entries
    BY <1>0 DEF SimTypeOK
  <1>c. /\ \A x \in executed : <<x, "pre_execution">> \in Told
        /\ \A x \in residue \ InFlight : <<x, "unverified">> \in Told
    BY DEF SimInv, ResidueIsOnRecord, Told
  <1>d. (/\ \A x \in executed' : <<x, "pre_execution">> \in Told'
         /\ \A x \in residue' \ InFlight' : <<x, "unverified">> \in Told') => ResidueIsOnRecord'
    BY DEF ResidueIsOnRecord, Told
  <1>1. CASE PlanTest
    <2>1. /\ sim.phase = "plan" /\ LogExecution("pre_execution")
          /\ sim' = [sim EXCEPT !.phase = "run"] /\ UNCHANGED <<mode, executed, residue>>
      BY <1>1 DEF PlanTest
    <2>2. Current \in Execution
      BY <2>1, CurrentOK DEF Active
    <2>3. /\ atomicLog' \subseteq Entries /\ refused' \subseteq Entries
          /\ Told' = Told \union {<<Current, "pre_execution">>}
      BY <2>1, <2>2, LogOK
    <2>4. sim' = [sim EXCEPT !.phase = "run", !.rc = sim.rc, !.verified = sim.verified] /\ ~sim.verified
      BY <1>0, <2>1 DEF SimType, SimOK
    <2>5. SimOK(sim') /\ Current' = Current /\ sim'.technique = sim.technique /\ sim'.phase = "run"
      BY <1>0, <2>1, <2>4, StaysOK
    <2>6. ResidueIsOnRecord'
      BY <1>c, <1>d, <2>1, <2>3, <2>5 DEF InFlight
    <2>7. NothingUnreviewed' /\ InHand'
      BY <1>0, <2>1, <2>3, <2>5 DEF NothingUnreviewed, InHand
    <2> QED BY <1>0, <1>b, <2>1, <2>3, <2>5, <2>6, <2>7, Assembled DEF Active, Continued
  <1>2. CASE RunTest
    <2>1. sim.phase = "run" /\ UNCHANGED <<mode, atomicLog, refused>>
      BY <1>2 DEF RunTest
    <2>2. PICK answer \in SshAnswers, ran \in BOOLEAN :
            /\ Current[3] \notin REDTEAM_SSH_HOSTS => ~ran
            /\ answer = "ok" => ran
            /\ executed' = IF ran THEN executed \union {Current} ELSE executed
            /\ residue' = IF ran THEN residue \union {Current} ELSE residue
            /\ sim' = [sim EXCEPT !.phase = IF Answered(answer) THEN "cleanup" ELSE "log",
                                  !.rc = answer = "ok"]
      BY <1>2 DEF RunTest
    <2>3. /\ Current \in Execution /\ mode = "live"
          /\ \E i \in DOMAIN ALLOWED_TESTS[Current[1]] : ALLOWED_TESTS[Current[1]][i] = Current[2]
      BY <2>1, CurrentOK DEF Active
    <2> DEFINE p == IF Answered(answer) THEN "cleanup" ELSE "log"
               rc == answer = "ok"
    <2>4. p \in {"cleanup", "log"} /\ rc \in BOOLEAN /\ ~sim.verified
          /\ sim' = [sim EXCEPT !.phase = p, !.rc = rc, !.verified = sim.verified]
      BY <1>0, <2>1, <2>2 DEF SimType, SimOK
    <2> HIDE DEF p, rc
    <2>5. /\ SimOK(sim') /\ Current' = Current /\ sim'.technique = sim.technique
          /\ sim'.phase = p /\ sim'.rc = rc /\ ~sim'.verified
      BY <1>0, <2>1, <2>4, StaysOK
    <2>6. Told' = Told /\ <<Current, "pre_execution">> \in Told
      BY <1>0, <2>1 DEF Told, InHand
    <2>7. InFlight = {} /\ InFlight' = {Current}
      BY <2>1, <2>4, <2>5 DEF InFlight
    <2>8. ResidueIsOnRecord'
      BY <1>c, <1>d, <2>2, <2>6, <2>7
    <2>9. InHand'
      BY <2>2, <2>4, <2>5 DEF InHand, rc
    <2>10. NothingUnreviewed'
      BY <1>0, <2>1, <2>2, <2>3 DEF NothingUnreviewed
    <2> QED BY <1>0, <1>b, <2>1, <2>2, <2>3, <2>4, <2>5, <2>8, <2>9, <2>10, Assembled DEF Active, Continued
  <1>3. CASE Cleanup
    <2>1. sim.phase = "cleanup" /\ UNCHANGED <<mode, executed, atomicLog, refused>>
      BY <1>3 DEF Cleanup
    <2>2. PICK answer \in SshAnswers, undone \in BOOLEAN :
            /\ answer = "ok" => undone
            /\ residue' = IF undone THEN residue \ {Current} ELSE residue
            /\ sim' = [sim EXCEPT !.phase = "log", !.verified = answer = "ok",
                                  !.rc = sim.rc /\ Answered(answer)]
      BY <1>3 DEF Cleanup
    <2> DEFINE rc == sim.rc /\ Answered(answer)
               v == answer = "ok"
    <2>3. /\ rc \in BOOLEAN /\ v \in BOOLEAN /\ (rc => sim.rc) /\ (v => Current \notin residue')
          /\ residue' \subseteq residue /\ sim' = [sim EXCEPT !.phase = "log", !.rc = rc, !.verified = v]
      BY <1>0, <2>2 DEF SimType, Answered
    <2> HIDE DEF rc, v
    <2>4. /\ SimOK(sim') /\ Current' = Current /\ sim'.technique = sim.technique
          /\ sim'.phase = "log" /\ sim'.rc = rc /\ sim'.verified = v
      BY <1>0, <2>1, <2>3, StaysOK
    <2>5. InFlight' = InFlight /\ Told' = Told
      BY <2>1, <2>4 DEF InFlight, Told
    <2>6. ResidueIsOnRecord'
      BY <1>c, <1>d, <2>1, <2>3, <2>5
    <2>7. InHand' /\ NothingUnreviewed'
      BY <1>0, <2>1, <2>3, <2>4 DEF InHand, NothingUnreviewed
    <2> QED BY <1>0, <1>b, <2>1, <2>3, <2>4, <2>6, <2>7, Assembled DEF Active, Continued
  <1>4. CASE LogOutcome
    <2> DEFINE stage == IF sim.verified THEN "verified" ELSE "unverified"
    <2>1. /\ sim.phase = "log" /\ LogExecution(stage) /\ UNCHANGED <<mode, executed, residue>>
          /\ sim' = IF sim.rc THEN [sim EXCEPT !.phase = "check"] ELSE Found(sim, FALSE, "none")
      BY <1>4 DEF LogOutcome
    <2>2. Current \in Execution
      BY <2>1, CurrentOK DEF Active
    <2>3. /\ atomicLog' \subseteq Entries /\ refused' \subseteq Entries
          /\ Told' = Told \union {<<Current, stage>>}
      BY <2>1, <2>2, LogOK
    <2>4. InFlight = {Current} /\ (Current \in residue => stage = "unverified")
      BY <1>0, <2>1 DEF InFlight, InHand
    <2> HIDE DEF stage
    <2>5. /\ \A x \in executed' : <<x, "pre_execution">> \in Told'
          /\ \A x \in residue' : <<x, "unverified">> \in Told'
      BY <1>c, <2>1, <2>3, <2>4
    <2>6. ResidueIsOnRecord' /\ NothingUnreviewed'
      BY <1>0, <1>d, <2>1, <2>5 DEF NothingUnreviewed
    <2>7. CASE sim.rc
      <3>1. sim' = [sim EXCEPT !.phase = "check", !.rc = sim.rc, !.verified = sim.verified]
        BY <1>0, <2>1, <2>7 DEF SimType
      <3>2. /\ SimOK(sim') /\ Current' = Current /\ sim'.technique = sim.technique
            /\ sim'.phase = "check"
        BY <1>0, <2>1, <2>7, <3>1, StaysOK
      <3>3. InHand'
        BY <1>0, <2>1, <2>7, <3>2 DEF InHand
      <3> QED BY <1>0, <1>b, <2>1, <2>3, <2>6, <3>2, <3>3, Assembled DEF Active, Continued
    <2>8. CASE ~sim.rc
      <3>1. SimOK(sim') /\ sim'.technique = sim.technique
        BY <1>0, <1>a, <2>1, <2>8, FoundOK
      <3>2. sim'.phase \in {"plan", "recheck", "reported"}
        BY <1>0, <1>a, <2>1, <2>8, FoundPhase
      <3>3. InHand'
        BY <3>2 DEF InHand
      <3> QED BY <1>0, <1>b, <2>1, <2>3, <2>6, <3>1, <3>2, <3>3, Assembled DEF Active, Continued
    <2> QED BY <2>7, <2>8
  <1>5. CASE CheckDetection
    <2>1. PICK d \in Detected : sim' = Found(sim, TRUE, d)
      BY <1>5 DEF CheckDetection
    <2>2. sim.phase = "check" /\ UNCHANGED <<mode, executed, residue, atomicLog, refused>>
      BY <1>5 DEF CheckDetection
    <2>3. RunOf(sim) \in executed
      BY <1>0, <2>2 DEF InHand, SimOK, Current
    <2>4. SimOK(sim') /\ sim'.technique = sim.technique
      BY <1>0, <1>a, <2>1, <2>2, <2>3, FoundOK
    <2>5. sim'.phase \in {"plan", "recheck", "reported"}
      BY <1>0, <1>a, <2>1, FoundPhase
    <2>6. Told' = Told /\ InFlight = {}
      BY <2>2 DEF Told, InFlight
    <2>7. ResidueIsOnRecord' /\ NothingUnreviewed' /\ InHand'
      BY <1>0, <1>c, <1>d, <2>2, <2>5, <2>6 DEF NothingUnreviewed, InHand
    <2> QED BY <1>0, <1>b, <2>2, <2>4, <2>5, <2>7, Assembled DEF Active, Continued
  <1>6. CASE Recheck
    <2>1. sim.phase = "recheck" /\ UNCHANGED <<mode, executed, residue, atomicLog, refused>>
      BY <1>6 DEF Recheck
    <2>2. \/ sim' = Report(sim, TRUE)
          \/ sim.g < Len(Guids(sim)) /\ sim' = [sim EXCEPT !.g = sim.g + 1]
          \/ sim' = Report(sim, FALSE)
      BY <1>6 DEF Recheck
    <2>3. Guids(sim) \in Seq(Test)
      BY <1>0, GuidsType
    <2>4. ASSUME NEW e \in BOOLEAN, sim' = Report(sim, e)
          PROVE  SimOK(sim') /\ sim'.technique = sim.technique /\ sim'.phase = "reported"
      <3>1. /\ sim' \in SimType /\ sim'.phase = "reported" /\ sim'.technique = sim.technique
            /\ sim'.gap = sim.gap /\ sim'.findings = sim.findings /\ sim'.exploitable = e
            /\ sim'.adjacent = sim.adjacent
        BY <2>4, <1>0 DEF SimType, Report
      <3>2. Guids(sim') = Guids(sim) /\ Guids(sim) # <<>>
        BY <3>1, <1>0, <2>1, <2>3 DEF Guids, SimOK, Active
      <3>3. QED
        BY <1>0, <2>1, <3>1, <3>2 DEF SimOK, Active, Undetected, Grounds
    <2>5. ASSUME sim.g < Len(Guids(sim)), sim' = [sim EXCEPT !.g = sim.g + 1]
          PROVE  SimOK(sim') /\ sim'.technique = sim.technique /\ sim'.phase = "recheck"
      <3>1. sim.g + 1 \in Nat \ {0}
        BY <1>0 DEF SimType
      <3>2. /\ sim' \in SimType /\ sim'.phase = "recheck" /\ sim'.technique = sim.technique
            /\ sim'.gap = sim.gap /\ sim'.findings = sim.findings /\ sim'.exploitable = sim.exploitable
            /\ sim'.g = sim.g + 1 /\ sim'.h = sim.h
            /\ sim'.target = sim.target /\ sim'.adjacent = sim.adjacent
        BY <2>1, <2>5, <3>1, <1>0 DEF SimType
      <3>3. Guids(sim') = Guids(sim) /\ Targets(sim') = Targets(sim)
        BY <3>2, SameTests
      <3>4. sim'.g \in 1..Len(Guids(sim'))
        BY <2>5, <2>3, <3>2, <3>3, <1>0 DEF SimType
      <3>5. QED
        BY <1>0, <2>1, <3>2, <3>3, <3>4 DEF SimOK, Active, Undetected, Grounds
    <2>6. SimOK(sim') /\ sim'.technique = sim.technique /\ sim'.phase \in {"recheck", "reported"}
      BY <1>a, <2>2, <2>4, <2>5
    <2>7. Told' = Told /\ InFlight = {}
      BY <2>1 DEF Told, InFlight
    <2>8. ResidueIsOnRecord' /\ NothingUnreviewed' /\ InHand'
      BY <1>0, <1>c, <1>d, <2>1, <2>6, <2>7 DEF NothingUnreviewed, InHand
    <2> QED BY <1>0, <1>b, <2>1, <2>6, <2>8, Assembled DEF Active, Continued
  <1> QED BY <1>1, <1>2, <1>3, <1>4, <1>5, <1>6 DEF SimStep

-----------------------------------------------------------------------------
(* The chain, and the simulation it has in progress.                       *)

ChainType ==
    chain \in [phase : {"idle", "step", "single", "blast", "complete"},
               steps : Seq(Technique), stop : BOOLEAN, target : Host,
               topology : Seq(Host), entries : Seq({"exploitable", "blocked", "halted"}),
               blocked : BOOLEAN, verdict : {"none", "full", "partial"}]

CanBeExploitable(t) == t \in TECHNIQUE_HANDLERS \ {"T1082"} /\ ALLOWED_TESTS[t] # <<>>

(* How far the chain is, by its phase.                                     *)
ProgressOK ==
    /\ chain.phase = "idle" => chain = NoChain /\ sim.phase = "idle"
    /\ chain.phase = "single" => ~chain.blocked
    /\ chain.phase = "step" => chain.steps # <<>>
    /\ chain.phase \in {"idle", "step", "single"} => chain.verdict = "none"

(* What its entries rest on.                                               *)
EntriesOK ==
    /\ Len(chain.entries) <= Len(chain.steps)
    /\ chain.blocked <=> \E i \in DOMAIN chain.entries : chain.entries[i] # "exploitable"
    /\ \A i \in DOMAIN chain.entries :
          chain.entries[i] = "exploitable" => mode = "live" /\ CanBeExploitable(chain.steps[i])
    /\ chain.verdict = "full" =>
          /\ chain.steps # <<>> /\ Len(chain.entries) = Len(chain.steps)
          /\ \A i \in DOMAIN chain.entries : chain.entries[i] = "exploitable"

(* A simulation belongs to the next step, and a halted chain has none.     *)
Matched ==
    chain.phase = "step" =>
        /\ sim.phase # "idle" => MoreSteps /\ ~HaltsHere
        /\ sim.phase \in Active \/ sim.exploitable => sim.technique = NextStep

IInv == SimInv /\ BlastOK /\ alive \in BOOLEAN /\ ChainType /\ ProgressOK /\ EntriesOK /\ Matched

LEMMA ChainFramed ==
    ASSUME IInv, UNCHANGED <<mode, chain>>
    PROVE  ChainType' /\ EntriesOK'
  BY DEF IInv, ChainType, EntriesOK, CanBeExploitable

LEMMA NoChainOK ==
    ASSUME chain = NoChain, mode \in {"dry_run", "live"}
    PROVE  ChainType /\ EntriesOK
  <1> DEFINE any == CHOOSE h \in Host : TRUE
  <1>1. any \in Host
    BY RedTeamAssumption
  <1> HIDE DEF any
  <1>2. chain = [phase |-> "idle", steps |-> <<>>, stop |-> FALSE, target |-> any,
                 topology |-> <<>>, entries |-> <<>>, blocked |-> FALSE, verdict |-> "none"]
    BY DEF NoChain, any
  <1>3. QED
    BY <1>1, <1>2 DEF ChainType, EntriesOK

LEMMA StartOK ==
    ASSUME IInv, NEW c \in DOMAIN Chains, NEW target \in Host, NEW topology \in Seq(Host),
           NEW stop \in BOOLEAN, chain.phase = "idle", Start(Chains[c], target, topology, stop),
           UNCHANGED <<mode, sim, executed, residue, atomicLog, refused, blast, alive>>
    PROVE  IInv'
  <1>1. chain = NoChain /\ sim.phase = "idle"
    BY DEF IInv, ProgressOK
  <1>2. Chains[c] \in Seq(Technique) /\ Chains[c] # <<>>
    BY AttackChainAssumption
  <1>3. chain' = [chain EXCEPT !.phase = "step", !.steps = Chains[c], !.target = target,
                               !.topology = topology, !.stop = stop]
    BY <1>1 DEF Start
  <1>4. chain.entries = <<>> /\ chain.blocked = FALSE /\ chain.verdict = "none"
    BY <1>1 DEF NoChain
  <1>5. ChainType'
    BY <1>2, <1>3 DEF IInv, ChainType
  <1>6. /\ chain'.entries = <<>> /\ chain'.blocked = FALSE /\ chain'.verdict = "none"
        /\ chain'.phase = "step" /\ chain'.steps = Chains[c]
    BY <1>3, <1>4 DEF IInv, ChainType
  <1>7. EntriesOK'
    BY <1>2, <1>6 DEF EntriesOK
  <1>8. SimInv' /\ BlastOK'
    BY Framed DEF IInv, BlastOK, BlastTypeOK
  <1>9. ~sim.exploitable
    BY <1>1 DEF IInv, SimInv, SimOK
  <1>10. ProgressOK' /\ Matched'
    BY <1>1, <1>2, <1>6, <1>9 DEF ProgressOK, Matched, Active
  <1>11. QED
    BY <1>5, <1>7, <1>8, <1>10 DEF IInv

LEMMA AddEntryOK ==
    ASSUME ChainType, EntriesOK, ProgressOK, chain.phase = "step", MoreSteps, mode' = mode,
           NEW e \in {"exploitable", "blocked", "halted"}, chain' = AddEntry(e),
           e = "exploitable" => mode = "live" /\ CanBeExploitable(NextStep),
           e = "halted" => chain.blocked
    PROVE  /\ ChainType' /\ EntriesOK'
           /\ chain'.phase = "step" /\ chain'.steps = chain.steps /\ chain'.stop = chain.stop
           /\ chain'.verdict = chain.verdict /\ chain'.entries = Append(chain.entries, e)
  <1>1. chain' = [chain EXCEPT !.entries = Append(chain.entries, e),
                               !.blocked = chain.blocked \/ e = "blocked"]
    BY DEF AddEntry
  <1>2. chain.verdict = "none" /\ Len(chain.entries) < Len(chain.steps)
    BY DEF ProgressOK, MoreSteps
  <1> DEFINE old == chain.entries  new == chain'.entries  n == Len(old)
  <1>3. old \in Seq({"exploitable", "blocked", "halted"}) /\ n \in Nat
    BY DEF ChainType
  <1>4. new = Append(old, e)
    BY <1>1 DEF ChainType
  <1>5. /\ Len(new) = n + 1 /\ DOMAIN new = 1..(n + 1) /\ DOMAIN old = 1..n
        /\ \A i \in 1..n : new[i] = old[i]
        /\ new[n + 1] = e
        /\ new \in Seq({"exploitable", "blocked", "halted"})
    BY <1>3, <1>4
  <1>6. /\ chain'.blocked = (chain.blocked \/ e = "blocked") /\ chain'.steps = chain.steps
        /\ chain'.verdict = chain.verdict /\ chain'.phase = chain.phase /\ chain'.stop = chain.stop
    BY <1>1 DEF ChainType
  <1>7. ChainType'
    BY <1>1, <1>5, <1>4 DEF ChainType
  <1> HIDE DEF old, new, n
  <1>8. NextStep = chain.steps[n + 1]
    BY DEF NextStep, old, n
  <1>9. chain'.blocked <=> \E i \in DOMAIN new : new[i] # "exploitable"
    <2>1. chain.blocked <=> \E i \in 1..n : old[i] # "exploitable"
      BY <1>5 DEF EntriesOK, old
    <2>2. e # "exploitable" => e = "blocked" \/ chain.blocked
      OBVIOUS
    <2>3. (\E i \in 1..(n + 1) : new[i] # "exploitable")
            <=> (\E i \in 1..n : new[i] # "exploitable") \/ new[n + 1] # "exploitable"
      BY <1>3
    <2>4. QED
      BY <2>1, <2>2, <2>3, <1>5, <1>6
  <1>10. \A i \in DOMAIN new : new[i] = "exploitable" => mode = "live" /\ CanBeExploitable(chain.steps[i])
    <2>1. \A i \in 1..n : old[i] = "exploitable" => mode = "live" /\ CanBeExploitable(chain.steps[i])
      BY <1>5 DEF EntriesOK, old
    <2>2. \A i \in 1..(n + 1) : i \in 1..n \/ i = n + 1
      BY <1>3
    <2>3. QED
      BY <2>1, <2>2, <1>5, <1>8
  <1>11. Len(new) <= Len(chain.steps)
    BY <1>2, <1>3, <1>5 DEF ChainType, old, n
  <1>12. EntriesOK'
    <2>1. Len(chain'.entries) <= Len(chain'.steps)
      BY <1>6, <1>11 DEF new
    <2>2. chain'.blocked <=> \E i \in DOMAIN chain'.entries : chain'.entries[i] # "exploitable"
      BY <1>9 DEF new
    <2>3. \A i \in DOMAIN chain'.entries : chain'.entries[i] = "exploitable"
              => mode' = "live" /\ CanBeExploitable(chain'.steps[i])
      BY <1>6, <1>10 DEF new
    <2>4. chain'.verdict # "full"
      BY <1>2, <1>6
    <2>5. QED
      BY <2>1, <2>2, <2>3, <2>4 DEF EntriesOK, CanBeExploitable
  <1>13. QED
    BY <1>4, <1>6, <1>7, <1>12 DEF old, new

-----------------------------------------------------------------------------
(* The invariant is inductive: one step per action.                        *)

LEMMA InitOK == Init => IInv
  <1> SUFFICES ASSUME Init PROVE IInv
    OBVIOUS
  <1>1. mode \in {"dry_run", "live"} /\ sim = NoSim /\ executed = {} /\ residue = {} /\ atomicLog = {} /\ refused = {}
        /\ chain = NoChain /\ alive = TRUE /\ blast = BlastIdle
    BY DEF Init, SimInit, BlastInit
  <1>2. SimOK(sim) /\ sim.phase = "idle" /\ ~sim.exploitable
    BY <1>1, NoSimOK DEF NoSim, NewSim
  <1>3. SimInv
    BY <1>1, <1>2 DEF SimInv, SimTypeOK, SimOK, SimType, NothingUnreviewed, ResidueIsOnRecord, InHand
  <1>4. BlastOK
    <2> DEFINE any == CHOOSE p \in Peer : TRUE
    <2>1. any \in Peer
      BY BlastRadiusAssumption
    <2> HIDE DEF any
    <2>2. blast = [phase |-> "idle", host |-> any, edges |-> NoEdges, errors |-> {}, todo |-> {}]
      BY <1>1 DEF BlastIdle, any
    <2>3. QED
      BY <2>1, <2>2 DEF BlastOK, BlastTypeOK, NoEdges
  <1>5. ChainType /\ EntriesOK
    BY <1>1, NoChainOK
  <1>6. chain.phase = "idle" /\ chain.verdict = "none"
    BY <1>1 DEF NoChain
  <1>7. QED
    BY <1>1, <1>2, <1>3, <1>4, <1>5, <1>6 DEF IInv, ProgressOK, Matched

(* What a step leaves to show when the chain itself only changes phase.    *)
LEMMA PhaseOK ==
    ASSUME IInv, mode' = mode, NEW p \in {"single", "blast", "complete"}, NEW v \in {"none", "full", "partial"},
           chain' = [chain EXCEPT !.phase = p, !.verdict = v],
           v = "full" => \/ chain.verdict = "full"
                         \/ /\ chain.steps # <<>> /\ Len(chain.entries) = Len(chain.steps)
                            /\ \A i \in DOMAIN chain.entries : chain.entries[i] = "exploitable",
           p = "single" => ~chain.blocked /\ v = "none"
    PROVE  ChainType' /\ EntriesOK' /\ ProgressOK' /\ Matched'
  <1>1. ChainType'
    BY DEF IInv, ChainType
  <1>2. /\ chain'.phase = p /\ chain'.verdict = v /\ chain'.steps = chain.steps
        /\ chain'.entries = chain.entries /\ chain'.blocked = chain.blocked
    BY DEF IInv, ChainType
  <1>3. EntriesOK'
    BY <1>2 DEF IInv, EntriesOK, CanBeExploitable
  <1>4. ProgressOK' /\ Matched'
    BY <1>2 DEF ProgressOK, Matched
  <1>5. QED
    BY <1>1, <1>3, <1>4

LEMMA NextOK == IInv /\ [Next]_chainVars => IInv'
  <1> SUFFICES ASSUME IInv, [Next]_chainVars PROVE IInv'
    OBVIOUS
  <1>0. /\ SimInv /\ BlastOK /\ ChainType /\ EntriesOK /\ ProgressOK /\ Matched
        /\ sim \in SimType /\ SimOK(sim) /\ chain.target \in Host /\ chain.topology \in Seq(Host)
    BY DEF IInv, SimInv, SimOK, ChainType
  <1>1. ASSUME NEW c \in DOMAIN Chains, NEW target \in Host, NEW topology \in Topologies,
               NEW stop \in BOOLEAN, RunAttackChain(c, target, topology, stop)
        PROVE  IInv'
    BY <1>1, StartOK, AttackChainAssumption DEF RunAttackChain
  <1>2. ASSUME NEW verdict, NEW pct, NEW t, NEW target \in Host, ChainNode(verdict, pct, t, target)
        PROVE  IInv'
    <2>1. <<>> \in Seq(Host) /\ FALSE \in BOOLEAN
      OBVIOUS
    <2>2. QED
      BY <1>2, <2>1, StartOK DEF ChainNode
  <1>3. ASSUME NEW verdict, NEW pct, NEW t, NEW target \in Host, NEW topology \in Topologies,
               RedTeamNode(verdict, pct, t, target, topology)
        PROVE  IInv'
    <2>1. /\ chain.phase = "idle" /\ alive /\ UNCHANGED <<blast, alive>>
          /\ chain' = [NoChain EXCEPT !.phase = "single", !.target = target]
          /\ Simulate(t, target, topology)
      BY <1>3 DEF RedTeamNode
    <2>2. chain = NoChain
      BY <1>0, <2>1 DEF ProgressOK
    <2>3. SimInv'
      BY <1>0, <2>1, SimulateOK, AttackChainAssumption
    <2>4. ChainType'
      BY <1>0, <2>1, <2>2 DEF ChainType
    <2>5. /\ chain'.phase = "single" /\ chain'.steps = <<>> /\ chain'.entries = <<>>
          /\ ~chain'.blocked /\ chain'.verdict = "none"
      BY <2>1 DEF NoChain
    <2>6. EntriesOK' /\ ProgressOK' /\ Matched'
      BY <2>5 DEF EntriesOK, ProgressOK, Matched
    <2>7. BlastOK' /\ alive' \in BOOLEAN
      BY <1>0, <2>1 DEF BlastOK, BlastTypeOK, IInv
    <2>8. QED
      BY <2>3, <2>4, <2>6, <2>7 DEF IInv
  <1>4. CASE HaltStep
    <2>1. /\ chain.phase = "step" /\ MoreSteps /\ HaltsHere /\ chain' = AddEntry("halted")
          /\ UNCHANGED <<mode, sim, executed, residue, atomicLog, refused, blast, alive>>
      BY <1>4 DEF HaltStep
    <2>2. sim.phase = "idle" /\ ~sim.exploitable
      BY <1>0, <2>1 DEF Matched, SimOK
    <2>3. ChainType' /\ EntriesOK' /\ chain'.phase = "step" /\ chain'.steps = chain.steps
          /\ chain'.verdict = chain.verdict
      BY <1>0, <2>1, AddEntryOK DEF HaltsHere
    <2>4. ProgressOK' /\ Matched'
      BY <1>0, <2>1, <2>2, <2>3 DEF ProgressOK, Matched, Active
    <2>5. QED
      BY <2>1, <2>3, <2>4, Framed DEF IInv, BlastOK, BlastTypeOK
  <1>5. CASE RunSingleStep
    <2>1. /\ chain.phase = "step" /\ MoreSteps /\ ~HaltsHere
          /\ Simulate(NextStep, chain.target, chain.topology) /\ UNCHANGED <<blast, chain, alive>>
      BY <1>5 DEF RunSingleStep
    <2>2. /\ SimInv' /\ sim'.phase \in {"plan", "reported"} /\ ~sim'.exploitable
          /\ sim'.phase = "plan" => sim'.technique = NextStep
      BY <1>0, <2>1, SimulateOK
    <2>3. mode' = mode
      BY <2>1 DEF Simulate
    <2>4. ProgressOK' /\ Matched'
      BY <1>0, <2>1, <2>2 DEF ProgressOK, Matched, MoreSteps, HaltsHere, NextStep, Active
    <2>5. QED
      BY <2>1, <2>2, <2>3, <2>4, ChainFramed DEF IInv, BlastOK, BlastTypeOK
  <1>6. CASE StepResult
    <2>1. /\ chain.phase = "step" /\ sim.phase = "reported" /\ sim' = NoSim
          /\ chain' = AddEntry(IF sim.exploitable THEN "exploitable" ELSE "blocked")
          /\ UNCHANGED <<mode, executed, residue, atomicLog, refused, blast, alive>>
      BY <1>6 DEF StepResult
    <2>2. MoreSteps /\ (sim.exploitable => mode = "live" /\ CanBeExploitable(NextStep))
      BY <1>0, <2>1 DEF Matched, SimOK, CanBeExploitable, Guids, SimType
    <2>3. PICK e \in {"exploitable", "blocked"} :
              chain' = AddEntry(e) /\ (e = "exploitable" => sim.exploitable)
      BY <2>1
    <2>4. ChainType' /\ EntriesOK' /\ chain'.phase = "step" /\ chain'.steps = chain.steps
          /\ chain'.verdict = chain.verdict
      BY <1>0, <2>1, <2>2, <2>3, AddEntryOK
    <2>5. SimInv' /\ sim'.phase = "idle" /\ ~sim'.exploitable
      BY <1>0, <2>1, ResetOK
    <2>6. ProgressOK' /\ Matched'
      BY <1>0, <2>1, <2>4, <2>5 DEF ProgressOK, Matched, Active
    <2>7. QED
      BY <2>1, <2>4, <2>5, <2>6 DEF IInv, BlastOK, BlastTypeOK
  <1>7. CASE Summarize
    <2>1. /\ chain.phase = "step" /\ ~MoreSteps /\ MapBlastRadius(chain.target)
          /\ UNCHANGED <<mode, sim, executed, residue, atomicLog, refused, alive>>
      BY <1>7 DEF Summarize
    <2>2. PICK v \in {"full", "partial"} :
            /\ chain' = [chain EXCEPT !.phase = "blast", !.verdict = v]
            /\ v = "full" => \A i \in DOMAIN chain.entries : chain.entries[i] = "exploitable"
      BY <1>7 DEF Summarize
    <2>3. Len(chain.entries) = Len(chain.steps) /\ chain.steps # <<>>
      BY <1>0, <2>1 DEF MoreSteps, EntriesOK, ProgressOK, ChainType
    <2>4. ChainType' /\ EntriesOK' /\ ProgressOK' /\ Matched'
      BY <2>1, <2>2, <2>3, PhaseOK
    <2>5. BlastOK'
      <3>1. chain.target \in Peer
        BY <1>0, AttackChainAssumption
      <3>2. blast' = [phase |-> "connections", host |-> chain.target, edges |-> NoEdges,
                      errors |-> {}, todo |-> {}]
        BY <2>1 DEF MapBlastRadius, BlastIdle
      <3>3. QED
        BY <3>1, <3>2 DEF BlastOK, BlastTypeOK, NoEdges
    <2>6. QED
      BY <2>1, <2>4, <2>5, Framed DEF IInv
  <1>8. CASE WriteReports \/ SingleResult
    <2>1. /\ chain' = [chain EXCEPT !.phase = "complete"]
          /\ UNCHANGED <<mode, sim, executed, residue, atomicLog, refused, blast, alive>>
      BY <1>8 DEF WriteReports, SingleResult
    <2>2. chain' = [chain EXCEPT !.phase = "complete", !.verdict = chain.verdict]
      BY <1>0, <2>1 DEF ChainType
    <2>3. chain.verdict \in {"none", "full", "partial"}
      BY <1>0 DEF ChainType
    <2>4. ChainType' /\ EntriesOK' /\ ProgressOK' /\ Matched'
      BY <2>1, <2>2, <2>3, PhaseOK
    <2>5. QED
      BY <2>1, <2>4, Framed DEF IInv, BlastOK, BlastTypeOK
  <1>9. CASE SimulatorStep
    <2>1. SimStep /\ UNCHANGED <<blast, chain, alive>> /\ chain.phase # "idle"
      BY <1>9 DEF SimulatorStep
    <2>2. SimInv' /\ sim.phase \in Active /\ Continued /\ sim'.technique = sim.technique
      BY <1>0, <2>1, SimStepOK
    <2>3. mode' = mode
      BY <2>1 DEF SimStep, PlanTest, RunTest, Cleanup, LogOutcome, CheckDetection, Recheck
    <2>4. ProgressOK' /\ Matched'
      BY <1>0, <2>1, <2>2 DEF ProgressOK, Matched, MoreSteps, HaltsHere, NextStep, Active
    <2>5. QED
      BY <2>1, <2>2, <2>3, <2>4, ChainFramed DEF IInv, BlastOK, BlastTypeOK
  <1>10. CASE BlastRadiusStep
    <2>1. BlastStep /\ UNCHANGED <<mode, sim, executed, residue, atomicLog, refused, chain, alive>>
      BY <1>10 DEF BlastRadiusStep
    <2>2. BlastOK'
      BY <1>0, <2>1, BlastStepOK
    <2>3. ProgressOK' /\ Matched'
      BY <1>0, <2>1 DEF ProgressOK, Matched, MoreSteps, HaltsHere, NextStep
    <2>4. QED
      BY <2>1, <2>2, <2>3, Framed, ChainFramed DEF IInv
  <1>11. CASE Kill \/ UNCHANGED chainVars
    <2>1. UNCHANGED <<mode, sim, executed, residue, atomicLog, refused, blast, chain>> /\ alive' \in BOOLEAN
      BY <1>11 DEF Kill, chainVars, IInv
    <2>2. ProgressOK' /\ Matched'
      BY <1>0, <2>1 DEF ProgressOK, Matched, MoreSteps, HaltsHere, NextStep
    <2>3. QED
      BY <2>1, <2>2, Framed, ChainFramed DEF IInv, BlastOK, BlastTypeOK
  <1>12. QED
    BY <1>1, <1>2, <1>3, <1>4, <1>5, <1>6, <1>7, <1>8, <1>9, <1>10, <1>11 DEF Next, Call, Proceed

LEMMA Invariance == Spec => []IInv
  <1>1. QED
    BY InitOK, NextOK, PTL DEF Spec

-----------------------------------------------------------------------------
(* Theorems.                                                               *)

(* The simulator's, the blast radius' and the chain's state keep their     *)
(* shapes through every failure of a command or a query.                   *)
THEOREM TypeCorrect == Spec => []TypeOK
  <1>1. IInv => TypeOK
    BY DEF IInv, SimInv, BlastOK, ChainType, TypeOK
  <1>2. QED
    BY <1>1, Invariance, PTL

(* Only a live process runs tests, only reviewed ones of the technique it  *)
(* simulates, and only on hosts the runner is configured for.              *)
THEOREM OnlyReviewedTestsRun == Spec => []NothingUnreviewed
  <1>1. IInv => NothingUnreviewed
    BY DEF IInv, SimInv
  <1>2. QED
    BY <1>1, Invariance, PTL

(* Every test that ran was announced to the atomic log, and what it left   *)
(* behind on its host was reported to it as not cleaned up, or that report *)
(* was still to come when the process stopped; the log has what it was     *)
(* told, but for the entries the index refused.                            *)
THEOREM ResidueIsLogged == Spec => []ResidueIsOnRecord
  <1>1. IInv => ResidueIsOnRecord
    BY DEF IInv, SimInv
  <1>2. QED
    BY <1>1, Invariance, PTL

(* Lateral movement is called exploitable only for a test that ran on an   *)
(* adjacent host, succeeded and was not detected; discovery never is.      *)
THEOREM ExploitableIsGrounded == Spec => []ExploitableHasGrounds
  <1>1. IInv => ExploitableHasGrounds
    BY DEF IInv, SimInv, SimOK, ExploitableHasGrounds, Undetected, Grounds
  <1>2. QED
    BY <1>1, Invariance, PTL

(* A chain called fully exploitable has a handler and a reviewed test for  *)
(* each of its techniques: the shipped chains, all of which contain a      *)
(* technique without a handler, are never called that.                     *)
THEOREM FullVerdictIsCovered == Spec => []FullChainIsCovered
  <1>1. IInv => FullChainIsCovered
    <2> SUFFICES ASSUME IInv, chain.verdict = "full"
                 PROVE  /\ mode = "live"
                        /\ \A i \in DOMAIN chain.steps : CanBeExploitable(chain.steps[i])
      BY DEF FullChainIsCovered, CanBeExploitable
    <2>1. /\ chain.steps \in Seq(Technique) /\ chain.entries \in Seq({"exploitable", "blocked", "halted"})
          /\ chain.phase \notin {"idle", "step", "single"}
      BY DEF IInv, ChainType, ProgressOK
    <2>2. /\ chain.steps # <<>> /\ Len(chain.entries) = Len(chain.steps)
          /\ \A i \in DOMAIN chain.entries : mode = "live" /\ CanBeExploitable(chain.steps[i])
      BY DEF IInv, EntriesOK
    <2>3. DOMAIN chain.entries = DOMAIN chain.steps /\ 1 \in DOMAIN chain.steps
      BY <2>1, <2>2
    <2>4. QED
      BY <2>2, <2>3
  <1>2. QED
    BY <1>1, Invariance, PTL

(* Both: the claims on lateral movement and on whole chains rest on runs   *)
(* that took place and on tests that were reviewed.                        *)
THEOREM ClaimsAreGrounded == Spec => []ClaimsHaveGrounds
  BY ExploitableIsGrounded, FullVerdictIsCovered, PTL DEF ClaimsHaveGrounds

(* With stop_on_block, nothing is run on any host after a blocked step.    *)
THEOREM NothingRunsAfterBlock == Spec => NoTestAfterBlock
  <1>1. IInv /\ [Next]_chainVars => [chain.stop /\ chain.blocked => executed' = executed]_chainVars
    <2> SUFFICES ASSUME IInv, Next, chain.stop, chain.blocked PROVE executed' = executed
      OBVIOUS
    <2>1. chain.phase # "single" /\ (chain.phase = "step" => sim.phase = "idle")
      BY DEF IInv, ProgressOK, Matched, HaltsHere
    <2>2. CASE SimulatorStep
      BY <2>1, <2>2 DEF SimulatorStep, SimStep, PlanTest, RunTest, Cleanup, LogOutcome, CheckDetection, Recheck
    <2>3. CASE Call
      BY <2>3 DEF Call, RunAttackChain, ChainNode, RedTeamNode, Simulate
    <2>4. CASE HaltStep \/ RunSingleStep \/ StepResult \/ Summarize
      BY <2>4 DEF HaltStep, RunSingleStep, StepResult, Summarize, Simulate
    <2>5. CASE WriteReports \/ SingleResult \/ BlastRadiusStep \/ Kill
      BY <2>5 DEF WriteReports, SingleResult, BlastRadiusStep, Kill
    <2>6. QED
      BY <2>2, <2>3, <2>4, <2>5 DEF Next, Proceed
  <1>2. QED
    BY <1>1, Invariance, PTL DEF Spec, NoTestAfterBlock

(* A later query of the blast radius never loses a host an earlier one     *)
(* found and never makes its connection type less specific.                *)
THEOREM BlastRadiusSharpens == Spec => BlastOnlySharpens
  <1>1. IInv /\ [Next]_chainVars => [Sharper(blast.edges, blast'.edges)]_chainVars
    <2> SUFFICES ASSUME IInv, Next PROVE Sharper(blast.edges, blast'.edges)
      OBVIOUS
    <2>1. CASE BlastRadiusStep
      BY <2>1, BlastStepOK DEF BlastRadiusStep, IInv
    <2>2. CASE Summarize
      <3>1. blast.edges = NoEdges
        BY <2>2 DEF Summarize, MapBlastRadius, IInv, BlastOK
      <3>2. QED
        BY <3>1 DEF Sharper, NoEdges
    <2>3. CASE ~BlastRadiusStep /\ ~Summarize
      <3>1. UNCHANGED blast
        BY <2>3 DEF Next, Call, Proceed, RunAttackChain, ChainNode, RedTeamNode, HaltStep, RunSingleStep,
                    StepResult, WriteReports, SimulatorStep, SingleResult, Kill
      <3>2. QED
        BY <3>1 DEF Sharper
    <2>4. QED
      BY <2>1, <2>2, <2>3
  <1>2. QED
    BY <1>1, Invariance, PTL DEF Spec, BlastOnlySharpens, Sharper

(* The report is the one KillChain promises: one entry per planned step, in *)
(* order, halted from the first block on, and the verdict they amount to.  *)
THEOREM ReportImplementsKillChain == Spec => KillChainSpec
  <1>1. Init => KC!Init
    BY DEF Init, KC!Init, NoChain
  <1>2. IInv /\ [Next]_chainVars => [KC!Next]_KC!kcVars
    <2> SUFFICES ASSUME IInv, Next PROVE KC!Next \/ UNCHANGED KC!kcVars
      BY DEF chainVars, KC!kcVars
    <2>0. ChainType /\ EntriesOK /\ ProgressOK /\ Matched /\ (KC!Stopped <=> HaltsHere)
      BY DEF IInv, ChainType, EntriesOK, HaltsHere, KC!Stopped
    <2>1. ASSUME NEW c \in DOMAIN Chains, NEW target, NEW topology, NEW stop \in BOOLEAN,
                 chain.phase = "idle", Start(Chains[c], target, topology, stop)
          PROVE  KC!Ask
      BY <2>0, <2>1 DEF Start, NoChain, KC!Ask, ProgressOK
    <2>2. CASE Call
      <3>1. ASSUME NEW verdict, NEW pct, NEW t, NEW target, NEW topology, RedTeamNode(verdict, pct, t, target, topology)
            PROVE  UNCHANGED KC!kcVars
        BY <2>0, <3>1 DEF RedTeamNode, NoChain, KC!kcVars, ProgressOK
      <3>2. ASSUME NEW verdict, NEW pct, NEW t, NEW target, ChainNode(verdict, pct, t, target)
            PROVE  KC!Ask
        BY <2>1, <3>2 DEF ChainNode
      <3>3. QED
        BY <2>1, <2>2, <3>1, <3>2 DEF Call, RunAttackChain, KC!Next
    <2>3. CASE HaltStep
      <3>1. chain.phase = "step" /\ MoreSteps /\ HaltsHere /\ chain' = AddEntry("halted")
        BY <2>3 DEF HaltStep
      <3>2. /\ chain'.entries = Append(chain.entries, "halted") /\ chain'.steps = chain.steps
            /\ chain'.stop = chain.stop /\ chain'.verdict = chain.verdict
        BY <2>0, <3>1 DEF AddEntry, ChainType
      <3>3. QED
        BY <2>0, <3>1, <3>2 DEF KC!Next, KC!AddEntry, MoreSteps
    <2>4. CASE StepResult
      <3>1. /\ chain.phase = "step" /\ sim.phase = "reported"
            /\ chain' = AddEntry(IF sim.exploitable THEN "exploitable" ELSE "blocked")
        BY <2>4 DEF StepResult
      <3>2. PICK e \in {"exploitable", "blocked"} : chain' = AddEntry(e)
        BY <3>1
      <3>3. /\ chain'.entries = Append(chain.entries, e) /\ chain'.steps = chain.steps
            /\ chain'.stop = chain.stop /\ chain'.verdict = chain.verdict
        BY <2>0, <3>2 DEF AddEntry, ChainType
      <3>4. MoreSteps /\ ~HaltsHere
        BY <2>0, <3>1 DEF Matched
      <3>5. QED
        BY <2>0, <3>3, <3>4 DEF KC!Next, KC!AddEntry, MoreSteps
    <2>5. CASE Summarize
      <3>1. /\ chain.phase = "step" /\ ~MoreSteps
            /\ chain' = [chain EXCEPT !.phase = "blast",
                  !.verdict = IF \A i \in DOMAIN chain.entries : chain.entries[i] = "exploitable"
                              THEN "full" ELSE "partial"]
        BY <2>5 DEF Summarize
      <3>2. chain.steps # <<>> /\ Len(chain.entries) = Len(chain.steps) /\ chain.verdict = "none"
        BY <2>0, <3>1 DEF ProgressOK, EntriesOK, MoreSteps, ChainType
      <3>3. /\ chain'.entries = chain.entries /\ chain'.steps = chain.steps /\ chain'.stop = chain.stop
            /\ chain'.verdict = IF \A i \in DOMAIN chain.entries : chain.entries[i] = "exploitable"
                                THEN "full" ELSE "partial"
        BY <2>0, <3>1 DEF ChainType
      <3>4. QED
        BY <3>2, <3>3 DEF KC!Next, KC!Conclude
    <2>6. CASE WriteReports \/ SingleResult
      BY <2>0, <2>6 DEF WriteReports, SingleResult, ChainType, KC!kcVars
    <2>7. CASE RunSingleStep \/ SimulatorStep \/ BlastRadiusStep \/ Kill
      BY <2>7 DEF RunSingleStep, SimulatorStep, BlastRadiusStep, Kill, KC!kcVars
    <2>8. QED
      BY <2>2, <2>3, <2>4, <2>5, <2>6, <2>7 DEF Next, Proceed
  <1>3. QED
    BY <1>1, <1>2, Invariance, PTL DEF Spec, KillChainSpec, KC!Spec

(* What KillChain's rules come to for the report of a run, at every step.  *)
ReportSound ==
    /\ Len(chain.entries) <= Len(chain.steps)
    /\ chain.verdict \in {"none", "full", "partial"}
    /\ chain.verdict # "none" => chain.steps # <<>> /\ Len(chain.entries) = Len(chain.steps)
    /\ chain.verdict = "full" <=>
          chain.verdict # "none" /\ \A i \in DOMAIN chain.entries : chain.entries[i] = "exploitable"
    /\ \A i \in DOMAIN chain.entries :
          chain.entries[i] = "halted" <=>
            chain.stop /\ \E j \in 1..(i - 1) : chain.entries[j] # "exploitable"

LEMMA ReportStep ==
    ASSUME ChainType, ChainType', ReportSound, [KC!Next]_KC!kcVars
    PROVE  ReportSound'
  <1>t. /\ chain.steps \in Seq(Technique) /\ chain'.steps \in Seq(Technique)
        /\ chain.entries \in Seq({"exploitable", "blocked", "halted"})
        /\ Len(chain.entries) \in Nat /\ Len(chain.steps) \in Nat
        /\ DOMAIN chain.entries = 1..Len(chain.entries)
        /\ chain.stop \in BOOLEAN /\ Len(chain'.steps) \in Nat
    BY DEF ChainType
  <1>1. CASE UNCHANGED KC!kcVars
    BY <1>1 DEF KC!kcVars, ReportSound
  <1>2. CASE KC!Ask
    <2>1. /\ chain.steps = <<>> /\ chain'.entries = chain.entries /\ chain'.verdict = chain.verdict
      BY <1>2 DEF KC!Ask
    <2>2. chain.entries = <<>> /\ chain.verdict = "none"
      BY <1>t, <2>1 DEF ReportSound
    <2> QED BY <1>t, <2>1, <2>2 DEF ReportSound
  <1>3. CASE KC!AddEntry
    <2>1. /\ Len(chain.entries) < Len(chain.steps) /\ chain'.steps = chain.steps
          /\ chain'.stop = chain.stop /\ chain'.verdict = chain.verdict
      BY <1>3 DEF KC!AddEntry
    <2>2. PICK e \in {"exploitable", "blocked", "halted"} :
            /\ chain'.entries = Append(chain.entries, e)
            /\ e = "halted" <=> chain.stop /\ \E i \in DOMAIN chain.entries : chain.entries[i] # "exploitable"
      BY <1>3, <1>t DEF KC!AddEntry, KC!Stopped
    <2> DEFINE n == Len(chain.entries)
    <2>3. /\ Len(chain'.entries) = n + 1 /\ DOMAIN chain'.entries = 1..(n + 1)
          /\ chain'.entries[n + 1] = e
          /\ \A i \in 1..n : chain'.entries[i] = chain.entries[i]
      BY <1>t, <2>2
    <2>4. chain.verdict = "none"
      BY <1>t, <2>1 DEF ReportSound
    <2>5. ASSUME NEW i \in 1..(n + 1)
          PROVE  chain'.entries[i] = "halted" <=>
                   chain.stop /\ \E j \in 1..(i - 1) : chain'.entries[j] # "exploitable"
      <3>1. CASE i = n + 1
        <4>1. i - 1 = n
          BY <1>t, <3>1
        <4> QED BY <1>t, <2>2, <2>3, <3>1, <4>1
      <3>2. CASE i \in 1..n
        <4>1. \A j \in 1..(i - 1) : j \in 1..n
          BY <1>t, <3>2
        <4>2. chain.entries[i] = "halted" <=>
                 chain.stop /\ \E j \in 1..(i - 1) : chain.entries[j] # "exploitable"
          BY <1>t, <3>2 DEF ReportSound
        <4> QED BY <2>3, <3>2, <4>1, <4>2
      <3> QED BY <1>t, <3>1, <3>2
    <2>6. Len(chain'.entries) <= Len(chain'.steps)
      BY <1>t, <2>1, <2>3
    <2> HIDE DEF n
    <2> QED BY <2>1, <2>3, <2>4, <2>5, <2>6 DEF ReportSound
  <1>4. CASE KC!Conclude
    <2>1. /\ chain.steps # <<>> /\ Len(chain.entries) = Len(chain.steps) /\ chain.verdict = "none"
          /\ chain'.verdict = IF \A i \in DOMAIN chain.entries : chain.entries[i] = "exploitable"
                              THEN "full" ELSE "partial"
          /\ chain'.steps = chain.steps /\ chain'.stop = chain.stop /\ chain'.entries = chain.entries
      BY <1>4 DEF KC!Conclude
    <2> QED BY <2>1 DEF ReportSound
  <1> QED BY <1>1, <1>2, <1>3, <1>4 DEF KC!Next

(* The report of run_attack_chain has one entry per step so far; with      *)
(* stop_on_block exactly the entries after the first that is not           *)
(* exploitable are halted, without it none; and fully_exploitable is said  *)
(* exactly when the chain is done and every entry is exploitable.  A       *)
(* consequence of the refinement and the types alone.                      *)
THEOREM ReportsAreSound == Spec => []ReportSound
  <1>1. KC!Init => ReportSound
    BY DEF KC!Init, ReportSound
  <1>2. TypeOK /\ TypeOK' /\ ReportSound /\ [KC!Next]_KC!kcVars => ReportSound'
    BY ReportStep DEF TypeOK, ChainType
  <1> QED BY <1>1, <1>2, ReportImplementsKillChain, TypeCorrect, PTL DEF KillChainSpec, KC!Spec

-----------------------------------------------------------------------------
(* Why a run ends: whatever it does takes it forward, in a lexicographic   *)
(* order of positions that are bounded.                                    *)

FirstPass == {"plan", "run", "cleanup", "log", "check"}

(* Within a simulation: first over the hosts, on each over the tests, for  *)
(* each the plan, the run, the cleanup, the log entry and the check; then  *)
(* the second pass; then the report.                                       *)
SimForward(s, r) ==
    /\ Guids(r) = Guids(s) /\ Targets(r) = Targets(s)
    /\ \/ s.phase \in Active /\ r.phase = "reported"
       \/ s.phase \in FirstPass /\ r.phase = "recheck"
       \/ s.phase = "recheck" /\ r.phase = "recheck" /\ r.g = s.g + 1
       \/ /\ s.phase \in FirstPass /\ r.phase \in FirstPass
          /\ \/ r.h = s.h + 1
             \/ r.h = s.h /\ r.g = s.g + 1
             \/ /\ r.h = s.h /\ r.g = s.g
                /\ <<s.phase, r.phase>> \in {<<"plan", "run">>, <<"run", "cleanup">>, <<"run", "log">>,
                                            <<"cleanup", "log">>, <<"log", "check">>}

(* Within the map: one query after the other, and fewer users to ask for.  *)
BlastForward(b, c) ==
    \/ <<b.phase, c.phase>> \in {<<"connections", "subnet">>, <<"subnet", "users">>,
            <<"users", "hosts">>, <<"users", "mapped">>, <<"hosts", "mapped">>}
    \/ b.phase = "hosts" /\ c.phase = "hosts" /\ c.todo \subseteq b.todo /\ c.todo # b.todo

Forward ==
    \/ <<chain.phase, chain'.phase>> \in {<<"step", "blast">>, <<"blast", "complete">>, <<"single", "complete">>}
    \/ /\ chain.phase = "step" /\ chain'.phase = "step" /\ chain'.steps = chain.steps
       /\ Len(chain'.entries) = Len(chain.entries) + 1
    \/ /\ chain' = chain /\ chain.phase = "step"
       /\ sim.phase = "idle" /\ sim'.phase \in {"plan", "reported"}
    \/ chain' = chain /\ chain.phase \in {"step", "single"} /\ SimForward(sim, sim')
    \/ chain' = chain /\ chain.phase = "blast" /\ BlastForward(blast, blast')

(* How far a position may go.                                              *)
Bounded ==
    /\ Len(chain.entries) <= Len(chain.steps)
    /\ sim.phase \in Active => sim.g <= Len(Guids(sim)) /\ sim.h <= Len(Targets(sim))

LEMMA FoundForward ==
    ASSUME NEW s \in SimType, s.phase \in FirstPass, NEW success \in BOOLEAN, NEW d \in Detected
    PROVE  SimForward(s, Found(s, success, d))
  <1> DEFINE r == [s EXCEPT !.findings = s.findings \union {[run |-> RunOf(s), success |-> success, detected |-> d]},
                            !.gap = s.gap \/ CountsAsGap(s.technique, success, d)]
             n == Found(s, success, d)
  <1>1. /\ r.phase = s.phase /\ r.g = s.g /\ r.h = s.h /\ r.technique = s.technique
        /\ r.target = s.target /\ r.adjacent = s.adjacent /\ r.g \in Nat /\ r.h \in Nat
        /\ DOMAIN r = DOMAIN s
    BY DEF SimType
  <1>2. r = [r EXCEPT !.phase = r.phase] /\ {"phase", "g", "h", "exploitable", "technique", "target", "adjacent"} \subseteq DOMAIN r
    BY DEF SimType
  <1>3. Guids(r) = Guids(s) /\ Targets(r) = Targets(s) /\ n = Advance(r)
    BY <1>1, SameTests DEF Found
  <1> SUFFICES SimForward(s, n)
    OBVIOUS
  <1> HIDE DEF r, n
  <1>4. CASE r.g < Len(Guids(r))
    <2>1. n = [r EXCEPT !.phase = "plan", !.rc = FALSE, !.verified = FALSE, !.g = r.g + 1]
      BY <1>3, <1>4 DEF Advance
    <2>2. /\ n.phase = "plan" /\ n.g = r.g + 1 /\ n.h = r.h /\ n.technique = r.technique
          /\ n.target = r.target /\ n.adjacent = r.adjacent
      BY <1>2, <2>1
    <2>3. Guids(n) = Guids(s) /\ Targets(n) = Targets(s)
      BY <1>3, <2>2, SameTests
    <2> QED BY <1>1, <2>2, <2>3 DEF SimForward, FirstPass
  <1>5. CASE ~(r.g < Len(Guids(r))) /\ r.h < Len(Targets(r))
    <2>1. n = [r EXCEPT !.phase = "plan", !.rc = FALSE, !.verified = FALSE, !.g = 1, !.h = r.h + 1]
      BY <1>3, <1>5 DEF Advance
    <2>2. /\ n.phase = "plan" /\ n.h = r.h + 1 /\ n.technique = r.technique
          /\ n.target = r.target /\ n.adjacent = r.adjacent
      BY <1>2, <2>1
    <2>3. Guids(n) = Guids(s) /\ Targets(n) = Targets(s)
      BY <1>3, <2>2, SameTests
    <2> QED BY <1>1, <2>2, <2>3 DEF SimForward, FirstPass
  <1>6. CASE ~(r.g < Len(Guids(r))) /\ ~(r.h < Len(Targets(r)))
    <2> DEFINE q == [r EXCEPT !.phase = "plan", !.rc = FALSE, !.verified = FALSE]
    <2>1. n = Conclude(q)
      BY <1>3, <1>6 DEF Advance
    <2>2. /\ {"phase", "g", "exploitable", "technique", "target", "adjacent"} \subseteq DOMAIN q
          /\ q.technique = r.technique /\ q.target = r.target /\ q.adjacent = r.adjacent
      BY <1>2
    <2> HIDE DEF q
    <2>4. /\ n.phase \in {"recheck", "reported"} /\ n.technique = r.technique
          /\ n.target = r.target /\ n.adjacent = r.adjacent
      BY <2>1, <2>2 DEF Conclude, Report
    <2>3. Guids(n) = Guids(s) /\ Targets(n) = Targets(s)
      BY <1>3, <2>4, SameTests
    <2> QED BY <1>1, <2>4, <2>3 DEF SimForward, FirstPass, Active
  <1> QED BY <1>4, <1>5, <1>6

LEMMA SimStepForward == ASSUME SimInv, SimStep PROVE SimForward(sim, sim')
  <1>0. sim \in SimType
    BY DEF SimInv, SimOK
  <1>s. /\ FALSE \in BOOLEAN /\ TRUE \in BOOLEAN /\ "none" \in Detected
    BY DEF Detected
  <1>k. ASSUME NEW p \in FirstPass, sim.phase \in FirstPass,
               \E rc, v \in BOOLEAN : sim' = [sim EXCEPT !.phase = p, !.rc = rc, !.verified = v],
               <<sim.phase, p>> \in {<<"plan", "run">>, <<"run", "cleanup">>, <<"run", "log">>,
                                    <<"cleanup", "log">>, <<"log", "check">>}
        PROVE  SimForward(sim, sim')
    <2>1. /\ sim'.phase = p /\ sim'.g = sim.g /\ sim'.h = sim.h
          /\ sim'.technique = sim.technique /\ sim'.target = sim.target /\ sim'.adjacent = sim.adjacent
      BY <1>0, <1>k DEF SimType
    <2> QED BY <1>k, <2>1, SameTests DEF SimForward
  <1>t. sim.rc \in BOOLEAN /\ sim.verified \in BOOLEAN
    BY <1>0 DEF SimType
  <1>1. CASE PlanTest
    <2>1. sim.phase = "plan" /\ sim' = [sim EXCEPT !.phase = "run", !.rc = sim.rc, !.verified = sim.verified]
      BY <1>0, <1>1 DEF PlanTest, SimType
    <2> QED BY <1>t, <1>k, <2>1 DEF FirstPass
  <1>2. CASE RunTest
    <2>1. PICK answer \in SshAnswers :
             sim' = [sim EXCEPT !.phase = IF Answered(answer) THEN "cleanup" ELSE "log", !.rc = answer = "ok"]
      BY <1>2 DEF RunTest
    <2> DEFINE p == IF Answered(answer) THEN "cleanup" ELSE "log"
               rc == answer = "ok"
    <2>2. /\ sim' = [sim EXCEPT !.phase = p, !.rc = rc, !.verified = sim.verified]
          /\ p \in {"cleanup", "log"} /\ rc \in BOOLEAN
      BY <1>0, <2>1 DEF SimType
    <2>3. sim.phase = "run"
      BY <1>2 DEF RunTest
    <2> HIDE DEF p, rc
    <2> QED BY <1>t, <1>k, <2>2, <2>3 DEF FirstPass
  <1>3. CASE Cleanup
    <2>1. PICK answer \in SshAnswers :
             sim' = [sim EXCEPT !.phase = "log", !.verified = answer = "ok",
                                !.rc = sim.rc /\ Answered(answer)]
      BY <1>3 DEF Cleanup
    <2> DEFINE v == answer = "ok"
               rc == sim.rc /\ Answered(answer)
    <2>2. sim' = [sim EXCEPT !.phase = "log", !.rc = rc, !.verified = v] /\ v \in BOOLEAN /\ rc \in BOOLEAN
      BY <1>0, <2>1 DEF SimType
    <2>3. sim.phase = "cleanup"
      BY <1>3 DEF Cleanup
    <2> HIDE DEF v, rc
    <2> QED BY <1>k, <2>2, <2>3 DEF FirstPass
  <1>4. CASE LogOutcome
    <2>1. /\ sim.phase = "log"
          /\ sim' = [sim EXCEPT !.phase = "check"] \/ sim' = Found(sim, FALSE, "none")
      BY <1>4 DEF LogOutcome
    <2>2. CASE sim' = Found(sim, FALSE, "none")
      BY <1>0, <1>s, <2>1, <2>2, FoundForward DEF FirstPass
    <2>3. CASE sim' = [sim EXCEPT !.phase = "check"]
      <3>1. sim' = [sim EXCEPT !.phase = "check", !.rc = sim.rc, !.verified = sim.verified]
        BY <1>0, <2>3 DEF SimType
      <3> QED BY <1>t, <1>k, <2>1, <3>1 DEF FirstPass
    <2> QED BY <2>1, <2>2, <2>3
  <1>5. CASE CheckDetection
    <2>1. sim.phase = "check" /\ \E d \in Detected : sim' = Found(sim, TRUE, d)
      BY <1>5 DEF CheckDetection
    <2> QED BY <1>0, <1>s, <2>1, FoundForward DEF FirstPass
  <1>6. CASE Recheck
    <2>1. /\ sim.phase = "recheck"
          /\ \/ \E b \in BOOLEAN : sim' = Report(sim, b)
             \/ sim' = [sim EXCEPT !.g = sim.g + 1]
      BY <1>6 DEF Recheck
    <2>2. /\ sim'.technique = sim.technique /\ sim'.target = sim.target /\ sim'.adjacent = sim.adjacent
          /\ \/ sim'.phase = "reported"
             \/ sim'.phase = "recheck" /\ sim'.g = sim.g + 1
      <3>1. CASE \E b \in BOOLEAN : sim' = Report(sim, b)
        BY <1>0, <3>1 DEF SimType, Report
      <3>2. CASE sim' = [sim EXCEPT !.g = sim.g + 1]
        BY <1>0, <2>1, <3>2 DEF SimType
      <3> QED BY <2>1, <3>1, <3>2
    <2> QED BY <2>1, <2>2, SameTests DEF SimForward, Active
  <1> QED BY <1>1, <1>2, <1>3, <1>4, <1>5, <1>6 DEF SimStep

LEMMA BlastStepForward == ASSUME BlastTypeOK, BlastStep PROVE BlastForward(blast, blast')
  <1>1. CASE QueryRecentConnections \/ QuerySameSubnet \/ QueryUsers
    BY <1>1 DEF QueryRecentConnections, QuerySameSubnet, QueryUsers, BlastTypeOK, BlastForward
  <1>2. ASSUME NEW u \in Account, QueryUserHosts(u) PROVE BlastForward(blast, blast')
    <2>1. /\ blast.phase = "hosts" /\ u \in blast.todo
          /\ blast'.phase \in {"mapped", "hosts"} /\ blast'.todo = blast.todo \ {u}
      BY <1>2 DEF QueryUserHosts, BlastTypeOK
    <2> QED BY <2>1 DEF BlastForward
  <1> QED BY <1>1, <1>2 DEF BlastStep

(* Whatever the process of a run does after it was called, time-outs,      *)
(* failed queries and cleanups included, takes the run forward, and it can *)
(* go forward only so far: run_attack_chain repeats no test, no query and  *)
(* no entry.  That a process left alone makes its next step is RunEnds.    *)
THEOREM RunGoesForward == Spec => []Bounded /\ [][Proceed => Forward]_chainVars
  <1>1. IInv => Bounded
    BY DEF IInv, SimInv, SimOK, EntriesOK, Bounded
  <1>2. IInv => (Proceed => Forward)
    <2> SUFFICES ASSUME IInv, Proceed PROVE Forward
      OBVIOUS
    <2>0. SimInv /\ BlastTypeOK /\ ChainType
      BY DEF IInv, BlastOK
    <2>1. CASE HaltStep
      <3>1. chain.phase = "step" /\ chain' = AddEntry("halted")
        BY <2>1 DEF HaltStep
      <3> QED BY <2>0, <3>1 DEF AddEntry, ChainType, Forward
    <2>2. CASE StepResult
      <3>1. chain.phase = "step" /\ \E e \in {"exploitable", "blocked"} : chain' = AddEntry(e)
        BY <2>2 DEF StepResult
      <3> QED BY <2>0, <3>1 DEF AddEntry, ChainType, Forward
    <2>3. CASE RunSingleStep
      <3>1. /\ chain.phase = "step" /\ chain' = chain /\ sim.phase = "idle"
            /\ \/ sim' = Report(NoSim, FALSE)
               \/ \E t, target, adjacent : sim' = NewSim(t, target, adjacent)
        BY <2>3 DEF RunSingleStep, Simulate
      <3>2. sim'.phase \in {"plan", "reported"}
        <4>1. NoSim \in SimType /\ Report(NoSim, FALSE).phase = "reported"
          BY NoSimOK DEF SimOK, SimType, Report
        <4>2. \A t, target, adjacent : NewSim(t, target, adjacent).phase = "plan"
          BY DEF NewSim
        <4> QED BY <3>1, <4>1, <4>2
      <3> QED BY <3>1, <3>2 DEF Forward
    <2>4. CASE Summarize \/ WriteReports \/ SingleResult
      <3>1. <<chain.phase, chain'.phase>> \in {<<"step", "blast">>, <<"blast", "complete">>, <<"single", "complete">>}
        BY <2>0, <2>4 DEF Summarize, WriteReports, SingleResult, ChainType
      <3> QED BY <3>1 DEF Forward
    <2>5. CASE SimulatorStep
      BY <2>0, <2>5, SimStepForward DEF SimulatorStep, Forward
    <2>6. CASE BlastRadiusStep
      BY <2>0, <2>6, BlastStepForward DEF BlastRadiusStep, Forward
    <2> QED BY <2>1, <2>2, <2>3, <2>4, <2>5, <2>6 DEF Proceed
  <1>3. IInv /\ [Next]_chainVars => [Proceed => Forward]_chainVars
    BY <1>2
  <1> QED BY <1>1, <1>3, Invariance, PTL DEF Spec
=============================================================================
