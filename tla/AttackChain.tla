---------------------------- MODULE AttackChain ----------------------------
(***************************************************************************)
(* agents/attack_chain_simulator.py: a chain of techniques run one after   *)
(* the other through the red-team simulator, then the blast radius of the  *)
(* target and the reports.  The process may be killed at any point; nothing *)
(* is persisted that a later process would resume from, so it ends there.  *)
(*                                                                         *)
(* The log events, the reports and their writes never raise and have no    *)
(* effect the model keeps.  The two graph nodes are included as callers;   *)
(* graph.py has an edge to neither, so only tests and operators call them. *)
(***************************************************************************)
EXTENDS RedTeam, BlastRadius

CONSTANTS
    Chains,          \* load_chain_templates: chain_name -> sequence of techniques
    ENTRY_TECHNIQUE, \* entry_alert_technique of each chain
    Technique,       \* techniques an alert may carry
    Topologies,      \* adjacent_hosts a caller may supply, sequences of hosts
    Pct              \* confidence percentages

GateThreshold == 85

ASSUME AttackChainAssumption ==
    /\ \A c \in DOMAIN Chains : Chains[c] \in Seq(Technique) /\ Chains[c] # <<>>
    /\ ENTRY_TECHNIQUE \in [DOMAIN Chains -> Technique]
    /\ Topologies \subseteq Seq(Host) /\ <<>> \in Topologies
    /\ Host \subseteq Peer /\ Pct \subseteq Nat

VARIABLES chain, alive

chainVars == <<mode, sim, executed, residue, atomicLog, refused, blast, chain, alive>>

NoChain == [phase |-> "idle", steps |-> <<>>, stop |-> FALSE, target |-> CHOOSE h \in Host : TRUE,
            topology |-> <<>>, entries |-> <<>>, blocked |-> FALSE, verdict |-> "none"]

-----------------------------------------------------------------------------

Init == /\ SimInit
        /\ BlastInit
        /\ chain = NoChain
        /\ alive = TRUE

Start(steps, target, topology, stop) ==
    chain' = [NoChain EXCEPT !.phase = "step", !.steps = steps, !.target = target,
                             !.topology = topology, !.stop = stop]

(* run_attack_chain; an unknown name raises before anything is done.       *)
RunAttackChain(c, target, topology, stop) ==
    /\ alive /\ chain.phase = "idle"
    /\ Start(Chains[c], target, topology, stop)
    /\ UNCHANGED <<mode, sim, executed, residue, atomicLog, refused, blast, alive>>

Gate(verdict, pct) == verdict = "suspicious" /\ pct > GateThreshold

(* chain_node: the chain whose entry technique the alert carries, without  *)
(* topology and without stop_on_block.                                     *)
ChainNode(verdict, pct, technique, target) ==
    /\ alive /\ chain.phase = "idle"
    /\ Gate(verdict, pct)
    /\ \E c \in DOMAIN Chains :
         /\ ENTRY_TECHNIQUE[c] = technique
         /\ Start(Chains[c], target, <<>>, FALSE)
    /\ UNCHANGED <<mode, sim, executed, residue, atomicLog, refused, blast, alive>>

(* red_team_node: the alert's technique alone, with the state's topology;  *)
(* "single" instead of a chain, without summary or blast radius.           *)
RedTeamNode(verdict, pct, technique, target, topology) ==
    /\ alive /\ chain.phase = "idle"
    /\ Gate(verdict, pct)
    /\ chain' = [NoChain EXCEPT !.phase = "single", !.target = target]
    /\ Simulate(technique, target, topology)
    /\ UNCHANGED <<blast, alive>>

-----------------------------------------------------------------------------
(* The loop over the steps.                                                *)

NextStep == chain.steps[Len(chain.entries) + 1]
MoreSteps == Len(chain.entries) < Len(chain.steps)
\* Mutant: only the step before is looked at.
HaltsAfterBlockOnly ==
    chain.stop /\ chain.entries # <<>> /\ chain.entries[Len(chain.entries)] = "blocked"

HaltsHere == chain.blocked /\ chain.stop

\* Mutant: chain_blocked is never set.
AddEntryForgets(e) == [chain EXCEPT !.entries = Append(chain.entries, e)]

AddEntry(e) == [chain EXCEPT !.entries = Append(chain.entries, e),
                             !.blocked = chain.blocked \/ e = "blocked"]

HaltStep ==
    /\ alive /\ chain.phase = "step" /\ MoreSteps /\ HaltsHere
    /\ chain' = AddEntry("halted")
    /\ UNCHANGED <<mode, sim, executed, residue, atomicLog, refused, blast, alive>>

RunSingleStep ==
    /\ alive /\ chain.phase = "step" /\ MoreSteps /\ ~HaltsHere
    /\ Simulate(NextStep, chain.target, chain.topology)
    /\ UNCHANGED <<blast, chain, alive>>

StepResult ==
    /\ alive /\ chain.phase = "step" /\ sim.phase = "reported"
    /\ chain' = AddEntry(IF sim.exploitable THEN "exploitable" ELSE "blocked")
    /\ sim' = NoSim
    /\ UNCHANGED <<mode, executed, residue, atomicLog, refused, blast, alive>>

(* The summary, and the call of map_blast_radius for the target.           *)
Summarize ==
    /\ alive /\ chain.phase = "step" /\ ~MoreSteps
    /\ chain' = [chain EXCEPT !.phase = "blast",
            !.verdict = IF \A i \in DOMAIN chain.entries : chain.entries[i] = "exploitable"
                        THEN "full" ELSE "partial"]
    /\ MapBlastRadius(chain.target)
    /\ UNCHANGED <<mode, sim, executed, residue, atomicLog, refused, alive>>

(* The two reports, whose fallback texts stand in for a failed call, and   *)
(* their write; then run_attack_chain returns.                             *)
WriteReports ==
    /\ alive /\ chain.phase = "blast" /\ blast.phase = "mapped"
    /\ chain' = [chain EXCEPT !.phase = "complete"]
    /\ UNCHANGED <<mode, sim, executed, residue, atomicLog, refused, blast, alive>>

SimulatorStep ==
    /\ alive /\ chain.phase \in {"step", "single"} /\ SimStep
    /\ UNCHANGED <<blast, chain, alive>>

SingleResult ==
    /\ alive /\ chain.phase = "single" /\ sim.phase = "reported"
    /\ chain' = [chain EXCEPT !.phase = "complete"]
    /\ UNCHANGED <<mode, sim, executed, residue, atomicLog, refused, blast, alive>>

BlastRadiusStep ==
    /\ alive /\ chain.phase = "blast" /\ BlastStep
    /\ UNCHANGED <<mode, sim, executed, residue, atomicLog, refused, chain, alive>>

Kill ==
    /\ alive /\ chain.phase \notin {"idle", "complete"}
    /\ alive' = FALSE
    /\ UNCHANGED <<mode, sim, executed, residue, atomicLog, refused, blast, chain>>

-----------------------------------------------------------------------------

Call ==
    \/ \E c \in DOMAIN Chains, target \in Host, topology \in Topologies, stop \in BOOLEAN :
         RunAttackChain(c, target, topology, stop)
    \/ \E verdict \in {"suspicious", "benign"}, pct \in Pct, t \in Technique, target \in Host :
         \/ ChainNode(verdict, pct, t, target)
         \/ \E topology \in Topologies : RedTeamNode(verdict, pct, t, target, topology)

(* What the process does on its own once it was called.                    *)
Proceed == HaltStep \/ RunSingleStep \/ StepResult \/ Summarize \/ WriteReports
           \/ SimulatorStep \/ SingleResult \/ BlastRadiusStep

Next == Call \/ Proceed \/ Kill

Spec == Init /\ [][Next]_chainVars

(* A process that is not killed takes its next step: SSH commands and the  *)
(* index's requests have time-outs; that the language model answers, which *)
(* the reports ask without one, is assumed.                                *)
FairSpec == Spec /\ WF_chainVars(Proceed)

-----------------------------------------------------------------------------
(* Properties.                                                             *)

SimTypeOK ==
    /\ mode \in {"dry_run", "live"}
    /\ sim \in [phase : {"idle", "plan", "run", "cleanup", "log", "check", "recheck", "reported"},
                technique : TECHNIQUE_HANDLERS, target : Host, adjacent : Seq(Host),
                h : Nat \ {0}, g : Nat \ {0}, rc : BOOLEAN, verified : BOOLEAN,
                findings : SUBSET Findings, gap : BOOLEAN, exploitable : BOOLEAN]
    /\ executed \subseteq Execution /\ residue \subseteq Execution
    /\ atomicLog \subseteq Entries /\ refused \subseteq Entries

(* The simulator's, the blast radius' and the chain's variables have the   *)
(* shapes the code gives them (run_attack_chain, run_atomic_test).         *)
TypeOK ==
    /\ SimTypeOK /\ BlastTypeOK /\ alive \in BOOLEAN
    /\ chain \in [phase : {"idle", "step", "single", "blast", "complete"},
                  steps : Seq(Technique), stop : BOOLEAN, target : Host,
                  topology : Seq(Host), entries : Seq({"exploitable", "blocked", "halted"}),
                  blocked : BOOLEAN, verdict : {"none", "full", "partial"}]

(* Only a live process runs tests, only reviewed ones of that technique,   *)
(* and only on hosts the runner is configured for, whatever the chain, the *)
(* topology or the order of failures (ALLOWED_TESTS, REDTEAM_MODE).        *)
NothingUnreviewed ==
    \A x \in executed :
        /\ mode = "live"
        /\ \E i \in DOMAIN ALLOWED_TESTS[x[1]] : ALLOWED_TESTS[x[1]][i] = x[2]
        /\ x[3] \in REDTEAM_SSH_HOSTS

InFlight == IF sim.phase \in {"cleanup", "log"} THEN {Current} ELSE {}

(* What a test left on a host is never passed over in silence: the log was *)
(* told beforehand that it would run, and afterwards that it was not       *)
(* cleaned up, unless the process was killed before it came to that; and   *)
(* what the log is told it has, unless the index refused the entry         *)
(* (run_atomic_test's cleanup_verified, _log_execution).                   *)
ResidueIsOnRecord ==
    /\ \A x \in executed : <<x, "pre_execution">> \in atomicLog \union refused
    /\ \A x \in residue \ InFlight : <<x, "unverified">> \in atomicLog \union refused

(* Lateral movement is called exploitable only when a reviewed test of it  *)
(* ran on an adjacent host, succeeded and was not seen by the SIEM         *)
(* (_replay_t1021_lateral_movement); discovery never is.  Of T1110 and     *)
(* T1059 nothing of the kind holds: see ExploitableMeansExecuted.          *)
ExploitableHasGrounds ==
    sim.exploitable =>
        /\ mode = "live" /\ sim.technique # "T1082"
        /\ sim.technique = "T1021" =>
              \E f \in sim.findings :
                 /\ f.success /\ f.detected = "no" /\ f.run \in executed
                 /\ f.run[1] = "T1021"
                 /\ \E i \in DOMAIN sim.adjacent : sim.adjacent[i] = f.run[3]

(* fully_exploitable is claimed only for a live run of a chain all of      *)
(* whose techniques have a handler that can say so and a reviewed test.    *)
FullChainIsCovered ==
    chain.verdict = "full" =>
        /\ mode = "live"
        /\ \A i \in DOMAIN chain.steps :
              /\ chain.steps[i] \in TECHNIQUE_HANDLERS \ {"T1082"}
              /\ ALLOWED_TESTS[chain.steps[i]] # <<>>

(* What is claimed of lateral movement, of discovery and of whole chains   *)
(* has the grounds above, so far as the tests and the SIEM's answers show. *)
ClaimsHaveGrounds == ExploitableHasGrounds /\ FullChainIsCovered

(* The notes of every handler say that an exploitable technique was        *)
(* executed (without being detected): some test of it then ran.            *)
ExploitableMeansExecuted ==
    sim.exploitable => \E x \in executed : x[1] = sim.technique

(* With stop_on_block, once a step is blocked nothing more is run on any   *)
(* host, until the end of the chain (run_attack_chain's halted entries).   *)
NoTestAfterBlock ==
    [][chain.stop /\ chain.blocked => executed' = executed]_chainVars

(* A later signal never loses a host an earlier one found, nor replaces a  *)
(* protocol or a login by something less specific (map_blast_radius).      *)
BlastOnlySharpens ==
    [][\A p \in Peer : blast.edges[p] # "none" /\ blast'.edges[p] # blast.edges[p] =>
          blast.edges[p] \in Unspecific /\ blast'.edges[p] \notin Unspecific \union {"none"}]_chainVars

(* run_attack_chain writes the report KillChain promises.                  *)
KC == INSTANCE KillChain WITH
        Plans <- {Chains[c] : c \in DOMAIN Chains}, plan <- chain.steps, stop <- chain.stop,
        entries <- chain.entries, verdict <- chain.verdict
KillChainSpec == KC!Spec

(* A run that is started and not killed comes to its end, whatever fails   *)
(* on the way: time-outs, queries, cleanups, an unreachable target.        *)
RunEnds == (chain.phase # "idle") ~> (chain.phase = "complete" \/ ~alive)
=============================================================================
