------------------------------ MODULE RedTeam ------------------------------
(***************************************************************************)
(* One red-team simulation: run_red_team_simulation, the four technique    *)
(* handlers of agents/redteam_simulator.py and the remote runner of        *)
(* tools/atomic_red_team_runner.py they call.  Every SSH command and every *)
(* detection query is a step of its own, because each may fail, time out   *)
(* or be the last thing the process does.  A caller (AttackChain) starts a *)
(* simulation and collects its report.                                     *)
(*                                                                         *)
(* Abstracted: texts, risk scores, and the simulator's own audit log; of   *)
(* the atomic log's entries the run, the stage and cleanup_verified are    *)
(* kept.  A query of the SIEM may answer anything at any time: alerts      *)
(* arrive late and leave the five-minute window while the tests go on.     *)
(***************************************************************************)
EXTENDS Naturals, Sequences

CONSTANTS
    Host,               \* Wazuh agent names
    Test,               \* GUIDs of atomic tests
    ALLOWED_TESTS,      \* technique -> sequence of the reviewed tests
    REDTEAM_SSH_HOSTS   \* the hosts the runner knows how to reach

TECHNIQUE_HANDLERS == {"T1110", "T1059", "T1021", "T1082"}

ASSUME RedTeamAssumption ==
    /\ ALLOWED_TESTS \in [TECHNIQUE_HANDLERS -> Seq(Test)]
    /\ REDTEAM_SSH_HOSTS \subseteq Host /\ Host # {}

VARIABLES
    mode,        \* REDTEAM_MODE, read once from the environment
    sim,         \* the simulation in progress
    executed,    \* history: the tests that really ran, and where
    residue,     \* what such a test left on its host and no cleanup removed
    atomicLog,   \* siem-redteam-atomic-log
    refused      \* history: entries of it that could not be written

simVars == <<mode, sim, executed, residue, atomicLog, refused>>

Execution == TECHNIQUE_HANDLERS \X Test \X Host
SshAnswers == {"ok", "failed", "timeout", "error"}   \* exit 0, another exit, two exceptions
Detected == {"yes", "no", "none"}                    \* True, False, None
Findings == [run : Execution, success : BOOLEAN, detected : Detected]
Entries == Execution \X {"pre_execution", "verified", "unverified"}

NewSim(t, target, adjacent) ==
    [phase |-> "plan", technique |-> t, target |-> target, adjacent |-> adjacent,
     h |-> 1, g |-> 1, rc |-> FALSE, verified |-> FALSE, findings |-> {},
     gap |-> FALSE, exploitable |-> FALSE]

NoSim == [NewSim("T1082", CHOOSE h \in Host : TRUE, <<>>) EXCEPT !.phase = "idle"]

-----------------------------------------------------------------------------
(* What a handler runs: lateral movement against each adjacent host, the   *)
(* others against the first affected asset; every reviewed test on each.   *)

Targets(s) == IF s.technique = "T1021" THEN s.adjacent ELSE <<s.target>>
Guids(s) == ALLOWED_TESTS[s.technique]
RunOf(s) == <<s.technique, Guids(s)[s.g], Targets(s)[s.h]>>
Current == RunOf(sim)

Report(s, e) == [s EXCEPT !.phase = "reported", !.exploitable = e]

(* T1110 and T1059 decide in a second pass over the tests, T1021 from what *)
(* the first pass found, and discovery is never called exploitable.        *)
Conclude(s) ==
    IF s.technique \in {"T1110", "T1059"}
    THEN [s EXCEPT !.phase = "recheck", !.g = 1]
    ELSE Report(s, s.technique = "T1021" /\ s.gap)

Advance(s) ==
    LET next == [s EXCEPT !.phase = "plan", !.rc = FALSE, !.verified = FALSE]
    IN IF s.g < Len(Guids(s)) THEN [next EXCEPT !.g = s.g + 1]
       ELSE IF s.h < Len(Targets(s)) THEN [next EXCEPT !.g = 1, !.h = s.h + 1]
       ELSE Conclude(next)

\* Mutant: a test that failed counts like one that ran unseen.
CountsAsGapAnyway(t, success, detected) == t = "T1021" /\ detected # "yes"

(* A finding of T1021 counts when the test succeeded and nobody saw it.    *)
CountsAsGap(t, success, detected) == t = "T1021" /\ success /\ detected = "no"

Found(s, success, detected) ==
    Advance([s EXCEPT
        !.findings = s.findings \union
                     {[run |-> RunOf(s), success |-> success, detected |-> detected]},
        !.gap = s.gap \/ CountsAsGap(s.technique, success, detected)])

\* Mutant: the mode is not looked at.
NothingToRunLive(t, adjacent) ==
    \/ t \notin TECHNIQUE_HANDLERS
    \/ ALLOWED_TESTS[t] = <<>>
    \/ t = "T1021" /\ adjacent = <<>>

(* No handler, a dry run, nothing reviewed, nowhere to move to: no test is *)
(* run, the attempt is logged as blocked and reported not exploitable.     *)
NothingToRun(t, adjacent) ==
    \/ t \notin TECHNIQUE_HANDLERS
    \/ mode # "live"
    \/ ALLOWED_TESTS[t] = <<>>
    \/ t = "T1021" /\ adjacent = <<>>

-----------------------------------------------------------------------------

SimInit ==
    /\ mode \in {"dry_run", "live"}
    /\ sim = NoSim
    /\ executed = {} /\ residue = {} /\ atomicLog = {} /\ refused = {}

Simulate(t, target, adjacent) ==
    /\ sim.phase = "idle"
    /\ sim' = IF NothingToRun(t, adjacent)
              THEN Report(NoSim, FALSE)
              ELSE NewSim(t, target, adjacent)
    /\ UNCHANGED <<mode, executed, residue, atomicLog, refused>>

Answered(answer) == answer \in {"ok", "failed"}

(* _log_execution swallows its error: an entry is written or refused.      *)
LogExecution(stage) ==
    \/ atomicLog' = atomicLog \union {<<Current, stage>>} /\ UNCHANGED refused
    \/ refused' = refused \union {<<Current, stage>>} /\ UNCHANGED atomicLog

PlanTest ==
    /\ sim.phase = "plan"
    /\ LogExecution("pre_execution")
    /\ sim' = [sim EXCEPT !.phase = "run"]
    /\ UNCHANGED <<mode, executed, residue>>

(* The command on the target.  A host without connection details raises    *)
(* before it; a time-out, and an error (of ssh, or in decoding what it     *)
(* printed), leave open whether it ran; an exit code other than 0 may be   *)
(* ssh's or the test's.                                                    *)
RunTest ==
    /\ sim.phase = "run"
    /\ \E answer \in SshAnswers, ran \in BOOLEAN :
         /\ Current[3] \notin REDTEAM_SSH_HOSTS => answer = "error" /\ ~ran
         /\ answer = "ok" => ran
         /\ executed' = IF ran THEN executed \union {Current} ELSE executed
         /\ residue' = IF ran THEN residue \union {Current} ELSE residue
         /\ sim' = [sim EXCEPT !.phase = IF Answered(answer) THEN "cleanup" ELSE "log",
                               !.rc = answer = "ok"]
    /\ UNCHANGED <<mode, atomicLog, refused>>

\* Mutant: a cleanup that returned counts as verified, whatever its exit code.
CleanupByReturn ==
    /\ sim.phase = "cleanup"
    /\ \E answer \in SshAnswers, undone \in BOOLEAN :
         /\ answer = "ok" => undone
         /\ residue' = IF undone THEN residue \ {Current} ELSE residue
         /\ sim' = [sim EXCEPT !.phase = "log", !.verified = Answered(answer),
                               !.rc = sim.rc /\ Answered(answer)]
    /\ UNCHANGED <<mode, executed, atomicLog, refused>>

(* The cleanup follows any run that returned.  Its own time-out or error   *)
(* turns the run into a failure, whatever the test did, and leaves open    *)
(* whether it took place.                                                  *)
Cleanup ==
    /\ sim.phase = "cleanup"
    /\ \E answer \in SshAnswers, undone \in BOOLEAN :
         /\ answer = "ok" => undone
         /\ residue' = IF undone THEN residue \ {Current} ELSE residue
         /\ sim' = [sim EXCEPT !.phase = "log", !.verified = answer = "ok",
                               !.rc = sim.rc /\ Answered(answer)]
    /\ UNCHANGED <<mode, executed, atomicLog, refused>>

(* The outcome goes on record; only a test that succeeded is looked for.   *)
LogOutcome ==
    /\ sim.phase = "log"
    /\ LogExecution(IF sim.verified THEN "verified" ELSE "unverified")
    /\ sim' = IF sim.rc THEN [sim EXCEPT !.phase = "check"] ELSE Found(sim, FALSE, "none")
    /\ UNCHANGED <<mode, executed, residue>>

CheckDetection ==
    /\ sim.phase = "check"
    /\ \E d \in Detected : sim' = Found(sim, TRUE, d)
    /\ UNCHANGED <<mode, executed, residue, atomicLog, refused>>

(* any(check_detection(...) is False for g in guids): asks again for every *)
(* test, also for one that failed, and stops at the first empty answer.    *)
Recheck ==
    /\ sim.phase = "recheck"
    /\ \E d \in Detected :
         sim' = IF d = "no" THEN Report(sim, TRUE)
                ELSE IF sim.g < Len(Guids(sim)) THEN [sim EXCEPT !.g = sim.g + 1]
                ELSE Report(sim, FALSE)
    /\ UNCHANGED <<mode, executed, residue, atomicLog, refused>>

SimStep == PlanTest \/ RunTest \/ Cleanup \/ LogOutcome \/ CheckDetection \/ Recheck
=============================================================================
