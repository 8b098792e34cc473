------------------------------- MODULE Hunts -------------------------------
(***************************************************************************)
(* The three hunting engines.  The two jobs of the scheduler in            *)
(* pipeline_runner.py run insider hunts and default playbooks, and the API *)
(* runs the YAML playbooks.  No engine reads what another one writes: the  *)
(* records of siem-hunt-results are only shown, and each escalation is an  *)
(* invocation of the graph of its own (AlertPipeline has the graph).  So   *)
(* their interleavings are those of independent processes, and a behaviour *)
(* follows one of them.                                                    *)
(***************************************************************************)
EXTENDS InsiderHunts, HuntWindows, YamlHunts

VARIABLE engine

huntVars == <<cycle, result, last, now, time_window, due, matching, escalations, passedOver,
              faulted, directory, yaml, yamlRecords, engine>>

Engines == {"insider", "default", "yaml"}

Init ==
    /\ engine \in Engines
    /\ InsiderInit
    /\ IF engine = "default" THEN WindowsInit
       ELSE WindowsInit /\ time_window = CHOOSE w \in TimeWindows : TRUE
    /\ IF engine = "yaml" THEN YamlInit
       ELSE YamlInit /\ directory = CHOOSE d \in Directories : TRUE

InsiderJob == /\ engine = "insider"
              /\ StartInsiderCycle \/ InsiderStep \/ KillCycle \/ RestartAfterKill
              /\ UNCHANGED <<engine, windowVars, yamlVars>>

DefaultJob == /\ engine = "default"
              /\ WindowsStep
              /\ UNCHANGED <<engine, insiderVars, yamlVars>>

TriggerRequest == /\ engine = "yaml"
                  /\ TriggerHunt \/ YamlStep
                  /\ UNCHANGED <<engine, insiderVars, windowVars>>

Next == InsiderJob \/ DefaultJob \/ TriggerRequest

Spec == Init /\ [][Next]_huntVars

(* Every search has a time-out of ten seconds and every loop goes over a   *)
(* finite list.  The language model, asked for a summary and again in the  *)
(* graph an escalation invokes, has no time-out: that it answers or fails  *)
(* is assumed.  Then a cycle or a request that has begun goes on.          *)
FairSpec ==
    /\ Spec
    /\ WF_huntVars(engine = "insider" /\ InsiderStep /\ UNCHANGED <<engine, windowVars, yamlVars>>)
    /\ WF_huntVars(engine = "yaml" /\ YamlStep /\ UNCHANGED <<engine, insiderVars, windowVars>>)

(* The state of each engine has the shape its code gives it.               *)
TypeOK == InsiderTypeOK /\ WindowsTypeOK /\ YamlTypeOK /\ engine \in Engines

(* Nothing that fails on the way keeps a cycle of the insider hunts or a   *)
(* request from its end (run_all_insider_threat_hunts, run_all_yaml_hunts). *)
EveryCycleEnds == InsiderCycleEnds /\ RequestIsAnswered
=============================================================================
