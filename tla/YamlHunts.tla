----------------------------- MODULE YamlHunts -----------------------------
(***************************************************************************)
(* POST /api/v1/hunts/trigger: run_all_yaml_hunts of tools/hunt_loader.py  *)
(* reads every *.yml file of a directory, in the order of their names, and *)
(* then runs each playbook: search, record, escalation.  A file without a  *)
(* required field raises before any hunt has run.  The values of fields    *)
(* are not looked at: one that cannot be used raises when its playbook is  *)
(* run, and ends the request after the hunts before it.                    *)
(*                                                                         *)
(* Abstracted: the query's text, the baseline tags added to findings (they *)
(* change neither count nor escalation), the summary, and what exactly is  *)
(* wrong with a value.                                                     *)
(***************************************************************************)
EXTENDS Integers, Sequences

CONSTANTS
    Directories,    \* the contents a hunts directory may have: sequences of Files
    MaxFindings     \* bound: findings of one search

Files == [insider : BOOLEAN,          \* a file of insider_threat.py
          complete : BOOLEAN,         \* it has all REQUIRED_FIELDS
          aggregation : BOOLEAN, finding_threshold : Int, escalate_if_found : BOOLEAN,
          renders : BOOLEAN,          \* _render_query can fill in its window
          tags : BOOLEAN,             \* a baseline_check it enables has a baseline_type
          compares : BOOLEAN]         \* its finding_threshold is a number

ASSUME YamlAssumption == Directories \subseteq Seq(Files) /\ MaxFindings \in Nat

VARIABLES
    directory,
    yaml,           \* the request in progress
    yamlRecords     \* siem-hunt-results of this request, one per playbook

yamlVars == <<directory, yaml, yamlRecords>>

Ended == {"answered", "refused", "aborted"}
YamlPhases == Ended \union {"idle", "load",
               "search", "record", "record failure", "escalate", "next"}
Request == [phase : YamlPhases, at : Nat \ {0}, findings : 0..MaxFindings, aggregated : BOOLEAN,
            escalated : SUBSET DOMAIN directory, failed : SUBSET DOMAIN directory]
NoRequest == [phase |-> "idle", at |-> 1, findings |-> 0, aggregated |-> FALSE,
              escalated |-> {}, failed |-> {}]
Record == [findings : 0..MaxFindings, escalated : BOOLEAN, written : BOOLEAN]

Playbook == directory[yaml.at]

(* Every bucket of an aggregation passed the threshold inside the query.   *)
Meets(findings, aggregated) ==
    IF aggregated THEN findings >= 1 ELSE findings >= Playbook.finding_threshold
Judges(aggregated) == IF aggregated THEN Playbook.tags ELSE Playbook.compares
Escalates(findings, aggregated) == Playbook.escalate_if_found /\ Meets(findings, aggregated)

-----------------------------------------------------------------------------

YamlInit == directory \in Directories /\ yaml = NoRequest /\ yamlRecords = <<>>

TriggerHunt ==
    /\ yaml.phase \in Ended \union {"idle"}
    /\ yaml' = [NoRequest EXCEPT !.phase = IF directory = <<>> THEN "answered" ELSE "load"]
    /\ yamlRecords' = <<>>
    /\ UNCHANGED directory

LoadPlaybook ==
    /\ yaml.phase = "load"
    /\ yaml' = IF ~Playbook.complete THEN [yaml EXCEPT !.phase = "refused"]
               ELSE IF yaml.at < Len(directory) THEN [yaml EXCEPT !.at = yaml.at + 1]
               ELSE [yaml EXCEPT !.phase = "search", !.at = 1]
    /\ UNCHANGED <<directory, yamlRecords>>

\* Mutant: a playbook that cannot be run is passed over.
SearchForHuntOrNot ==
    /\ yaml.phase = "search"
    /\ \/ ~Playbook.renders /\ yaml' = [yaml EXCEPT !.phase = "next"]
       \/ Playbook.renders /\ \E n \in 0..MaxFindings, aggregated \in BOOLEAN :
            /\ aggregated => Playbook.aggregation
            /\ yaml' = IF Judges(aggregated)
                       THEN [yaml EXCEPT !.phase = "record", !.findings = n, !.aggregated = aggregated]
                       ELSE [yaml EXCEPT !.phase = "next"]
       \/ Playbook.renders /\ yaml' = [yaml EXCEPT !.phase = "record failure", !.findings = 0]
    /\ UNCHANGED <<directory, yamlRecords>>

(* The search; a response without aggregations counts hits, whatever the   *)
(* playbook meant.  An error of the search is recorded as no findings; one *)
(* before or after it raises through run_all_yaml_hunts.                   *)
SearchForHunt ==
    /\ yaml.phase = "search"
    /\ \/ ~Playbook.renders /\ yaml' = [yaml EXCEPT !.phase = "aborted"]
       \/ Playbook.renders /\ \E n \in 0..MaxFindings, aggregated \in BOOLEAN :
            /\ aggregated => Playbook.aggregation
            /\ yaml' = IF Judges(aggregated)
                       THEN [yaml EXCEPT !.phase = "record", !.findings = n, !.aggregated = aggregated]
                       ELSE [yaml EXCEPT !.phase = "aborted"]
       \/ Playbook.renders /\ yaml' = [yaml EXCEPT !.phase = "record failure", !.findings = 0]
    /\ UNCHANGED <<directory, yamlRecords>>

RecordHunt ==
    /\ yaml.phase \in {"record", "record failure"}
    /\ LET escalated == yaml.phase = "record" /\ Escalates(yaml.findings, yaml.aggregated)
       IN /\ \E written \in BOOLEAN :
               yamlRecords' = Append(yamlRecords,
                   [findings |-> yaml.findings, escalated |-> escalated, written |-> written])
          /\ yaml' = [yaml EXCEPT !.phase = IF escalated /\ yaml.findings > 0
                                            THEN "escalate" ELSE "next"]
    /\ UNCHANGED directory

(* escalate_hunt_to_triage never raises: it may fail, for want of the graph *)
(* or in it, and nobody looks at what it returns.                          *)
EscalateHunt ==
    /\ yaml.phase = "escalate"
    /\ \/ yaml' = [yaml EXCEPT !.phase = "next", !.escalated = yaml.escalated \union {yaml.at}]
       \/ yaml' = [yaml EXCEPT !.phase = "next", !.failed = yaml.failed \union {yaml.at}]
    /\ UNCHANGED <<directory, yamlRecords>>

NextPlaybook ==
    /\ yaml.phase = "next"
    /\ yaml' = IF yaml.at < Len(directory)
               THEN [yaml EXCEPT !.phase = "search", !.at = yaml.at + 1, !.findings = 0, !.aggregated = FALSE]
               ELSE [yaml EXCEPT !.phase = "answered", !.findings = 0, !.aggregated = FALSE]
    /\ UNCHANGED <<directory, yamlRecords>>

YamlStep == LoadPlaybook \/ SearchForHunt \/ RecordHunt \/ EscalateHunt \/ NextPlaybook

-----------------------------------------------------------------------------
(* Properties.                                                             *)

YamlTypeOK ==
    /\ directory \in Directories
    /\ yaml \in Request
    /\ yamlRecords \in Seq(Record)

(* A directory with a file that cannot be loaded runs no hunt at all.  An  *)
(* answered request has run every playbook once; one that was aborted, the *)
(* playbooks before the one that cannot be run, which may have escalated.  *)
RequestRunsInOrder ==
    /\ yaml.phase = "refused" => yamlRecords = <<>> /\ yaml.escalated = {} /\ ~Playbook.complete
    /\ yaml.phase = "aborted" => /\ Len(yamlRecords) = yaml.at - 1
                                /\ ~(Playbook.renders /\ Playbook.tags /\ Playbook.compares)
    /\ yaml.phase = "answered" => /\ Len(yamlRecords) = Len(directory)
                                 /\ \A i \in DOMAIN directory : directory[i].renders
    /\ yaml.phase \in {"aborted", "answered"} => \A i \in DOMAIN directory : directory[i].complete

(* When a request has ended, its records, written or not, say "escalated"  *)
(* of the hunts it escalated, of those whose escalation failed, and of     *)
(* those that found nothing where the threshold asks for nothing: there is *)
(* no finding then to escalate.  A hunt is escalated once or not at all.   *)
RecordsTellEscalations ==
    /\ yaml.escalated \intersect yaml.failed = {}
    /\ yaml.phase \in Ended => \A i \in DOMAIN yamlRecords :
          LET tried == i \in yaml.escalated \union yaml.failed
              vacuous == /\ yamlRecords[i].findings = 0
                         /\ directory[i].escalate_if_found /\ directory[i].finding_threshold <= 0
          IN /\ tried => yamlRecords[i].escalated
             /\ yamlRecords[i].escalated => tried \/ vacuous

(* No escalation of a hunt whose playbook forbids it, of one whose search  *)
(* failed, or, by hits, of fewer findings than its threshold.              *)
EscalationHasGrounds ==
    \A i \in yaml.escalated \union yaml.failed :
        /\ directory[i].escalate_if_found /\ yamlRecords[i].findings > 0
        /\ directory[i].aggregation \/ yamlRecords[i].findings >= directory[i].finding_threshold

(* A request of run_all_yaml_hunts does what its files ask for as far as   *)
(* they can be run, and tells what it did.                                 *)
RequestIsFaithful == RequestRunsInOrder /\ RecordsTellEscalations /\ EscalationHasGrounds

(* Whatever fails, a request ends.                                         *)
RequestIsAnswered == yaml.phase # "idle" ~> yaml.phase \in Ended

(* hunts/hunt_insider_credential_hoarding.yml says that the insider files  *)
(* are not loaded by this loader: they cannot be why a request is refused. *)
InsiderFilesAreNotLoaded == yaml.phase = "refused" => ~Playbook.insider
=============================================================================
