---------------------------- MODULE HuntsProofs ----------------------------
(***************************************************************************)
(* Proofs about Hunts: what the records of the two engines that keep one   *)
(* say, what the windows of the scheduler's hunts catch and repeat, and    *)
(* what a failed search can make the four insider detections get wrong.    *)
(***************************************************************************)
EXTENDS Hunts, FiniteSetTheorems, TLAPS

I == HUNT_INTERVAL_HOURS

-----------------------------------------------------------------------------
(* The windows of run_hunt.                                                *)

Timely(e) == matching[e] + I <= e + time_window
Covered(e) == escalations[e] > 0 \/ e \in passedOver

(* A cycle is due within one interval; the n-th escalation of an event lies *)
(* n - 1 intervals after it; and the next cycle after an event was indexed *)
(* has not been missed.                                                    *)
WindowsInv ==
    /\ WindowsTypeOK
    /\ now <= due /\ due <= now + I
    /\ \A e \in Happened :
         /\ e <= now
         /\ escalations[e] > 0 => e + escalations[e] * I <= due
         /\ escalations[e] > 0 => (escalations[e] - 1) * I <= time_window
         /\ Timely(e) /\ e \notin faulted /\ ~Covered(e) => due <= matching[e] + I

LEMMA OneMore == ASSUME NEW n \in Nat, NEW k \in Nat
                 PROVE  /\ (n + 1) * k = n * k + k
                        /\ (n + 1) - 1 = n
                        /\ n * k \in Nat
  OBVIOUS

LEMMA WindowsStart == WindowsInit => WindowsInv
  BY WindowsAssumption DEF WindowsInit, WindowsInv, WindowsTypeOK, Happened, Hours, I

LEMMA WindowsKept == ASSUME WindowsInv, WindowsStep PROVE WindowsInv'
<1> USE WindowsAssumption DEF I
<1>t. /\ I \in Nat \ {0} /\ time_window \in Nat /\ now \in Nat /\ due \in Nat
      /\ \A e \in Happened : e \in Nat /\ matching[e] \in Nat /\ escalations[e] \in Nat
  BY DEF WindowsInv, WindowsTypeOK, Hours
<1>1. CASE Tick
  <2>1. WindowsTypeOK'
    BY <1>1, <1>t DEF Tick, WindowsInv, WindowsTypeOK, Hours, Happened
  <2> QED
    BY <1>1, <1>t, <2>1 DEF Tick, WindowsInv, Happened, Timely, Covered
<1>2. CASE Event
  <2>0. PICK delay \in 0..MaxDelay :
          matching' = [e \in Happened \union {now} |-> IF e = now THEN now + delay ELSE matching[e]]
    BY <1>2 DEF Event
  <2>1. /\ Happened' = Happened \union {now}
        /\ \A e \in Happened : matching'[e] = matching[e] /\ escalations'[e] = escalations[e]
        /\ matching'[now] = now + delay /\ escalations'[now] = 0
        /\ delay \in Nat
    BY <1>2, <2>0, <1>t DEF Event, Happened
  <2>2. WindowsTypeOK'
    <3>1. matching' \in [Happened' -> Nat] /\ escalations' \in [Happened' -> Nat]
      BY <1>2, <1>t, <2>0, <2>1 DEF Event, WindowsInv, WindowsTypeOK
    <3>2. Happened' \subseteq Hours'
      BY <2>1 DEF WindowsInv, WindowsTypeOK, Hours
    <3> QED BY <3>1, <3>2, <1>2 DEF Event, WindowsInv, WindowsTypeOK, Hours
  <2>3. ASSUME NEW e \in Happened'
        PROVE  /\ e <= now'
               /\ escalations'[e] > 0 => e + escalations'[e] * I <= due'
               /\ escalations'[e] > 0 => (escalations'[e] - 1) * I <= time_window'
               /\ Timely(e)' /\ e \notin faulted' /\ ~Covered(e)' => due' <= matching'[e] + I
    <3>1. CASE e = now
      BY <3>1, <2>1, <1>t, <1>2 DEF Event, WindowsInv
    <3>2. CASE e \in Happened
      BY <3>2, <2>1, <1>t, <1>2 DEF Event, WindowsInv, Timely, Covered
    <3> QED BY <3>1, <3>2, <2>1
  <2> QED BY <2>2, <2>3, <1>2 DEF Event, WindowsInv
<1>3. CASE RunHunt
  <2>0. now' = now /\ now = due /\ due' = due + I /\ matching' = matching
        /\ time_window' = time_window /\ faulted' = faulted
    BY <1>3 DEF RunHunt
  <2>1. \A e \in Happened :
          \/ escalations'[e] = escalations[e] /\ e \notin Hits
          \/ escalations'[e] = escalations[e] + 1 /\ e \in Hits
          \/ escalations'[e] = escalations[e] /\ e \in Hits /\ e \in passedOver'
    <3>1. escalations \in [Happened -> Nat] /\ Hits \subseteq Happened
      BY DEF WindowsInv, WindowsTypeOK, Hits, InWindow
    <3>2. CASE Hits = {} /\ UNCHANGED escalations
      BY <3>2
    <3>3. ASSUME NEW top \in Hits, escalations' = [escalations EXCEPT ![top] = @ + 1],
                 passedOver' = passedOver \union (Hits \ {top})
          PROVE  \A e \in Happened :
                   \/ escalations'[e] = escalations[e] /\ e \notin Hits
                   \/ escalations'[e] = escalations[e] + 1 /\ e \in Hits
                   \/ escalations'[e] = escalations[e] /\ e \in Hits /\ e \in passedOver'
      BY <3>1, <3>3
    <3> QED BY <1>3, <3>2, <3>3 DEF RunHunt
  <2>2. passedOver \subseteq passedOver' /\ passedOver' \subseteq Hours
    <3>1. Hits \subseteq Hours
      BY DEF Hits, InWindow, WindowsInv, WindowsTypeOK
    <3> QED BY <3>1, <1>3 DEF RunHunt, WindowsInv, WindowsTypeOK
  <2>3. WindowsTypeOK'
    <3>1. escalations' \in [Happened -> Nat]
      BY <1>3, <1>t DEF RunHunt, WindowsInv, WindowsTypeOK, Hits, InWindow
    <3> QED BY <3>1, <2>0, <2>2, <1>t DEF WindowsInv, WindowsTypeOK, Hours, Happened
  <2>4. ASSUME NEW e \in Happened
        PROVE  /\ e <= now'
               /\ escalations'[e] > 0 => e + escalations'[e] * I <= due'
               /\ escalations'[e] > 0 => (escalations'[e] - 1) * I <= time_window'
               /\ Timely(e)' /\ e \notin faulted' /\ ~Covered(e)' => due' <= matching'[e] + I
    <3>1. e <= now'
      BY <2>0 DEF WindowsInv
    <3>2. (e \in Hits) <=> (e + time_window >= now /\ matching[e] <= now)
      BY DEF Hits, InWindow
    <3>3. CASE escalations'[e] = escalations[e] + 1 /\ e \in Hits
      <4> DEFINE n == escalations[e]
      <4>1. n \in Nat /\ (n + 1) * I = n * I + I /\ (n + 1) - 1 = n /\ n * I \in Nat
        BY <1>t, OneMore
      <4>2. e + n * I <= due
        <5>1. CASE n = 0
          BY <5>1, <1>t, <2>0 DEF WindowsInv
        <5>2. CASE n > 0
          BY <5>2 DEF WindowsInv
        <5> QED BY <5>1, <5>2, <4>1
      <4>3. e + escalations'[e] * I <= due'
        <5> HIDE DEF n, I
        <5>1. escalations'[e] * I = n * I + I
          BY <3>3, <4>1 DEF n
        <5> QED BY <5>1, <4>1, <4>2, <2>0, <1>t
      <4>4. (escalations'[e] - 1) * I <= time_window'
        <5> HIDE DEF I
        <5>1. (escalations'[e] - 1) * I = n * I
          BY <3>3, <4>1
        <5> HIDE DEF n
        <5> QED BY <5>1, <4>1, <4>2, <2>0, <1>t, <3>2, <3>3
      <4> QED BY <4>3, <4>4, <3>1, <3>3, <1>t DEF Covered
    <3>4. CASE escalations'[e] = escalations[e]
      <4> DEFINE m == escalations[e] * I
      <4>1. m \in Nat
        BY <1>t
      <4>2. escalations'[e] > 0 => e + escalations'[e] * I <= due'
        <5>1. ASSUME escalations[e] > 0 PROVE e + m <= due
          BY <5>1 DEF WindowsInv
        <5> HIDE DEF m
        <5>2. ASSUME escalations[e] > 0 PROVE e + m <= due'
          BY <5>1, <5>2, <4>1, <1>t, <2>0
        <5> QED BY <5>2, <3>4 DEF m
      <4>3. escalations'[e] > 0 => (escalations'[e] - 1) * I <= time_window'
        BY <3>4, <2>0 DEF WindowsInv
      <4>4. Timely(e)' /\ e \notin faulted' /\ ~Covered(e)' => due' <= matching'[e] + I
        <5>1. ASSUME Timely(e)', e \notin faulted', ~Covered(e)'
              PROVE  due' <= matching'[e] + I
          <6>1. Timely(e) /\ e \notin faulted /\ ~Covered(e) /\ e \notin Hits
            BY <5>1, <2>0, <2>1, <2>2, <3>4, <1>t DEF Timely, Covered
          <6>2. due <= matching[e] + I
            BY <6>1 DEF WindowsInv
          <6> QED BY <6>1, <6>2, <3>2, <2>0, <1>t DEF Timely
        <5> QED BY <5>1
      <4> QED BY <3>1, <4>2, <4>3, <4>4
    <3> QED BY <3>3, <3>4, <2>1
  <2> QED BY <2>0, <2>3, <2>4, <1>t DEF WindowsInv, Happened
<1>4. ASSUME \/ HuntFails \/ RestartScheduler
      PROVE  WindowsInv'
  <2>0. /\ now' = now /\ due' = now + I /\ due <= due' /\ due' \in Nat
        /\ matching' = matching /\ escalations' = escalations /\ time_window' = time_window
        /\ passedOver' = passedOver /\ faulted' = faulted \union InWindow
    BY <1>4, <1>t DEF HuntFails, RestartScheduler, WindowsInv
  <2>1. WindowsTypeOK'
    BY <2>0 DEF WindowsInv, WindowsTypeOK, Hours, Happened, InWindow
  <2>2. ASSUME NEW e \in Happened
        PROVE  /\ e <= now'
               /\ escalations'[e] > 0 => e + escalations'[e] * I <= due'
               /\ escalations'[e] > 0 => (escalations'[e] - 1) * I <= time_window'
               /\ Timely(e)' /\ e \notin faulted' /\ ~Covered(e)' => due' <= matching'[e] + I
    <3> DEFINE m == escalations[e] * I
    <3>1. m \in Nat
      BY <1>t
    <3>2. escalations[e] > 0 => e + m <= due
      BY DEF WindowsInv
    <3>3. escalations[e] > 0 => e + m <= due'
      <4> HIDE DEF m
      <4> QED BY <3>1, <3>2, <2>0, <1>t
    <3>4. ASSUME Timely(e)', e \notin faulted', ~Covered(e)'
          PROVE  due' <= matching'[e] + I
      <4>1. Timely(e) /\ e \notin faulted /\ ~Covered(e) /\ e \notin InWindow
        BY <3>4, <2>0 DEF Timely, Covered
      <4>2. due <= matching[e] + I /\ now > e + time_window
        BY <4>1, <1>t DEF WindowsInv, InWindow
      <4> QED BY <4>1, <4>2, <2>0, <1>t DEF Timely, WindowsInv
    <3> QED BY <3>3, <3>4, <2>0 DEF WindowsInv
  <2> QED BY <2>0, <2>1, <2>2, <1>t DEF WindowsInv, Happened
<1> QED BY <1>1, <1>2, <1>3, <1>4 DEF WindowsStep

LEMMA WindowsSame == ASSUME WindowsInv, UNCHANGED windowVars PROVE WindowsInv'
  BY DEF WindowsInv, windowVars, WindowsTypeOK, Hours, Happened, Timely, Covered

LEMMA WindowsMeaning == WindowsInv => RepeatsAreBounded /\ NoTimelyEventIsLost
<1> SUFFICES ASSUME WindowsInv PROVE RepeatsAreBounded /\ NoTimelyEventIsLost
  OBVIOUS
<1> USE WindowsAssumption DEF I
<1>1. RepeatsAreBounded
  BY DEF WindowsInv, RepeatsAreBounded
<1>2. /\ I \in Nat \ {0} /\ time_window \in Nat /\ now \in Nat /\ due \in Nat
      /\ \A e \in Happened : e \in Nat /\ matching[e] \in Nat /\ escalations[e] \in Nat
  BY DEF WindowsInv, WindowsTypeOK, Hours
<1>3. NoTimelyEventIsLost
  BY <1>2 DEF WindowsInv, NoTimelyEventIsLost, Timely, Covered
<1> QED BY <1>1, <1>3
-----------------------------------------------------------------------------
(* The request that runs the YAML playbooks.                               *)

Running == {"search", "record", "record failure", "escalate", "next"}
Grounds(i) ==
    /\ directory[i].escalate_if_found /\ yamlRecords[i].findings > 0
    /\ directory[i].aggregation \/ yamlRecords[i].findings >= directory[i].finding_threshold

Vacuous(i) ==
    yamlRecords[i].findings = 0 /\ directory[i].escalate_if_found /\ directory[i].finding_threshold <= 0

(* A record that says "escalated" has its grounds or nothing to escalate,  *)
(* and either its escalation or the step that makes it still ahead.        *)
RecordsOK ==
    /\ yaml.escalated \union yaml.failed \subseteq DOMAIN yamlRecords
    /\ yaml.escalated \intersect yaml.failed = {}
    /\ \A i \in DOMAIN yamlRecords :
         /\ i \in yaml.escalated \union yaml.failed => yamlRecords[i].escalated /\ Grounds(i)
         /\ yamlRecords[i].escalated => \/ i \in yaml.escalated \union yaml.failed \/ Vacuous(i)
                                        \/ yaml.phase = "escalate" /\ i = yaml.at

(* The playbook at hand is one of the directory, and those before it were  *)
(* recorded.                                                               *)
YamlInv ==
    /\ YamlTypeOK
    /\ yaml.phase \in Running \union {"load"} => yaml.at \in DOMAIN directory
    /\ yaml.phase \in {"idle", "load", "refused"} => yamlRecords = <<>>
    /\ yaml.phase = "refused" => ~Playbook.complete
    /\ yaml.phase = "search" => \A i \in 1..(yaml.at - 1) : directory[i].renders
    /\ yaml.phase \in Running \ {"search"} => \A i \in 1..yaml.at : directory[i].renders
    /\ yaml.phase = "answered" => \A i \in DOMAIN directory : directory[i].renders
    /\ yaml.phase = "aborted" => ~(Playbook.renders /\ Playbook.tags /\ Playbook.compares)
    /\ yaml.phase = "load" => \A i \in 1..(yaml.at - 1) : directory[i].complete
    /\ yaml.phase \in Running \union {"answered", "aborted"} => \A i \in DOMAIN directory : directory[i].complete
    /\ yaml.phase \in {"search", "record", "record failure", "aborted"} => Len(yamlRecords) = yaml.at - 1
    /\ yaml.phase \in {"escalate", "next"} => Len(yamlRecords) = yaml.at
    /\ yaml.phase = "answered" => Len(yamlRecords) = Len(directory)
    /\ yaml.phase = "record" /\ yaml.aggregated => Playbook.aggregation
    /\ yaml.phase = "escalate" => /\ yamlRecords[yaml.at].escalated /\ Grounds(yaml.at)
                                 /\ yaml.at \notin yaml.escalated \union yaml.failed
    /\ RecordsOK

(* One field of a request at a time.                                       *)
LEMMA Move ==
    ASSUME NEW y \in Request, NEW p \in YamlPhases
    PROVE  LET z == [y EXCEPT !.phase = p]
           IN z \in Request /\ z.phase = p /\ z.at = y.at /\ z.escalated = y.escalated /\ z.failed = y.failed /\ z.aggregated = y.aggregated
  BY DEF Request

LEMMA MoveAt ==
    ASSUME NEW y \in Request, NEW a \in Nat \ {0}
    PROVE  LET z == [y EXCEPT !.at = a]
           IN z \in Request /\ z.phase = y.phase /\ z.at = a /\ z.escalated = y.escalated /\ z.failed = y.failed
  BY DEF Request

LEMMA MoveFound ==
    ASSUME NEW y \in Request, NEW n \in 0..MaxFindings
    PROVE  LET z == [y EXCEPT !.findings = n]
           IN z \in Request /\ z.phase = y.phase /\ z.at = y.at /\ z.escalated = y.escalated /\ z.failed = y.failed
  BY DEF Request

LEMMA MoveKind ==
    ASSUME NEW y \in Request, NEW b \in BOOLEAN
    PROVE  LET z == [y EXCEPT !.aggregated = b]
           IN z \in Request /\ z.phase = y.phase /\ z.at = y.at /\ z.escalated = y.escalated /\ z.failed = y.failed /\ z.aggregated = b
  BY DEF Request

LEMMA FreshRequest ==
    /\ NoRequest \in Request /\ 1 \in Nat \ {0} /\ 0 \in 0..MaxFindings
    /\ NoRequest.phase = "idle" /\ NoRequest.at = 1 /\ NoRequest.escalated = {} /\ NoRequest.failed = {}
  BY YamlAssumption DEF NoRequest, Request, YamlPhases, Ended

LEMMA ElementOfSeq == ASSUME NEW S, NEW q \in Seq(S), NEW i \in DOMAIN q
                      PROVE  q[i] \in S
  OBVIOUS

LEMMA DirectoryType ==
    ASSUME YamlTypeOK
    PROVE  /\ directory \in Seq(Files) /\ yamlRecords \in Seq(Record) /\ yaml \in Request
           /\ DOMAIN directory = 1..Len(directory) /\ Len(directory) \in Nat
           /\ DOMAIN yamlRecords = 1..Len(yamlRecords) /\ Len(yamlRecords) \in Nat
           /\ yaml.at \in Nat \ {0} /\ yaml.findings \in 0..MaxFindings /\ yaml.aggregated \in BOOLEAN
  <1>1. directory \in Seq(Files) /\ yamlRecords \in Seq(Record)
    BY YamlAssumption DEF YamlTypeOK
  <1>2. yaml \in Request
    BY DEF YamlTypeOK, Request
  <1> QED BY <1>1, <1>2 DEF Request

LEMMA YamlStart == YamlInit => YamlInv
  <1> SUFFICES ASSUME YamlInit PROVE YamlInv
    OBVIOUS
  <1>1. yaml = NoRequest /\ yamlRecords = <<>> /\ directory \in Directories
    BY DEF YamlInit
  <1>2. YamlTypeOK
    BY <1>1, FreshRequest DEF YamlTypeOK
  <1>3. RecordsOK
    BY <1>1, FreshRequest DEF RecordsOK
  <1> QED BY <1>1, <1>2, <1>3, FreshRequest DEF YamlInv, Running

LEMMA YamlKept == ASSUME YamlInv, TriggerHunt \/ YamlStep PROVE YamlInv'
<1> USE YamlAssumption
<1>t. /\ directory \in Seq(Files) /\ yamlRecords \in Seq(Record) /\ yaml \in Request
      /\ DOMAIN directory = 1..Len(directory) /\ Len(directory) \in Nat
      /\ DOMAIN yamlRecords = 1..Len(yamlRecords) /\ Len(yamlRecords) \in Nat
      /\ yaml.at \in Nat \ {0} /\ yaml.findings \in 0..MaxFindings /\ yaml.aggregated \in BOOLEAN
      /\ directory \in Directories
  BY DirectoryType DEF YamlInv, YamlTypeOK
<1>r. yaml \in Request
  BY <1>t
<1>f. /\ 1 \in Nat \ {0} /\ 0 \in 0..MaxFindings /\ FALSE \in BOOLEAN
      /\ {"answered", "load", "refused", "aborted", "search", "record", "record failure", "escalate", "next"}
            \subseteq YamlPhases
  BY FreshRequest DEF YamlPhases, Ended
<1>d. directory' = directory
  BY DEF TriggerHunt, YamlStep, LoadPlaybook, SearchForHunt, RecordHunt, EscalateHunt, NextPlaybook
<1>y. ASSUME yaml' \in Request, yamlRecords' \in Seq(Record) PROVE YamlTypeOK'
  BY <1>y, <1>d, <1>t DEF YamlTypeOK, Request
<1>n. ASSUME yamlRecords' = <<>>, yaml'.escalated = {} /\ yaml'.failed = {} PROVE RecordsOK'
  BY <1>n DEF RecordsOK
<1>k. ASSUME yamlRecords' = yamlRecords, yaml'.escalated = yaml.escalated /\ yaml'.failed = yaml.failed,
             yaml.phase # "escalate", yaml'.phase # "escalate"
      PROVE  RecordsOK'
  BY <1>k, <1>d DEF RecordsOK, YamlInv, Grounds, Vacuous
<1>1. CASE TriggerHunt
  <2>1. PICK p \in {"answered", "load"} :
          /\ yaml' = [NoRequest EXCEPT !.phase = p]
          /\ p = "answered" <=> directory = <<>>
    BY <1>1 DEF TriggerHunt
  <2>2. yaml' \in Request /\ yaml'.phase = p /\ yaml'.at = 1 /\ yaml'.escalated = {} /\ yaml'.failed = {}
    <3>1. p \in YamlPhases
      BY <1>f
    <3> QED BY <2>1, <3>1, FreshRequest, Move
  <2>3. yamlRecords' = <<>>
    BY <1>1 DEF TriggerHunt
  <2>4. YamlTypeOK'
    BY <1>y, <2>2, <2>3
  <2>5. p = "load" => 1 \in DOMAIN directory
    BY <2>1, <1>t
  <2>6. Len(yamlRecords') = 0 /\ (directory = <<>> => Len(directory) = 0)
    BY <2>3
  <2>7. RecordsOK'
    BY <1>n, <2>2, <2>3
  <2>8. p = "answered" => \A i \in DOMAIN directory : directory[i].complete /\ directory[i].renders
    <3>1. directory = <<>> => DOMAIN directory = {}
      OBVIOUS
    <3> QED BY <2>1, <3>1
  <2>9. CASE p = "answered"
    <3>1. Len(yamlRecords') = Len(directory')
      BY <2>1, <2>6, <2>9, <1>d
    <3> QED BY <3>1, <2>2, <2>4, <2>7, <2>8, <2>9, <1>d DEF YamlInv, Running
  <2>10. CASE p = "load"
    <3>1. 1..(yaml'.at - 1) = {}
      BY <2>2
    <3> QED BY <3>1, <2>2, <2>3, <2>4, <2>5, <2>7, <2>10, <1>d DEF YamlInv, Running
  <2> QED BY <2>9, <2>10
<1>2. CASE LoadPlaybook
  <2>0. yaml.phase = "load" /\ yamlRecords' = yamlRecords /\ yamlRecords = <<>>
        /\ yaml.at \in DOMAIN directory /\ yaml.escalated = {} /\ yaml.failed = {}
    <3>1. yaml.phase = "load" /\ yamlRecords' = yamlRecords /\ yamlRecords = <<>>
          /\ yaml.at \in DOMAIN directory
      BY <1>2 DEF LoadPlaybook, YamlInv
    <3>2. yaml.escalated \union yaml.failed \subseteq DOMAIN yamlRecords
      BY DEF YamlInv, RecordsOK
    <3>3. DOMAIN yamlRecords = {}
      BY <3>1
    <3> QED BY <3>1, <3>2, <3>3
  <2>1. CASE ~Playbook.complete
    <3>1. yaml' = [yaml EXCEPT !.phase = "refused"]
      BY <1>2, <2>1 DEF LoadPlaybook
    <3>2. yaml' \in Request /\ yaml'.phase = "refused" /\ yaml'.escalated = {} /\ yaml'.failed = {}
          /\ yaml'.at = yaml.at
      BY <3>1, <1>r, <1>f, <2>0, Move
    <3>3. YamlTypeOK' /\ RecordsOK'
      BY <3>2, <1>y, <1>n, <2>0, <1>t
    <3>4. ~Playbook'.complete
      BY <2>1, <3>2, <1>d DEF Playbook
    <3> QED BY <3>2, <3>3, <3>4, <2>0 DEF YamlInv, Running
  <2>2. CASE Playbook.complete /\ yaml.at < Len(directory)
    <3>1. yaml' = [yaml EXCEPT !.at = yaml.at + 1]
      BY <1>2, <2>2 DEF LoadPlaybook
    <3>2. yaml' \in Request /\ yaml'.phase = "load" /\ yaml'.escalated = {} /\ yaml'.failed = {} /\ yaml'.at = yaml.at + 1
      <4>1. yaml.at + 1 \in Nat \ {0}
        BY <1>t
      <4> QED BY <3>1, <4>1, <1>r, <2>0, MoveAt
    <3>3. \A i \in 1..(yaml'.at - 1) : directory[i].complete
      BY <3>2, <2>0, <2>2, <1>t DEF YamlInv, Playbook
    <3>4. yaml'.at \in DOMAIN directory
      BY <3>2, <2>2, <1>t
    <3>5. YamlTypeOK' /\ RecordsOK'
      BY <3>2, <1>y, <1>n, <2>0, <1>t
    <3> QED BY <3>2, <3>3, <3>4, <3>5, <1>d, <2>0 DEF YamlInv, Running
  <2>3. CASE Playbook.complete /\ ~(yaml.at < Len(directory))
    <3>1. yaml' = [yaml EXCEPT !.phase = "search", !.at = 1]
      BY <1>2, <2>3 DEF LoadPlaybook
    <3>2. yaml' \in Request /\ yaml'.phase = "search" /\ yaml'.escalated = {} /\ yaml'.failed = {} /\ yaml'.at = 1
      <4> DEFINE y == [yaml EXCEPT !.phase = "search"]
      <4>1. y \in Request /\ y.phase = "search" /\ y.escalated = {} /\ y.failed = {}
        BY <1>r, <1>f, <2>0, Move
      <4>2. yaml' = [y EXCEPT !.at = 1]
        BY <3>1
      <4> HIDE DEF y
      <4> QED BY <4>1, <4>2, <1>f, MoveAt
    <3>3. \A i \in DOMAIN directory : directory[i].complete
      BY <2>0, <2>3, <1>t DEF YamlInv, Playbook
    <3>4. 1 \in DOMAIN directory
      BY <2>0, <1>t
    <3>5. YamlTypeOK' /\ RecordsOK'
      BY <3>2, <1>y, <1>n, <2>0, <1>t
    <3>6. Len(yamlRecords') = yaml'.at - 1 /\ 1..(yaml'.at - 1) = {}
      BY <3>2, <2>0
    <3> QED BY <3>2, <3>3, <3>4, <3>5, <3>6, <1>d, <2>0 DEF YamlInv, Running
  <2> QED BY <2>1, <2>2, <2>3
<1>3. CASE SearchForHunt
  <2>0. yaml.phase = "search" /\ yamlRecords' = yamlRecords /\ yaml.at \in DOMAIN directory
    BY <1>3 DEF SearchForHunt, YamlInv, Running
  <2>p. Playbook' = directory[yaml'.at]
    BY <1>d DEF Playbook
  <2>1. CASE yaml' = [yaml EXCEPT !.phase = "aborted"]
    <3>1. ~(Playbook.renders /\ Playbook.tags /\ Playbook.compares)
      <4>1. CASE Playbook.renders /\ yaml' = [yaml EXCEPT !.phase = "record failure", !.findings = 0]
        <5>1. yaml'.phase = "record failure" /\ yaml'.phase = "aborted"
          BY <4>1, <2>1, <1>r DEF Request
        <5> QED BY <5>1
      <4>2. ASSUME NEW n \in 0..MaxFindings, NEW b \in BOOLEAN, Judges(b),
                   yaml' = [yaml EXCEPT !.phase = "record", !.findings = n, !.aggregated = b]
            PROVE  FALSE
        <5>1. yaml'.phase = "record" /\ yaml'.phase = "aborted"
          BY <4>2, <2>1, <1>r DEF Request
        <5> QED BY <5>1
      <4> QED BY <1>3, <4>1, <4>2 DEF SearchForHunt, Judges
    <3>2. yaml' \in Request /\ yaml'.phase = "aborted" /\ yaml'.at = yaml.at
          /\ yaml'.escalated = yaml.escalated /\ yaml'.failed = yaml.failed
      BY <2>1, <1>r, <1>f, Move
    <3>3. YamlTypeOK' /\ RecordsOK'
      BY <2>0, <3>2, <1>y, <1>k, <1>t
    <3>4. Playbook' = Playbook
      BY <3>2, <1>d DEF Playbook
    <3> QED BY <2>0, <3>1, <3>2, <3>3, <3>4, <1>d DEF YamlInv, Running
  <2>2. CASE ~(yaml' = [yaml EXCEPT !.phase = "aborted"])
    <3>1. /\ yaml' \in Request /\ yaml'.phase \in {"record", "record failure"}
          /\ yaml'.at = yaml.at /\ yaml'.escalated = yaml.escalated /\ yaml'.failed = yaml.failed
          /\ yaml'.phase = "record" /\ yaml'.aggregated => Playbook.aggregation
          /\ Playbook.renders
      <4>1. CASE Playbook.renders /\ yaml' = [yaml EXCEPT !.phase = "record failure", !.findings = 0]
        <5> DEFINE y == [yaml EXCEPT !.phase = "record failure"]
        <5>1. y \in Request /\ y.phase = "record failure" /\ y.at = yaml.at
              /\ y.escalated = yaml.escalated /\ y.failed = yaml.failed
          BY <1>r, <1>f, Move
        <5>2. yaml' = [y EXCEPT !.findings = 0]
          BY <4>1
        <5> HIDE DEF y
        <5>3. yaml' \in Request /\ yaml'.phase = "record failure" /\ yaml'.at = yaml.at
              /\ yaml'.escalated = yaml.escalated /\ yaml'.failed = yaml.failed
          BY <5>1, <5>2, <1>f, MoveFound
        <5>4. "record failure" # "record"
          OBVIOUS
        <5> QED BY <4>1, <5>3, <5>4
      <4>2. ASSUME NEW n \in 0..MaxFindings, NEW b \in BOOLEAN, b => Playbook.aggregation,
                   yaml' = [yaml EXCEPT !.phase = "record", !.findings = n, !.aggregated = b]
            PROVE  /\ yaml' \in Request /\ yaml'.phase = "record" /\ yaml'.aggregated = b
                   /\ yaml'.at = yaml.at /\ yaml'.escalated = yaml.escalated /\ yaml'.failed = yaml.failed
        <5> DEFINE y == [yaml EXCEPT !.phase = "record"]
                   z == [y EXCEPT !.findings = n]
        <5>1. y \in Request /\ y.phase = "record" /\ y.at = yaml.at
              /\ y.escalated = yaml.escalated /\ y.failed = yaml.failed
          BY <1>r, <1>f, Move
        <5>2. yaml' = [z EXCEPT !.aggregated = b]
          BY <4>2
        <5> HIDE DEF y
        <5>3. z \in Request /\ z.phase = "record" /\ z.at = yaml.at
              /\ z.escalated = yaml.escalated /\ z.failed = yaml.failed
          BY <5>1, MoveFound
        <5> HIDE DEF z
        <5> QED BY <5>2, <5>3, MoveKind
      <4>3. \/ Playbook.renders /\ yaml' = [yaml EXCEPT !.phase = "record failure", !.findings = 0]
            \/ Playbook.renders /\ \E n \in 0..MaxFindings, b \in BOOLEAN :
                  (b => Playbook.aggregation) /\ yaml' = [yaml EXCEPT !.phase = "record", !.findings = n, !.aggregated = b]
        BY <1>3, <2>2 DEF SearchForHunt
      <4> QED BY <4>1, <4>2, <4>3
    <3>2. YamlTypeOK' /\ RecordsOK'
      BY <2>0, <3>1, <1>y, <1>k, <1>t
    <3>3. Playbook' = Playbook /\ Playbook = directory[yaml.at]
      BY <3>1, <1>d DEF Playbook
    <3>4. \A i \in 1..yaml.at : directory[i].renders
      <4>1. \A i \in 1..yaml.at : i \in 1..(yaml.at - 1) \/ i = yaml.at
        BY <1>t
      <4> QED BY <4>1, <2>0, <3>1, <3>3 DEF YamlInv
    <3> QED BY <2>0, <3>1, <3>2, <3>3, <3>4, <1>d DEF YamlInv, Running
  <2> QED BY <2>1, <2>2
<1>4. CASE RecordHunt
  <2> DEFINE escalated == yaml.phase = "record" /\ Escalates(yaml.findings, yaml.aggregated)
             p == IF escalated /\ yaml.findings > 0 THEN "escalate" ELSE "next"
  <2>0. yaml.phase \in {"record", "record failure"} /\ Len(yamlRecords) = yaml.at - 1
        /\ yaml.at \in DOMAIN directory
    BY <1>4 DEF RecordHunt, YamlInv, Running
  <2>1. PICK written \in BOOLEAN :
          yamlRecords' = Append(yamlRecords,
              [findings |-> yaml.findings, escalated |-> escalated, written |-> written])
    BY <1>4 DEF RecordHunt
  <2>2. yaml' = [yaml EXCEPT !.phase = p] /\ escalated \in BOOLEAN
    BY <1>4 DEF RecordHunt
  <2>3. escalated =>
          \/ yaml.findings = 0 /\ Playbook.escalate_if_found /\ Playbook.finding_threshold <= 0
          \/ /\ Playbook.escalate_if_found /\ yaml.findings > 0
             /\ Playbook.aggregation \/ yaml.findings >= Playbook.finding_threshold
    <3>1. Playbook \in Files
      BY <2>0, <1>t, ElementOfSeq DEF Playbook
    <3>2. Playbook.finding_threshold \in Int
      BY <3>1 DEF Files
    <3> QED BY <3>2, <2>0, <1>t DEF Escalates, Meets, YamlInv
  <2> HIDE DEF escalated
  <2>4. yaml' \in Request /\ yaml'.phase = p /\ p \in {"escalate", "next"}
        /\ yaml'.at = yaml.at /\ yaml'.escalated = yaml.escalated /\ yaml'.failed = yaml.failed
        /\ (p = "escalate" <=> escalated /\ yaml.findings > 0)
    <3>1. p \in YamlPhases /\ p \in {"escalate", "next"} /\ (p = "escalate" <=> escalated /\ yaml.findings > 0)
      BY <1>f
    <3> HIDE DEF p
    <3> QED BY <2>2, <3>1, <1>r, Move
  <2> HIDE DEF p
  <2>5. /\ yamlRecords' \in Seq(Record) /\ Len(yamlRecords') = yaml.at
        /\ \A i \in DOMAIN yamlRecords : yamlRecords'[i] = yamlRecords[i]
        /\ yamlRecords'[yaml.at].findings = yaml.findings /\ yamlRecords'[yaml.at].escalated = escalated
        /\ DOMAIN yamlRecords' = DOMAIN yamlRecords \union {yaml.at} /\ yaml.at \notin DOMAIN yamlRecords
    <3> DEFINE r == [findings |-> yaml.findings, escalated |-> escalated, written |-> written]
    <3>1. r \in Record /\ r.findings = yaml.findings /\ r.escalated = escalated
      BY <2>2, <1>t DEF Record
    <3> HIDE DEF r
    <3>2. yamlRecords' = Append(yamlRecords, r)
      BY <2>1 DEF r
    <3>3. yamlRecords' \in Seq(Record) /\ Len(yamlRecords') = Len(yamlRecords) + 1
          /\ yamlRecords'[Len(yamlRecords) + 1] = r
          /\ \A i \in DOMAIN yamlRecords : yamlRecords'[i] = yamlRecords[i]
      BY <3>1, <3>2, <1>t
    <3>4. DOMAIN yamlRecords' = 1..Len(yamlRecords')
      BY <3>3
    <3>5. Len(yamlRecords) + 1 = yaml.at /\ DOMAIN yamlRecords = 1..(yaml.at - 1)
      <4> DEFINE a == yaml.at
                 k == Len(yamlRecords)
      <4>1. a \in Nat \ {0} /\ k = a - 1 /\ DOMAIN yamlRecords = 1..k
        BY <2>0, <1>t
      <4> HIDE DEF a, k
      <4>2. k + 1 = a
        BY <4>1
      <4> QED BY <4>1, <4>2 DEF a, k
    <3>6. 1..yaml.at = 1..(yaml.at - 1) \union {yaml.at} /\ yaml.at \notin 1..(yaml.at - 1)
      BY <1>t
    <3> QED BY <3>1, <3>3, <3>4, <3>5, <3>6
  <2>6. YamlTypeOK'
    BY <2>4, <2>5, <1>y
  <2>7. /\ yaml.escalated \union yaml.failed \subseteq DOMAIN yamlRecords
        /\ yaml.at \notin yaml.escalated \union yaml.failed
        /\ yaml.escalated \intersect yaml.failed = {}
    BY <2>5 DEF YamlInv, RecordsOK
  <2>8. ASSUME NEW i \in DOMAIN yamlRecords'
        PROVE  /\ i \in yaml.escalated \union yaml.failed => yamlRecords'[i].escalated /\ Grounds(i)'
               /\ yamlRecords'[i].escalated => \/ i \in yaml.escalated \union yaml.failed \/ Vacuous(i)'
                                               \/ p = "escalate" /\ i = yaml.at
    <3>1. CASE i = yaml.at
      <4>1. yaml.findings \in Nat
        BY <1>t, YamlAssumption
      <4> QED BY <3>1, <4>1, <2>3, <2>4, <2>5, <2>7, <1>d DEF Vacuous, Playbook
    <3>2. CASE i \in DOMAIN yamlRecords
      <4>1. yamlRecords'[i] = yamlRecords[i]
        BY <3>2, <2>5
      <4>2. /\ i \in yaml.escalated \union yaml.failed => yamlRecords[i].escalated /\ Grounds(i)
            /\ yamlRecords[i].escalated => i \in yaml.escalated \union yaml.failed \/ Vacuous(i)
        BY <3>2, <2>0 DEF YamlInv, RecordsOK
      <4> QED BY <4>1, <4>2, <1>d DEF Grounds, Vacuous
    <3> QED BY <3>1, <3>2, <2>5
  <2>9. RecordsOK'
    BY <2>4, <2>5, <2>7, <2>8 DEF RecordsOK
  <2>10. p = "escalate" => yamlRecords'[yaml.at].escalated /\ Grounds(yaml.at)'
    BY <2>3, <2>4, <2>5, <1>d DEF Grounds, Playbook
  <2> QED BY <2>0, <2>4, <2>5, <2>6, <2>7, <2>9, <2>10, <1>d DEF YamlInv, Running
<1>5. CASE EscalateHunt
  <2>0. yaml.phase = "escalate" /\ yamlRecords' = yamlRecords /\ yaml.at \in DOMAIN directory
        /\ Len(yamlRecords) = yaml.at
    BY <1>5 DEF EscalateHunt, YamlInv, Running
  <2>1. /\ yaml' \in Request /\ yaml'.phase = "next" /\ yaml'.at = yaml.at
        /\ \/ yaml'.escalated = yaml.escalated \union {yaml.at} /\ yaml'.failed = yaml.failed
           \/ yaml'.escalated = yaml.escalated /\ yaml'.failed = yaml.failed \union {yaml.at}
    <3> DEFINE y == [yaml EXCEPT !.phase = "next"]
    <3>1. y \in Request /\ y.phase = "next" /\ y.at = yaml.at /\ y.escalated = yaml.escalated /\ y.failed = yaml.failed
      BY <1>r, <1>f, Move
    <3>2. \/ yaml' = [y EXCEPT !.escalated = y.escalated \union {yaml.at}]
          \/ yaml' = [y EXCEPT !.failed = y.failed \union {yaml.at}]
      BY <1>5, <3>1 DEF EscalateHunt
    <3> HIDE DEF y
    <3> QED BY <2>0, <3>1, <3>2 DEF Request
  <2>2. yaml.at \in DOMAIN yamlRecords
    BY <2>0, <1>t
  <2>3. YamlTypeOK'
    BY <2>0, <2>1, <1>y, <1>t
  <2>4. RecordsOK'
    <3>1. yamlRecords[yaml.at].escalated /\ Grounds(yaml.at) /\ yaml.at \notin yaml.escalated \union yaml.failed
      BY <2>0 DEF YamlInv
    <3> QED BY <2>0, <2>1, <2>2, <3>1, <1>d DEF YamlInv, RecordsOK, Grounds, Vacuous
  <2> QED BY <2>0, <2>1, <2>3, <2>4, <1>d DEF YamlInv, Running
<1>6. CASE NextPlaybook
  <2>0. yaml.phase = "next" /\ yamlRecords' = yamlRecords /\ yaml.at \in DOMAIN directory
        /\ Len(yamlRecords) = yaml.at
    BY <1>6 DEF NextPlaybook, YamlInv, Running
  <2>1. CASE yaml.at < Len(directory)
    <3>1. yaml.at + 1 \in Nat \ {0}
      BY <1>t
    <3>2. yaml' \in Request /\ yaml'.phase = "search" /\ yaml'.at = yaml.at + 1
          /\ yaml'.escalated = yaml.escalated /\ yaml'.failed = yaml.failed
      <4> DEFINE x == [yaml EXCEPT !.phase = "search"]
                 y == [x EXCEPT !.at = yaml.at + 1]
                 z == [y EXCEPT !.findings = 0]
      <4>1. x \in Request /\ x.phase = "search" /\ x.escalated = yaml.escalated /\ x.failed = yaml.failed
        BY <1>r, <1>f, Move
      <4>2. yaml' = [z EXCEPT !.aggregated = FALSE]
        BY <1>6, <2>1 DEF NextPlaybook
      <4> HIDE DEF x
      <4>3. y \in Request /\ y.phase = "search" /\ y.at = yaml.at + 1 /\ y.escalated = yaml.escalated /\ y.failed = yaml.failed
        BY <3>1, <4>1, MoveAt
      <4> HIDE DEF y
      <4>4. z \in Request /\ z.phase = "search" /\ z.at = yaml.at + 1 /\ z.escalated = yaml.escalated /\ z.failed = yaml.failed
        BY <1>f, <4>3, MoveFound
      <4> HIDE DEF z
      <4> QED BY <1>f, <4>2, <4>4, MoveKind
    <3>3. YamlTypeOK' /\ RecordsOK'
      BY <2>0, <3>2, <1>y, <1>k, <1>t
    <3>4. yaml'.at \in DOMAIN directory /\ Len(yamlRecords) = yaml'.at - 1 /\ 1..(yaml'.at - 1) = 1..yaml.at
      BY <2>0, <2>1, <3>2, <1>t
    <3> QED BY <2>0, <3>2, <3>3, <3>4, <1>d DEF YamlInv, Running
  <2>2. CASE ~(yaml.at < Len(directory))
    <3>2. yaml' \in Request /\ yaml'.phase = "answered" /\ yaml'.at = yaml.at
          /\ yaml'.escalated = yaml.escalated /\ yaml'.failed = yaml.failed
      <4> DEFINE y == [yaml EXCEPT !.phase = "answered"]
                 z == [y EXCEPT !.findings = 0]
      <4>1. y \in Request /\ y.phase = "answered" /\ y.at = yaml.at /\ y.escalated = yaml.escalated /\ y.failed = yaml.failed
        BY <1>r, <1>f, Move
      <4>2. yaml' = [z EXCEPT !.aggregated = FALSE]
        BY <1>6, <2>2 DEF NextPlaybook
      <4> HIDE DEF y
      <4>3. z \in Request /\ z.phase = "answered" /\ z.at = yaml.at /\ z.escalated = yaml.escalated /\ z.failed = yaml.failed
        BY <1>f, <4>1, MoveFound
      <4> HIDE DEF z
      <4> QED BY <1>f, <4>2, <4>3, MoveKind
    <3>3. Len(yamlRecords) = Len(directory) /\ DOMAIN directory = 1..yaml.at
      BY <2>0, <2>2, <1>t
    <3>4. YamlTypeOK' /\ RecordsOK'
      BY <2>0, <3>2, <1>y, <1>k, <1>t
    <3> QED BY <2>0, <3>2, <3>3, <3>4, <1>d DEF YamlInv, Running
  <2> QED BY <2>1, <2>2
<1> QED BY <1>1, <1>2, <1>3, <1>4, <1>5, <1>6 DEF YamlStep

LEMMA YamlSame == ASSUME YamlInv, UNCHANGED yamlVars PROVE YamlInv'
  <1>1. directory' = directory /\ yaml' = yaml /\ yamlRecords' = yamlRecords
    BY DEF yamlVars
  <1>2. YamlTypeOK' <=> YamlTypeOK
    BY <1>1 DEF YamlTypeOK, Request
  <1>3. RecordsOK' <=> RecordsOK
    BY <1>1 DEF RecordsOK, Grounds, Vacuous
  <1>g. Grounds(yaml.at)' <=> Grounds(yaml.at)
    BY <1>1 DEF Grounds
  <1>4. Playbook' = Playbook
    BY <1>1 DEF Playbook
  <1> QED BY <1>1, <1>2, <1>3, <1>4, <1>g DEF YamlInv

LEMMA YamlMeaning == YamlInv => RequestIsFaithful
  <1> SUFFICES ASSUME YamlInv PROVE RequestIsFaithful
    OBVIOUS
  <1>1. /\ DOMAIN directory = 1..Len(directory) /\ DOMAIN yamlRecords = 1..Len(yamlRecords)
    BY DirectoryType DEF YamlInv
  <1>2. RequestRunsInOrder
    <2>1. yamlRecords = <<>> => yaml.escalated = {}
      <3>1. yaml.escalated \subseteq DOMAIN yamlRecords
        BY DEF YamlInv, RecordsOK
      <3>2. yamlRecords = <<>> => DOMAIN yamlRecords = {}
        OBVIOUS
      <3> QED BY <3>1, <3>2
    <2> QED BY <2>1 DEF YamlInv, RequestRunsInOrder
  <1>3. RecordsTellEscalations
    <2>1. yaml.phase \in Ended => yaml.phase # "escalate"
      BY DEF Ended
    <2> QED BY <2>1 DEF YamlInv, RecordsOK, RecordsTellEscalations, Vacuous
  <1>4. EscalationHasGrounds
    <2>1. \A i \in yaml.escalated \union yaml.failed : Grounds(i)
      BY DEF YamlInv, RecordsOK
    <2> QED BY <2>1 DEF EscalationHasGrounds, Grounds
  <1> QED BY <1>2, <1>3, <1>4 DEF RequestIsFaithful

-----------------------------------------------------------------------------
(* The cycle of the insider hunts.                                         *)

(* Nothing is escalated before its record; the record says whether there   *)
(* is something to escalate; and that is all findings of a hunt or none.   *)
Tried == result.escalated \union result.refused
InsiderInv ==
    /\ InsiderTypeOK /\ EscalationIsOnRecord
    /\ cycle.phase = "idle" => cycle = Idle /\ result = NoFindings
    /\ cycle.phase \in {"detect", "write"} =>
          result.written = "no" /\ ~result.escalatedField /\ Tried = {}
    /\ cycle.phase \in {"detect", "write", "escalate"} =>
          result.escalate = IF escalate_if_found[Detection] THEN result.findings ELSE {}
    /\ cycle.phase = "escalate" => result.written # "no"
    /\ Tried \subseteq result.escalate /\ result.escalate \subseteq result.findings
    /\ result.written # "no" => (result.escalatedField <=> result.escalate # {})

LEMMA InsiderConstants ==
    /\ 1 \in DOMAIN DETECTIONS /\ DOMAIN DETECTIONS = 1..Len(DETECTIONS) /\ Len(DETECTIONS) = 4
    /\ \A i \in DOMAIN DETECTIONS : DETECTIONS[i] \in Detections
    /\ Len(Users) \in Nat \ {0} /\ DOMAIN Users = 1..Len(Users) /\ 1 \in DOMAIN Users
    /\ \A i \in DOMAIN Users : Users[i] \in User
  <1>1. Users \in Seq(User) /\ User # {}
    BY InsiderAssumption
  <1>2. DOMAIN Users = 1..Len(Users) /\ Len(Users) \in Nat
    BY <1>1
  <1>3. Len(Users) # 0
    BY <1>1, <1>2 DEF User
  <1>4. \A i \in DOMAIN Users : Users[i] \in User
    BY DEF User
  <1>5. /\ DOMAIN DETECTIONS = 1..Len(DETECTIONS) /\ Len(DETECTIONS) = 4
        /\ \A i \in DOMAIN DETECTIONS : DETECTIONS[i] \in Detections
    BY DEF DETECTIONS, Detections
  <1> QED BY <1>2, <1>3, <1>4, <1>5

LEMMA FreshCycle ==
    /\ Idle \in Cycle /\ NoFindings \in Result /\ NoDetection \in Latest
    /\ [Idle EXCEPT !.phase = "detect"] \in Cycle
    /\ \A h \in DOMAIN DETECTIONS : [Idle EXCEPT !.phase = "detect", !.hunt = h] \in Cycle
  BY InsiderConstants DEF Idle, NoFindings, NoDetection, Cycle, Result, Latest, Phases

LEMMA CycleMoved ==
    ASSUME NEW c \in Cycle, NEW p \in Phases, NEW u \in DOMAIN Users
    PROVE  /\ [c EXCEPT !.phase = p] \in Cycle /\ [c EXCEPT !.user = u] \in Cycle
           /\ [c EXCEPT !.phase = p, !.user = u] \in Cycle
  BY DEF Cycle

LEMMA NextUserType ==
    ASSUME cycle \in Cycle, cycle.phase = "detect"
    PROVE  NextUser \in Cycle /\ NextUser.phase \in {"detect", "write"} /\ NextUser.hunt = cycle.hunt
  <1>1. CASE cycle.user < Len(Users)
    <2>1. cycle.user + 1 \in DOMAIN Users
      BY <1>1, InsiderConstants DEF Cycle
    <2> QED BY <1>1, <2>1 DEF NextUser, Cycle
  <1>2. CASE ~(cycle.user < Len(Users))
    BY <1>2, InsiderConstants DEF NextUser, Cycle, Phases
  <1> QED BY <1>1, <1>2

LEMMA FlagType ==
    ASSUME NEW d \in Detections, NEW u, NEW r
    PROVE  Flags(d, u, r) \in BOOLEAN
  <1>1. d \in {"credential_hoarding", "data_staging", "access_broadening", "schedule_shift"}
    BY DEF Detections, DETECTIONS
  <1>2. CredentialHoarding(u, r) \in BOOLEAN
    BY ZenonT(30) DEF CredentialHoarding
  <1>3. DataStaging(r) \in BOOLEAN /\ AccessBroadening(r) \in BOOLEAN /\ ScheduleShift(r) \in BOOLEAN
    BY DEF DataStaging, AccessBroadening, ScheduleShift
  <1> QED BY <1>1, <1>2, <1>3 DEF Flags

LEMMA LatestType ==
    ASSUME Detection \in Detections, NEW u \in User, NEW f, NEW failed \in SUBSET Searches(Detection, u),
           NEW raised \in BOOLEAN, NEW flagged \in BOOLEAN
    PROVE  Judged(u, f, failed, raised, flagged) \in Latest
  <1>1. Detection \in {"credential_hoarding", "data_staging", "access_broadening", "schedule_shift"}
    BY DEF Detections, DETECTIONS
  <1>2. Threat(Detection, u, f) \in BOOLEAN
    BY <1>1 DEF Threat
  <1>3. failed \in SUBSET (User \union {"profile", "window"})
    <2>1. Peers[u] \subseteq User
      BY InsiderAssumption
    <2> QED BY <2>1 DEF Searches
  <1> DEFINE misled == {c \in Causes : Misleads(c, Detection, u, f)}
             threat == Threat(Detection, u, f)
  <1>4. misled \in SUBSET Causes
    OBVIOUS
  <1>5. Judged(u, f, failed, raised, flagged)
          = [detection |-> Detection, user |-> u, failed |-> failed, raised |-> raised,
             misled |-> misled, flagged |-> flagged, threat |-> threat]
    BY DEF Judged
  <1>6. threat \in BOOLEAN
    BY <1>2
  <1> HIDE DEF misled, threat
  <1> QED BY <1>3, <1>4, <1>5, <1>6 DEF Latest

LEMMA NothingFound ==
    /\ NoFindings.written = "no" /\ NoFindings.escalatedField = FALSE
    /\ NoFindings.escalated = {} /\ NoFindings.refused = {}
    /\ NoFindings.findings = {} /\ NoFindings.escalate = {}
  BY DEF NoFindings

(* What a finding adds to the findings of its hunt.                        *)
\* A hunt's result with other findings.
WithFindings(r, found, escalate) == [r EXCEPT !.findings = found, !.escalate = escalate]

LEMMA FindingAdded ==
    ASSUME NEW r \in Result, NEW F \in SUBSET User, NEW E \in SUBSET User
    PROVE  /\ WithFindings(r, F, E) \in Result
           /\ WithFindings(r, F, E).written = r.written
           /\ WithFindings(r, F, E).escalatedField = r.escalatedField
           /\ WithFindings(r, F, E).escalated = r.escalated
           /\ WithFindings(r, F, E).refused = r.refused
           /\ WithFindings(r, F, E).findings = F /\ WithFindings(r, F, E).escalate = E
  BY DEF Result, WithFindings

LEMMA InsiderStart == InsiderInit => InsiderInv
  <1> SUFFICES ASSUME InsiderInit PROVE InsiderInv
    OBVIOUS
  <1>1. cycle = Idle /\ result = NoFindings /\ last = NoDetection
    BY DEF InsiderInit
  <1>2. cycle \in Cycle /\ cycle.phase = "idle"
    BY <1>1, FreshCycle DEF Idle
  <1> QED BY <1>1, <1>2, NothingFound, FreshCycle DEF InsiderInv, InsiderTypeOK, EscalationIsOnRecord, Tried

InsiderNext == StartInsiderCycle \/ InsiderStep \/ KillCycle \/ RestartAfterKill

LEMMA InsiderKept == ASSUME InsiderInv, InsiderNext PROVE InsiderInv'
<1>t. cycle \in Cycle /\ result \in Result /\ last \in Latest
      /\ cycle.hunt \in DOMAIN DETECTIONS /\ Detection \in Detections
  BY InsiderConstants DEF InsiderInv, InsiderTypeOK, Cycle, Detection
<1>p. Phases = {"idle", "detect", "write", "escalate", "killed"}
  BY DEF Phases
<1>n. /\ NoFindings \in Result /\ NoFindings.written = "no" /\ NoFindings.escalatedField = FALSE
      /\ NoFindings.escalated \union NoFindings.refused = {}
      /\ NoFindings.findings = {} /\ NoFindings.escalate = {}
  BY FreshCycle, NothingFound
<1>e. ASSUME result' = NoFindings, cycle' \in Cycle, last' \in Latest,
             cycle' = Idle \/ cycle'.phase = "detect"
      PROVE  InsiderInv'
  <2>1. Tried' = {} /\ InsiderTypeOK' /\ EscalationIsOnRecord'
    BY <1>e, <1>n DEF Tried, InsiderTypeOK, EscalationIsOnRecord
  <2>2. Idle.phase = "idle"
    BY DEF Idle
  <2> QED BY <1>e, <1>n, <2>1, <2>2 DEF InsiderInv
<1>1. CASE StartInsiderCycle
  <2>1. cycle.phase = "idle" /\ cycle' = [Idle EXCEPT !.phase = "detect"] /\ UNCHANGED <<result, last>>
    BY <1>1 DEF StartInsiderCycle
  <2>2. cycle' \in Cycle /\ cycle'.phase = "detect"
    BY <2>1, FreshCycle DEF Idle
  <2>3. result = NoFindings
    BY <2>1 DEF InsiderInv
  <2> QED BY <2>1, <2>2, <2>3, <1>t, <1>e
<1>u. ASSUME cycle.phase = "detect", cycle' = NextUser, last' \in Latest, result' \in Result,
             result'.written = result.written, result'.escalatedField = result.escalatedField,
             Tried' = Tried, result'.escalate = IF escalate_if_found[Detection] THEN result'.findings ELSE {}
      PROVE  InsiderInv'
  <2>1. cycle' \in Cycle /\ cycle'.phase \in {"detect", "write"} /\ cycle'.hunt = cycle.hunt
    BY <1>u, <1>t, NextUserType
  <2>2. Detection' = Detection
    BY <2>1 DEF Detection
  <2>3. Tried = {} /\ result.written = "no" /\ ~result.escalatedField
    BY <1>u DEF InsiderInv
  <2>4. InsiderTypeOK' /\ EscalationIsOnRecord'
    BY <1>u, <2>1, <2>3 DEF InsiderTypeOK, EscalationIsOnRecord, Tried
  <2> QED BY <1>u, <2>1, <2>2, <2>3, <2>4 DEF InsiderInv
<1>2. ASSUME NEW u \in User, Detect(u) PROVE InsiderInv'
  <2>0. cycle.phase = "detect" /\ cycle' = NextUser
    BY <1>2 DEF Detect
  <2>1. PICK f \in Facts(Detection, u), failed \in SUBSET Searches(Detection, u) :
          \E answer \in Answers(Detection, u, f, failed) :
            /\ result' = IF ~Flags(Detection, u, answer) THEN result
                         ELSE [result EXCEPT !.findings = result.findings \union {u},
                                !.escalate = IF escalate_if_found[Detection]
                                             THEN result.escalate \union {u} ELSE result.escalate]
            /\ last' = Judged(u, f, failed, FALSE, Flags(Detection, u, answer))
    BY <1>2, Zenon DEF Detect
  <2>2. PICK answer \in Answers(Detection, u, f, failed) :
            /\ result' = IF ~Flags(Detection, u, answer) THEN result
                         ELSE [result EXCEPT !.findings = result.findings \union {u},
                                !.escalate = IF escalate_if_found[Detection]
                                             THEN result.escalate \union {u} ELSE result.escalate]
            /\ last' = Judged(u, f, failed, FALSE, Flags(Detection, u, answer))
    BY <2>1, Zenon
  <2>3. last' \in Latest
    <3>1. Flags(Detection, u, answer) \in BOOLEAN
      BY <1>t, FlagType
    <3> QED BY <2>2, <3>1, <1>t, LatestType
  <2>4. escalate_if_found[Detection] \in BOOLEAN
    BY <1>t, InsiderAssumption
  <2>5. result.escalate = IF escalate_if_found[Detection] THEN result.findings ELSE {}
    BY <2>0 DEF InsiderInv
  <2>6. /\ result' \in Result /\ result'.written = result.written
        /\ result'.escalatedField = result.escalatedField
        /\ result'.escalated = result.escalated /\ result'.refused = result.refused
        /\ result'.escalate = IF escalate_if_found[Detection] THEN result'.findings ELSE {}
    <3>1. CASE ~Flags(Detection, u, answer)
      BY <3>1, <2>2, <2>5, <1>t
    <3>2. CASE Flags(Detection, u, answer)
      <4> DEFINE F == result.findings \union {u}
                 E == IF escalate_if_found[Detection] THEN result.escalate \union {u} ELSE result.escalate
      <4>1. result' = WithFindings(result, F, E)
        BY <3>2, <2>2 DEF WithFindings
      <4>2. E = IF escalate_if_found[Detection] THEN F ELSE {}
        BY <2>5
      <4>3. F \in SUBSET User /\ E \in SUBSET User
        BY <1>t DEF Result
      <4> HIDE DEF F, E
      <4> QED BY <1>t, <4>1, <4>2, <4>3, FindingAdded
    <3> QED BY <3>1, <3>2
  <2>7. Tried' = Tried
    BY <2>6 DEF Tried
  <2> QED BY <2>0, <2>3, <2>6, <2>7, <1>u
<1>3. ASSUME NEW u \in User, SkipUser(u) PROVE InsiderInv'
  <2>1. cycle.phase = "detect" /\ cycle' = NextUser /\ result' = result
    BY <1>3 DEF SkipUser
  <2>2. PICK f \in Facts(Detection, u) : last' = Judged(u, f, {}, TRUE, FALSE)
    BY <1>3 DEF SkipUser
  <2>3. last' \in Latest
    <3>1. {} \in SUBSET Searches(Detection, u) /\ TRUE \in BOOLEAN /\ FALSE \in BOOLEAN
      OBVIOUS
    <3> QED BY <2>2, <3>1, <1>t, LatestType
  <2>4. Tried' = Tried /\ result.escalate = IF escalate_if_found[Detection] THEN result.findings ELSE {}
    BY <2>1 DEF Tried, InsiderInv
  <2> QED BY <2>1, <2>3, <2>4, <1>t, <1>u
<1>4. CASE WriteInsiderResult
  <2>0. cycle.phase = "write" /\ cycle' = [cycle EXCEPT !.phase = "escalate"] /\ last' = NoDetection
    BY <1>4 DEF WriteInsiderResult
  <2>1. cycle' \in Cycle /\ cycle'.phase = "escalate" /\ Detection' = Detection
    BY <2>0, <1>t, <1>p DEF Cycle, Detection
  <2>2. PICK written \in {"yes", "lost"} :
          result' = [result EXCEPT !.written = written, !.escalatedField = result.escalate # {}]
    BY <1>4 DEF WriteInsiderResult
  <2>3. /\ result' \in Result /\ result'.written = written /\ result'.findings = result.findings
        /\ result'.escalatedField <=> result.escalate # {}
        /\ result'.escalated = result.escalated /\ result'.refused = result.refused
        /\ result'.escalate = result.escalate
    BY <2>2, <1>t DEF Result
  <2>4. Tried' = Tried /\ Tried = {}
    BY <2>0, <2>3 DEF Tried, InsiderInv
  <2>5. InsiderTypeOK' /\ EscalationIsOnRecord'
    BY <2>0, <2>1, <2>3, <2>4, FreshCycle DEF InsiderTypeOK, EscalationIsOnRecord, Tried
  <2> QED BY <2>0, <2>1, <2>3, <2>4, <2>5 DEF InsiderInv
<1>5. ASSUME NEW u \in User, EscalateFinding(u) PROVE InsiderInv'
  <2>0. /\ cycle.phase = "escalate" /\ u \in Remaining /\ cycle' = cycle /\ last' = last
        /\ \/ result' = [result EXCEPT !.escalated = result.escalated \union {u}]
           \/ result' = [result EXCEPT !.refused = result.refused \union {u}]
    BY <1>5 DEF EscalateFinding
  <2>1. u \in result.escalate
    BY <2>0 DEF Remaining
  <2>2. /\ result' \in Result /\ result'.written = result.written /\ result'.findings = result.findings
        /\ result'.escalatedField = result.escalatedField /\ result'.escalate = result.escalate
        /\ Tried' = Tried \union {u}
    BY <2>0, <1>t DEF Result, Tried
  <2>3. Detection' = Detection
    BY <2>0 DEF Detection
  <2>4. result.written # "no" /\ result.escalatedField /\ result.escalate \subseteq result.findings
        /\ Tried \subseteq result.escalate
    BY <2>0, <2>1 DEF InsiderInv
  <2>5. InsiderTypeOK' /\ EscalationIsOnRecord'
    <3>1. Tried' \subseteq result'.findings
      BY <2>1, <2>2, <2>4
    <3> QED BY <2>0, <2>2, <2>4, <1>t, <3>1 DEF InsiderTypeOK, EscalationIsOnRecord, Tried
  <2> QED BY <2>0, <2>1, <2>2, <2>3, <2>4, <2>5 DEF InsiderInv
<1>6. CASE NextDetection
  <2>1. result' = NoFindings /\ last' = last
        /\ cycle' = IF cycle.hunt < Len(DETECTIONS)
                    THEN [Idle EXCEPT !.phase = "detect", !.hunt = cycle.hunt + 1] ELSE Idle
    BY <1>6 DEF NextDetection
  <2>2. cycle.hunt < Len(DETECTIONS) => cycle.hunt + 1 \in DOMAIN DETECTIONS
    BY <1>t, InsiderConstants
  <2>3. cycle' \in Cycle /\ (cycle' = Idle \/ cycle'.phase = "detect")
    BY <2>1, <2>2, FreshCycle DEF Idle
  <2> QED BY <2>1, <2>3, <1>t, <1>e
<1>7. CASE KillCycle
  <2>1. cycle' = [cycle EXCEPT !.phase = "killed"] /\ UNCHANGED <<result, last>>
    BY <1>7 DEF KillCycle
  <2>2. cycle' \in Cycle /\ cycle'.phase = "killed"
    BY <2>1, <1>t, <1>p DEF Cycle
  <2>3. Tried' = Tried /\ EscalationIsOnRecord' /\ InsiderTypeOK'
    BY <2>1, <2>2 DEF Tried, InsiderInv, InsiderTypeOK, EscalationIsOnRecord
  <2> QED BY <2>1, <2>2, <2>3 DEF InsiderInv
<1>8. CASE RestartAfterKill
  <2>1. cycle' = Idle /\ result' = NoFindings /\ last' = NoDetection
    BY <1>8 DEF RestartAfterKill
  <2> QED BY <2>1, FreshCycle, <1>e
<1> QED BY <1>1, <1>2, <1>3, <1>4, <1>5, <1>6, <1>7, <1>8 DEF InsiderNext, InsiderStep

LEMMA InsiderSame == ASSUME InsiderInv, UNCHANGED insiderVars PROVE InsiderInv'
  BY DEF InsiderInv, insiderVars, InsiderTypeOK, EscalationIsOnRecord, Detection, Tried

(* Only the step to the next detection, when all that its record announces *)
(* has been tried, and the restart after a kill leave a detection.         *)
LEMMA RecordKept ==
    ASSUME InsiderInv, InsiderNext, result.written # "no", result' = NoFindings
    PROVE  /\ result.escalated # {} => result.escalatedField
           /\ result.escalatedField => \/ result.escalated # {}
                                       \/ cycle.phase = "killed" \/ result.refused # {}
           /\ cycle.phase # "killed" =>
                 result.escalated \union result.refused = IF result.escalatedField THEN result.findings ELSE {}
<1>t. cycle \in Cycle /\ result \in Result
  BY DEF InsiderInv, InsiderTypeOK
<1>1. /\ result.escalatedField <=> result.escalate # {}
      /\ result.escalated \union result.refused \subseteq result.escalate
  BY DEF InsiderInv, Tried
<1>2. CASE NextDetection
  <2>1. cycle.phase = "escalate" /\ result.escalate \subseteq result.escalated \union result.refused
    BY <1>2 DEF NextDetection, Remaining
  <2>2. result.escalate = IF escalate_if_found[Detection] THEN result.findings ELSE {}
    BY <2>1 DEF InsiderInv
  <2>3. result.escalated \union result.refused = result.escalate
    BY <1>1, <2>1
  <2> QED BY <1>1, <2>1, <2>2, <2>3
<1>3. CASE RestartAfterKill
  <2>1. cycle.phase = "killed"
    BY <1>3 DEF RestartAfterKill
  <2> QED BY <1>1, <2>1
<1>4. NoFindings.written = "no"
  BY NothingFound
<1>5. ~StartInsiderCycle /\ ~KillCycle /\ \A u \in User : ~SkipUser(u)
  BY <1>4 DEF StartInsiderCycle, KillCycle, SkipUser
<1>6. ~WriteInsiderResult
  <2>1. ASSUME WriteInsiderResult PROVE FALSE
    BY <2>1 DEF WriteInsiderResult, InsiderInv
  <2> QED BY <2>1
<1>7. \A u \in User : ~Detect(u)
  <2>1. ASSUME NEW u \in User, Detect(u) PROVE FALSE
    BY <2>1 DEF Detect, InsiderInv
  <2> QED BY <2>1
<1>8. \A u \in User : ~EscalateFinding(u)
  <2>1. ASSUME NEW u \in User, EscalateFinding(u) PROVE FALSE
    <3>1. result'.written = result.written
      BY <2>1, <1>t DEF EscalateFinding, Result
    <3> QED BY <1>4, <3>1
  <2> QED BY <2>1
<1> QED BY <1>2, <1>3, <1>5, <1>6, <1>7, <1>8 DEF InsiderNext, InsiderStep

-----------------------------------------------------------------------------
(* Sums over finite sets, of which an average is made.                     *)

Pick(s) == CHOOSE x \in s : TRUE
SumOver(a, S) == MapThenSumSet(LAMBDA i : a[i], S)
IsSum(g, a, D) ==
    g = [s \in SUBSET D |-> IF s = {} THEN 0 ELSE a[Pick(s)] + g[s \ {Pick(s)}]]

(* Every non-empty set of naturals has a least element. *)
LEMMA Least ==
    ASSUME NEW T \in SUBSET Nat, T # {}
    PROVE  \E x \in T : \A y \in T : x <= y
<1>1. PICK x \in T : \A y \in T : ~ (<<y, x>> \in OpToRel(<, Nat))
  BY NatLessThanWellFounded, WFMin
<1>2. \A y \in Nat : y < x => <<y, x>> \in OpToRel(<, Nat)
  BY DEF OpToRel
<1>3. \A y \in T : ~(y < x)
  BY <1>1, <1>2, Zenon
<1> QED BY <1>3

(* Induction, for sets of naturals. *)
LEMMA Induction ==
    ASSUME NEW T \in SUBSET Nat, 0 \in T, \A n \in T : n + 1 \in T
    PROVE  T = Nat
<1>1. SUFFICES ASSUME Nat \ T # {} PROVE FALSE
  OBVIOUS
<1>2. PICK n \in Nat \ T : \A m \in Nat \ T : n <= m
  BY <1>1, Least
<1>3. n - 1 \in T /\ (n - 1) + 1 = n
  BY <1>2
<1> QED BY <1>2, <1>3

(* What is left when the sum has taken its next element out. *)
LEMMA OneLess ==
    ASSUME NEW D, IsFiniteSet(D), NEW s \in SUBSET D, s # {}
    PROVE  /\ Pick(s) \in s /\ s \ {Pick(s)} \in SUBSET D
           /\ Cardinality(s) \in Nat /\ Cardinality(s \ {Pick(s)}) = Cardinality(s) - 1
           /\ Cardinality(s) # 0
<1>1. Pick(s) \in s
  BY DEF Pick
<1>2. IsFiniteSet(s)
  BY FS_Subset
<1> QED BY <1>1, <1>2, FS_RemoveElement, FS_EmptySet, FS_CardinalityType

(* The recursion of a sum over a finite set is well defined. *)
LEMMA SumDefined ==
    ASSUME NEW a, NEW D, IsFiniteSet(D)
    PROVE  \E g : IsSum(g, a, D) /\ SumOver(a, D) = g[D]
<1> DEFINE Eq(g, s) == g[s] = IF s = {} THEN 0 ELSE a[Pick(s)] + g[s \ {Pick(s)}]
           T == {n \in Nat : \E g : /\ g = [s \in SUBSET D |-> g[s]]
                                  /\ \A s \in SUBSET D : Cardinality(s) <= n => Eq(g, s)}
<1>0. \A s \in SUBSET D : Cardinality(s) \in Nat /\ (Cardinality(s) = 0 <=> s = {})
  BY FS_Subset, FS_CardinalityType, FS_EmptySet
<1>1. 0 \in T
  <2> DEFINE g == [s \in SUBSET D |-> 0]
  <2>1. g = [s \in SUBSET D |-> g[s]] 
    OBVIOUS
  <2>2. \A s \in SUBSET D : Cardinality(s) <= 0 => s = {}
    BY <1>0
  <2>3. \A s \in SUBSET D : Cardinality(s) <= 0 => Eq(g, s)
    BY <2>2
  <2> QED BY <2>1, <2>3
<1>2. ASSUME NEW n \in T PROVE n + 1 \in T
  <2>1. PICK g : g = [s \in SUBSET D |-> g[s]] /\ \A s \in SUBSET D : Cardinality(s) <= n => Eq(g, s)
    BY <1>2
  <2> DEFINE h == [s \in SUBSET D |-> IF Cardinality(s) <= n THEN g[s] ELSE a[Pick(s)] + g[s \ {Pick(s)}]]
  <2>2. ASSUME NEW s \in SUBSET D, Cardinality(s) <= n + 1 PROVE Eq(h, s)
    <3>1. CASE s = {}
      <4>1. Cardinality(s) = 0 /\ Cardinality(s) <= n
        BY <3>1, <1>0
      <4> QED BY <3>1, <4>1, <2>1
    <3>2. CASE s # {}
      <4> DEFINE t == s \ {Pick(s)}
      <4>1. t \in SUBSET D /\ Cardinality(t) = Cardinality(s) - 1 /\ Cardinality(s) \in Nat
        BY <3>2, OneLess
      <4>2. Cardinality(t) <= n
        BY <4>1, <2>2
      <4>3. h[t] = g[t]
        BY <4>1, <4>2
      <4>4. CASE Cardinality(s) <= n
        <5>1. h[s] = g[s] /\ Eq(g, s)
          BY <4>4, <2>1
        <5> QED BY <5>1, <4>3, <3>2
      <4>5. CASE ~(Cardinality(s) <= n)
        <5>1. h[s] = a[Pick(s)] + g[t]
          BY <4>5
        <5> QED BY <5>1, <4>3, <3>2
      <4> QED BY <4>4, <4>5
    <3> QED BY <3>1, <3>2
  <2>3. h = [s \in SUBSET D |-> h[s]] 
    OBVIOUS
  <2> HIDE DEF h, Eq
  <2>4. n + 1 \in Nat /\ \A s \in SUBSET D : Cardinality(s) <= n + 1 => Eq(h, s)
    BY <2>2
  <2> QED BY <2>3, <2>4
<1>3. Cardinality(D) \in T
  <2>1. T = Nat
    <3> HIDE DEF T
    <3>1. T \in SUBSET Nat
      BY DEF T
    <3> QED BY <3>1, <1>1, <1>2, Induction
  <2> QED BY <2>1, FS_CardinalityType
<1>4. PICK g : g = [s \in SUBSET D |-> g[s]] /\ \A s \in SUBSET D : Cardinality(s) <= Cardinality(D) => Eq(g, s)
  BY <1>3
<1>5. \A s \in SUBSET D : Cardinality(s) <= Cardinality(D)
  BY FS_Subset
<1>6. \A s \in SUBSET D : g[s] = IF s = {} THEN 0 ELSE a[Pick(s)] + g[s \ {Pick(s)}]
  BY <1>4, <1>5
<1>7. IsSum(g, a, D)
  BY <1>4, <1>6 DEF IsSum
<1>8. SumOver(a, D) = (CHOOSE h : IsSum(h, a, D))[D]
  BY Zenon DEF SumOver, MapThenSumSet, MapThenFoldSet, IsSum, Pick
<1> QED BY <1>7, <1>8

(* A sum of naturals is a natural. *)
LEMMA SumOfNat ==
    ASSUME NEW a, NEW D, IsFiniteSet(D), \A i \in D : a[i] \in Nat
    PROVE  SumOver(a, D) \in Nat
<1>1. PICK g : IsSum(g, a, D) /\ SumOver(a, D) = g[D]
  BY SumDefined
<1> DEFINE T == {n \in Nat : \A s \in SUBSET D : Cardinality(s) = n => g[s] \in Nat}
<1>2. \A s \in SUBSET D : g[s] = IF s = {} THEN 0 ELSE a[Pick(s)] + g[s \ {Pick(s)}]
  BY <1>1 DEF IsSum
<1>3. 0 \in T
  BY <1>2, FS_Subset, FS_EmptySet
<1>4. ASSUME NEW n \in T PROVE n + 1 \in T
  <2>1. ASSUME NEW s \in SUBSET D, Cardinality(s) = n + 1 PROVE g[s] \in Nat
    <3>0. n \in Nat /\ Cardinality({}) = 0
      BY FS_EmptySet
    <3>1. s # {}
      BY <2>1, <3>0
    <3>2. s \ {Pick(s)} \in SUBSET D /\ Cardinality(s \ {Pick(s)}) = n /\ Pick(s) \in s
      BY <2>1, <3>0, <3>1, OneLess
    <3>3. g[s \ {Pick(s)}] \in Nat /\ a[Pick(s)] \in Nat
      BY <3>2
    <3> QED BY <3>1, <3>3, <1>2
  <2> QED BY <2>1
<1>5. Cardinality(D) \in T
  <2>1. T = Nat
    <3>1. T \in SUBSET Nat
      OBVIOUS
    <3> HIDE DEF T
    <3> QED BY <3>1, <1>3, <1>4, Induction
  <2> QED BY <2>1, FS_CardinalityType
<1> QED BY <1>1, <1>5

(* A sum depends on the values in its set only. *)
LEMMA SumRestricted ==
    ASSUME NEW a, NEW D
    PROVE  SumOver(a, D) = SumOver([i \in D |-> a[i]], D)
BY DEF SumOver, MapThenSumSet, MapThenFoldSet

(* ... so two that agree there have the same sum. *)
LEMMA SumSame ==
    ASSUME NEW a, NEW b, NEW D, \A i \in D : a[i] = b[i]
    PROVE  SumOver(a, D) = SumOver(b, D)
<1>1. SumOver(a, D) = SumOver([i \in D |-> a[i]], D) /\ SumOver(b, D) = SumOver([i \in D |-> b[i]], D)
  BY SumRestricted
<1>2. [i \in D |-> a[i]] = [i \in D |-> b[i]]
  OBVIOUS
<1> QED BY <1>1, <1>2, Zenon

(* Of a finite set with enough elements one can take as many as one likes. *)
LEMMA SubsetOfSize ==
    ASSUME NEW D, IsFiniteSet(D), NEW k \in Nat, k <= Cardinality(D)
    PROVE  \E S \in SUBSET D : Cardinality(S) = k
<1>1. Cardinality(D) \in Nat
  BY FS_CardinalityType
<1> DEFINE T == {n \in Nat : n <= Cardinality(D) => \E S \in SUBSET D : Cardinality(S) = n}
<1>2. 0 \in T
  <2>1. {} \in SUBSET D /\ Cardinality({}) = 0
    BY FS_EmptySet
  <2> QED BY <2>1
<1>3. ASSUME NEW n \in T PROVE n + 1 \in T
  <2>1. ASSUME n + 1 <= Cardinality(D) PROVE \E S \in SUBSET D : Cardinality(S) = n + 1
    <3>1. n \in Nat /\ n <= Cardinality(D) /\ n # Cardinality(D)
      BY <1>1, <2>1
    <3>2. PICK S \in SUBSET D : Cardinality(S) = n
      BY <3>1
    <3>3. PICK x \in D : x \notin S
      BY <3>1, <3>2
    <3>4. IsFiniteSet(S)
      BY FS_Subset
    <3>5. Cardinality(S \union {x}) = n + 1
      BY <3>2, <3>3, <3>4, FS_AddElement
    <3> QED BY <3>3, <3>5
  <2> QED BY <2>1
<1>4. T = Nat
  <2>1. T \in SUBSET Nat
    OBVIOUS
  <2> HIDE DEF T
  <2> QED BY <2>1, <1>2, <1>3, Induction
<1> QED BY <1>4

-----------------------------------------------------------------------------
(* The counting loop over the shifted days.                                *)

IsRuns(g, days) ==
    g = [d \in 0..LastDay |->
           IF d = 0 THEN [current |-> 0, longest |-> 0]
           ELSE LET run == IF d \in days THEN g[d - 1].current + 1 ELSE 0
                IN [current |-> run,
                    longest |-> IF run > g[d - 1].longest THEN run ELSE g[d - 1].longest]]

(* The loop's recursion over the days is well defined. *)
LEMMA RunsDefined ==
    ASSUME NEW days
    PROVE  \E g : IsRuns(g, days) /\ LongestRun(days) = g[LastDay].longest
<1>0. LastDay \in Nat
  BY InsiderAssumption
<1> DEFINE Next1(r, d) == LET run == IF d \in days THEN r.current + 1 ELSE 0
                          IN [current |-> run,
                              longest |-> IF run > r.longest THEN run ELSE r.longest]
           Eq(g, d) == g[d] = IF d = 0 THEN [current |-> 0, longest |-> 0] ELSE Next1(g[d - 1], d)
           T == {n \in Nat : \E g : /\ g = [d \in 0..LastDay |-> g[d]]
                                    /\ \A d \in 0..LastDay : d <= n => Eq(g, d)}
<1>1. 0 \in T
  <2> DEFINE g == [d \in 0..LastDay |-> [current |-> 0, longest |-> 0]]
  <2>1. g = [d \in 0..LastDay |-> g[d]]
    OBVIOUS
  <2>2. \A d \in 0..LastDay : d <= 0 => Eq(g, d)
    BY <1>0
  <2> QED BY <2>1, <2>2
<1>2. ASSUME NEW n \in T PROVE n + 1 \in T
  <2>1. PICK g : /\ g = [d \in 0..LastDay |-> g[d]]
                 /\ \A d \in 0..LastDay : d <= n => Eq(g, d)
    BY <1>2
  <2>2. n \in Nat
    OBVIOUS
  <2> HIDE DEF T, Next1
  <2> DEFINE h == [d \in 0..LastDay |-> IF d <= n THEN g[d] ELSE Next1(g[d - 1], d)]
  <2>3. ASSUME NEW d \in 0..LastDay, d <= n + 1 PROVE Eq(h, d)
    <3>1. CASE d <= n
      <4>1. h[d] = g[d] /\ Eq(g, d)
        BY <2>1, <3>1
      <4>2. d # 0 => h[d - 1] = g[d - 1]
        BY <3>1, <2>2, <1>0
      <4> QED BY <4>1, <4>2
    <3>2. CASE ~(d <= n)
      <4>1. d # 0 /\ d - 1 \in 0..LastDay /\ d - 1 <= n
        BY <2>2, <2>3, <3>2, <1>0
      <4>2. h[d] = Next1(g[d - 1], d) /\ h[d - 1] = g[d - 1]
        BY <3>2, <4>1
      <4> QED BY <4>1, <4>2
    <3> QED BY <3>1, <3>2
  <2>4. h = [d \in 0..LastDay |-> h[d]]
    OBVIOUS
  <2> HIDE DEF h, Eq
  <2>5. n + 1 \in Nat /\ \A d \in 0..LastDay : d <= n + 1 => Eq(h, d)
    BY <2>2, <2>3
  <2> QED BY <2>4, <2>5 DEF T
<1>3. T = Nat
  <2>1. T \in SUBSET Nat
    OBVIOUS
  <2> HIDE DEF T
  <2> QED BY <2>1, <1>1, <1>2, Induction
<1>4. PICK g : /\ g = [d \in 0..LastDay |-> g[d]]
               /\ \A d \in 0..LastDay : d <= LastDay => Eq(g, d)
  <2>1. LastDay \in T
    BY <1>0, <1>3
  <2> QED BY <2>1
<1>5. \A d \in 0..LastDay : Eq(g, d)
  <2>1. \A d \in 0..LastDay : d <= LastDay
    BY <1>0
  <2> HIDE DEF Eq
  <2> QED BY <1>4, <2>1
<1>6. IsRuns(g, days)
  BY <1>4, <1>5 DEF IsRuns
<1>7. LongestRun(days) = (CHOOSE h : IsRuns(h, days))[LastDay].longest
  BY Zenon DEF LongestRun, IsRuns
<1> QED BY <1>6, <1>7

(* The counting loop of detect_schedule_shift finds k consecutive shifted  *)
(* days exactly when there are k, for any number of days, wherever they lie. *)
THEOREM LongestRunFound ==
    ASSUME NEW days \in SUBSET Day, NEW k \in Nat \ {0}
    PROVE  LongestRun(days) >= k <=> \E from \in Day : from..(from + k - 1) \subseteq days
<1>0. LastDay \in Nat /\ \A d \in days : d \in 1..LastDay
  BY InsiderAssumption DEF Day
<1>1. PICK g : IsRuns(g, days) /\ LongestRun(days) = g[LastDay].longest
  BY RunsDefined
<1>2. /\ g[0].current = 0 /\ g[0].longest = 0
      /\ \A d \in 1..LastDay :
           /\ g[d].current = IF d \in days THEN g[d - 1].current + 1 ELSE 0
           /\ g[d].longest = IF g[d].current > g[d - 1].longest THEN g[d].current
                             ELSE g[d - 1].longest
  <2>1. \A d \in 0..LastDay :
          g[d] = IF d = 0 THEN [current |-> 0, longest |-> 0]
                 ELSE LET run == IF d \in days THEN g[d - 1].current + 1 ELSE 0
                      IN [current |-> run,
                          longest |-> IF run > g[d - 1].longest THEN run ELSE g[d - 1].longest]
    BY <1>1 DEF IsRuns
  <2>2. g[0] = [current |-> 0, longest |-> 0]
    <3>1. 0 \in 0..LastDay
      BY <1>0
    <3> QED BY <2>1, <3>1, Zenon
  <2>3. ASSUME NEW d \in 1..LastDay
        PROVE  g[d] = LET run == IF d \in days THEN g[d - 1].current + 1 ELSE 0
                      IN [current |-> run,
                          longest |-> IF run > g[d - 1].longest THEN run ELSE g[d - 1].longest]
    <3>1. d \in 0..LastDay /\ d # 0
      BY <1>0
    <3> QED BY <2>1, <3>1, Zenon
  <2>4. g[0].current = 0 /\ g[0].longest = 0
    BY <2>2
  <2>5. ASSUME NEW d \in 1..LastDay
        PROVE  /\ g[d].current = IF d \in days THEN g[d - 1].current + 1 ELSE 0
               /\ g[d].longest = IF g[d].current > g[d - 1].longest THEN g[d].current
                                 ELSE g[d - 1].longest
    <3> DEFINE run == IF d \in days THEN g[d - 1].current + 1 ELSE 0
    <3>1. g[d] = [current |-> run,
                  longest |-> IF run > g[d - 1].longest THEN run ELSE g[d - 1].longest]
      BY <2>3
    <3> HIDE DEF run
    <3>2. g[d].current = run
      BY <3>1
    <3>3. g[d].longest = IF run > g[d - 1].longest THEN run ELSE g[d - 1].longest
      BY <3>1
    <3> QED BY <3>2, <3>3 DEF run
  <2> QED BY <2>4, <2>5
\* The run that ends on day d, and the longest so far.
<1> DEFINE Run(d) ==
             /\ g[d].current \in 0..d
             /\ (d - g[d].current + 1)..d \subseteq days
             /\ g[d].current < d => d - g[d].current \notin days
           Longest(d) ==
             /\ g[d].longest \in Nat
             /\ \A e \in 0..d : g[e].current \in Nat /\ g[e].current <= g[d].longest
             /\ \E e \in 0..d : g[e].current = g[d].longest
           T == {n \in Nat : n <= LastDay => Run(n) /\ Longest(n)}
<1>3. 0 \in T
  <2>1. Run(0) /\ Longest(0)
    BY <1>2
  <2> QED BY <2>1
<1>4. ASSUME NEW n \in T PROVE n + 1 \in T
  <2>1. n \in Nat
    OBVIOUS
  <2>2. SUFFICES ASSUME n + 1 <= LastDay PROVE Run(n + 1) /\ Longest(n + 1)
    BY <2>1
  <2> DEFINE d == n + 1
  <2>3. Run(n) /\ Longest(n) /\ d \in 1..LastDay /\ d - 1 = n
    BY <1>0, <2>1, <2>2
  <2>4. /\ g[d].current = IF d \in days THEN g[n].current + 1 ELSE 0
        /\ g[d].longest = IF g[d].current > g[n].longest THEN g[d].current ELSE g[n].longest
    BY <1>2, <2>3
  <2> HIDE DEF d
  <2>5. Run(d)
    <3>1. CASE d \in days
      <4> DEFINE c == g[n].current
      <4>1. g[d].current = c + 1 /\ c \in 0..n
        BY <2>3, <2>4, <3>1
      <4>2. d - (c + 1) = n - c /\ d - (c + 1) + 1 = n - c + 1
        BY <4>1, <2>1 DEF d
      <4>3. (n - c + 1)..d \subseteq days
        <5>1. (n - c + 1)..n \subseteq days
          BY <2>3
        <5> HIDE DEF c
        <5>2. \A e \in (n - c + 1)..d : e = d \/ e \in (n - c + 1)..n
          BY <2>1, <4>1 DEF d
        <5> QED BY <5>1, <5>2, <3>1
      <4>4. c < n => n - c \notin days
        BY <2>3
      <4> HIDE DEF c
      <4>5. c + 1 \in 0..d /\ (c + 1 < d => c < n)
        BY <2>1, <4>1 DEF d
      <4> QED BY <4>1, <4>2, <4>3, <4>4, <4>5
    <3>2. CASE d \notin days
      <4>1. g[d].current = 0
        BY <2>4, <3>2
      <4>2. 0 \in 0..d /\ (d - 0 + 1)..d = {} /\ d - 0 = d
        BY <2>1 DEF d
      <4> QED BY <3>2, <4>1, <4>2
    <3> QED BY <3>1, <3>2
  <2>6. Longest(d)
    <3>1. g[d].current \in Nat /\ d \in 0..d /\ \A e \in 0..d : e = d \/ e \in 0..n
      BY <2>1, <2>5 DEF d
    <3>2. 0..n \subseteq 0..d
      BY <2>1 DEF d
    <3>3. \A e \in 0..n : g[e].current \in Nat /\ g[e].current <= g[n].longest
      BY <2>3
    <3>4. PICK e \in 0..n : g[e].current = g[n].longest
      BY <2>3
    <3>5. g[n].longest \in Nat
      BY <2>3
    <3>6. CASE g[d].current > g[n].longest
      <4>1. g[d].longest = g[d].current
        BY <2>4, <3>6
      <4>2. \A e2 \in 0..n : g[e2].current \in Nat /\ g[e2].current <= g[d].longest
        BY <3>1, <3>3, <3>5, <3>6, <4>1
      <4>3. g[d].longest \in Nat /\ g[d].current <= g[d].longest /\ g[d].current = g[d].longest
        BY <3>1, <4>1
      <4> QED BY <3>1, <4>2, <4>3
    <3>7. CASE ~(g[d].current > g[n].longest)
      <4>1. g[d].longest = g[n].longest
        BY <2>4, <3>7
      <4>2. \A e2 \in 0..n : g[e2].current \in Nat /\ g[e2].current <= g[d].longest
        BY <3>3, <4>1
      <4>3. g[d].longest \in Nat /\ g[d].current <= g[d].longest
        BY <3>1, <3>5, <3>7, <4>1
      <4>4. e \in 0..d /\ g[e].current = g[d].longest
        BY <3>2, <3>4, <4>1
      <4> QED BY <3>1, <4>2, <4>3, <4>4
    <3> QED BY <3>6, <3>7
  <2> QED BY <2>5, <2>6 DEF d
<1>5. \A d \in 0..LastDay : Run(d) /\ Longest(d)
  <2>1. T = Nat
    <3>1. T \in SUBSET Nat
      OBVIOUS
    <3> HIDE DEF T
    <3> QED BY <3>1, <1>3, <1>4, Induction
  <2>2. \A d \in 0..LastDay : d \in T /\ d <= LastDay
    BY <1>0, <2>1
  <2> HIDE DEF Run, Longest
  <2> QED BY <2>2
<1>6. ASSUME LongestRun(days) >= k PROVE \E from \in Day : from..(from + k - 1) \subseteq days
  <2>1. PICK e \in 0..LastDay : g[e].current >= k
    <3>1. Longest(LastDay)
      BY <1>0, <1>5
    <3> QED BY <1>1, <1>6, <3>1
  <2>2. g[e].current \in 0..e /\ (e - g[e].current + 1)..e \subseteq days
    BY <1>5
  <2>3. /\ e - k + 1 \in 1..LastDay /\ e - k + 1 + k - 1 = e
        /\ (e - k + 1)..e \subseteq (e - g[e].current + 1)..e
    BY <1>0, <2>1, <2>2
  <2> QED BY <2>2, <2>3 DEF Day
<1>7. ASSUME NEW from \in Day, from..(from + k - 1) \subseteq days PROVE LongestRun(days) >= k
  <2> DEFINE d == from + k - 1
  <2>1. from \in 1..LastDay /\ d \in from..d
    BY <1>0 DEF Day
  <2>2. d \in 1..LastDay
    BY <1>0, <1>7, <2>1
  <2>3. g[d].current >= k
    <3>1. g[d].current \in 0..d /\ (g[d].current < d => d - g[d].current \notin days)
      BY <1>5, <2>2
    <3>2. ASSUME g[d].current < k PROVE FALSE
      <4>1. d - g[d].current \in from..d /\ g[d].current < d
        BY <3>1, <3>2, <2>1
      <4> QED BY <3>1, <4>1, <1>7
    <3> QED BY <3>1, <3>2
  <2>4. g[d].current <= g[LastDay].longest /\ g[LastDay].longest \in Nat
    <3>1. Longest(LastDay)
      BY <1>0, <1>5
    <3>2. d \in 0..LastDay
      BY <2>2
    <3> QED BY <3>1, <3>2
  <2>5. g[d].current \in Int
    BY <1>5, <2>2
  <2> HIDE DEF d
  <2> QED BY <1>1, <2>3, <2>4, <2>5
<1> QED BY <1>6, <1>7

-----------------------------------------------------------------------------
(* The four decisions, against what was really the case.                   *)

\* What a detection concluded, when it is right or has an excuse.
Excused(d, u, f, failed, flagged) ==
    /\ flagged /\ ~Threat(d, u, f) =>
         \/ Misleads("namesakes", d, u, f)
         \/ /\ d = "credential_hoarding"
            /\ Misleads("peers' namesakes", d, u, f) \/ failed \intersect Peers[u] # {}
         \/ /\ d = "access_broadening"
            /\ Misleads("no profile", d, u, f) \/ "profile" \in failed
         \/ d = "schedule_shift" /\ Misleads("midnight", d, u, f)
    /\ Threat(d, u, f) /\ ~flagged =>
         \/ failed # {}
         \/ d = "credential_hoarding" /\ Misleads("peers' namesakes", d, u, f)
         \/ d = "access_broadening" /\ Misleads("cut", d, u, f)
         \/ d = "schedule_shift" /\ Misleads("namesakes", d, u, f)

(* The threat of hoarding, and the test for it, on the peers' total. *)
Hoards(hits, n, total) ==
    /\ hits * n > peer_multiplier * total
    /\ total = 0 => hits >= min_events_no_peers

LEMMA AverageTest ==
    ASSUME NEW hits \in Nat, NEW n \in Nat \ {0}, NEW total \in Nat
    PROVE  Hoards(hits, n, total) <=>
             IF total > 0 THEN hits * n > peer_multiplier * total ELSE hits >= min_events_no_peers
<1>1. peer_multiplier \in Nat \ {0} /\ min_events_no_peers \in Nat \ {0}
  BY InsiderAssumption
<1>2. (hits > 0 => hits * n > 0) /\ peer_multiplier * 0 = 0
      /\ hits * n \in Nat /\ peer_multiplier * total \in Nat
  BY <1>1
<1>3. CASE total > 0
  <2>1. total # 0
    BY <1>3
  <2> QED BY <1>2, <1>3, <2>1 DEF Hoards
<1>4. CASE total = 0
  <2>1. ~(total > 0)
    BY <1>4
  <2>2. hits >= min_events_no_peers => hits > 0
    BY <1>1
  <2> QED BY <1>2, <1>4, <2>1, <2>2 DEF Hoards
<1> QED BY <1>3, <1>4

\* More hits hoard no less.
LEMMA MoreHits ==
    ASSUME NEW few \in Nat, NEW more \in Nat, few <= more, NEW n \in Nat, NEW total \in Nat,
           Hoards(few, n, total)
    PROVE  Hoards(more, n, total)
<1>1. peer_multiplier \in Nat \ {0} /\ min_events_no_peers \in Nat \ {0}
  BY InsiderAssumption
<1>2. few * n <= more * n
  <2>1. more = few + (more - few) /\ more - few \in Nat
    OBVIOUS
  <2> DEFINE k == more - few
  <2>2. k \in Nat /\ more = few + k
    BY <2>1
  <2> HIDE DEF k
  <2>3. (few + k) * n = few * n + k * n /\ k * n \in Nat /\ few * n \in Nat
    BY <2>2
  <2> QED BY <2>2, <2>3
<1>3. few * n \in Nat /\ more * n \in Nat /\ peer_multiplier * total \in Nat
  BY <1>1
<1> QED BY <1>1, <1>2, <1>3 DEF Hoards

LEMMA NatOrNothing == ASSUME NEW S, S \subseteq Nat, NEW x \in S \union {0}
                      PROVE  x \in Nat
<1>1. CASE x \in S
  BY <1>1
<1>2. CASE x = 0
  BY <1>2
<1> QED BY <1>1, <1>2

LEMMA CredentialsExcused ==
    ASSUME NEW u \in User, NEW f \in Facts("credential_hoarding", u),
           NEW failed \in SUBSET Searches("credential_hoarding", u),
           NEW r \in Answers("credential_hoarding", u, f, failed)
    PROVE  Excused("credential_hoarding", u, f, failed, CredentialHoarding(u, r))
<1> DEFINE P == Peers[u]
           n == Cardinality(P)
           own == f.own
           total == SumOver(own, P)
           seen == SumOver(r, P)
<1>0. /\ own \in [P \union {u} -> Count] /\ f.others \in [P \union {u} -> Count \union {0}]
      /\ failed \in SUBSET (P \union {u})
      /\ r = [v \in P \union {u} |-> IF v \in failed THEN 0 ELSE own[v] + f.others[v]]
  BY DEF Facts, Searches, Answers
<1>1. /\ IsFiniteSet(P) /\ u \notin P
      /\ \A v \in P \union {u} : own[v] \in Nat /\ f.others[v] \in Nat /\ r[v] \in Nat
  <2>1. IsFiniteSet(P) /\ u \notin P /\ Count \subseteq Nat
    BY InsiderAssumption
  <2> DEFINE others == f.others
  <2>2. own \in [P \union {u} -> Count] /\ others \in [P \union {u} -> Count \union {0}]
        /\ r = [v \in P \union {u} |-> IF v \in failed THEN 0 ELSE own[v] + others[v]]
    BY <1>0
  <2> SUFFICES ASSUME NEW v \in P \union {u}
               PROVE  own[v] \in Nat /\ others[v] \in Nat /\ r[v] \in Nat
    BY <2>1
  <2> HIDE DEF P, own, others
  <2>3. own[v] \in Nat /\ others[v] \in Nat
    <3>1. own[v] \in Count \union {0} /\ others[v] \in Count \union {0}
      BY <2>2, Zenon
    <3> QED BY <2>1, <3>1, NatOrNothing
  <2>4. r[v] = IF v \in failed THEN 0 ELSE own[v] + others[v]
    BY <2>2
  <2> QED BY <2>3, <2>4
<1>2. n \in Nat /\ (P # {} => n # 0)
  BY <1>1, FS_CardinalityType, FS_EmptySet
<1>3. total \in Nat /\ seen \in Nat
  <2> HIDE DEF own, P
  <2> QED BY <1>1, SumOfNat
<1>4. Threat("credential_hoarding", u, f) <=> P # {} /\ Hoards(own[u], n, total)
  BY DEF Threat, Hoards, SumOver, MapThenSumSet, MapThenFoldSet
<1>5. CredentialHoarding(u, r) <=>
        P # {} /\ IF seen > 0 THEN r[u] * n > peer_multiplier * seen
                  ELSE r[u] >= min_events_no_peers
  BY Zenon DEF CredentialHoarding, SumOver
<1>m. /\ Misleads("namesakes", "credential_hoarding", u, f) <=> f.others[u] # 0
      /\ Misleads("peers' namesakes", "credential_hoarding", u, f) <=> \E p \in P : f.others[p] # 0
  BY DEF Misleads
<1> HIDE DEF n, total, seen, own
<1>6. CredentialHoarding(u, r) <=> P # {} /\ Hoards(r[u], n, seen)
  BY <1>1, <1>2, <1>3, <1>5, AverageTest
<1>7. \A k \in Nat : ~Hoards(0, k, seen)
  <2>1. peer_multiplier \in Nat \ {0} /\ min_events_no_peers \in Nat \ {0}
    BY InsiderAssumption
  <2>2. peer_multiplier * seen \in Nat
    BY <1>3, <2>1
  <2>3. ASSUME NEW k \in Nat, Hoards(0, k, seen) PROVE FALSE
    <3>3. 0 * k = 0 /\ peer_multiplier * seen >= 0
      BY <2>2
    <3>4. 0 * k > peer_multiplier * seen
      BY <2>3 DEF Hoards
    <3> QED BY <2>2, <3>3, <3>4
  <2> QED BY <2>3
<1>8. ASSUME failed \intersect P = {}, \A p \in P : f.others[p] = 0
      PROVE  seen = total
  <2> HIDE DEF P
  <2>1. ASSUME NEW v \in P PROVE r[v] = own[v]
    <3>1. v \notin failed /\ f.others[v] = 0 /\ own[v] \in Nat
      BY <1>1, <1>8
    <3>2. r[v] = IF v \in failed THEN 0 ELSE own[v] + f.others[v]
      BY <1>0
    <3>3. r[v] = own[v] + f.others[v]
      BY <3>1, <3>2
    <3> HIDE DEF own
    <3> QED BY <3>1, <3>3
  <2> QED BY <2>1, SumSame DEF seen, total
<1>9. r[u] = IF u \in failed THEN 0 ELSE own[u] + f.others[u]
  BY <1>0
<1>o. u \in P \union {u} /\ own[u] \in Nat /\ f.others[u] \in Nat /\ r[u] \in Nat
  BY <1>1
<1> HIDE DEF P
<1>10. ASSUME CredentialHoarding(u, r), failed \intersect P = {}, f.others[u] = 0,
              \A p \in P : f.others[p] = 0
       PROVE  Threat("credential_hoarding", u, f)
  <2>1. u \notin failed
    BY <1>2, <1>6, <1>7, <1>9, <1>10
  <2>2. r[u] = own[u]
    BY <1>9, <1>10, <1>o, <2>1
  <2> QED BY <1>4, <1>6, <1>8, <1>10, <2>2
<1>11. ASSUME Threat("credential_hoarding", u, f), failed = {}, \A p \in P : f.others[p] = 0
       PROVE  CredentialHoarding(u, r)
  <2>1. seen = total
    BY <1>8, <1>11
  <2>2. own[u] <= r[u]
    BY <1>9, <1>11, <1>o
  <2> QED BY <1>2, <1>3, <1>4, <1>6, <1>11, <1>o, <2>1, <2>2, MoreHits
<1> QED BY <1>m, <1>10, <1>11 DEF Excused, P

LEMMA StagingExcused ==
    ASSUME NEW u, NEW f \in Facts("data_staging", u),
           NEW failed \in SUBSET {"profile", "window"},
           NEW r \in Answers("data_staging", u, f, failed)
    PROVE  Excused("data_staging", u, f, failed, DataStaging(r))
<1>0. /\ f.profile \in Profiles(Bytes) /\ f.own \in Bytes /\ f.others \in Bytes \union {0}
      /\ r.profile = IF "profile" \in failed THEN NoField ELSE f.profile
      /\ r.window = IF "window" \in failed THEN 0 ELSE f.own + f.others
  BY DEF Facts, Answers, Others
<1>1. f.profile = NoField \/ f.profile \in Nat
  BY <1>0, InsiderAssumption DEF Profiles
<1>2. f.own \in Nat /\ f.others \in Nat /\ staging_multiplier \in Nat \ {0}
  <2>1. Bytes \subseteq Nat /\ staging_multiplier \in Nat \ {0}
    BY InsiderAssumption
  <2>2. f.own \in Bytes \union {0} /\ f.others \in Bytes \union {0}
    BY <1>0
  <2>3. \A x \in Bytes \union {0} : x \in Nat
    BY <2>1, NatOrNothing
  <2> QED BY <2>1, <2>2, <2>3
<1>3. Threat("data_staging", u, f) <=>
        f.profile \notin {NoField, 0} /\ f.own > staging_multiplier * f.profile
  BY DEF Threat
<1>4. DataStaging(r) <=>
        /\ "profile" \notin failed /\ f.profile \notin {NoField, 0}
        /\ (IF "window" \in failed THEN 0 ELSE f.own + f.others) > staging_multiplier * f.profile
  BY <1>0 DEF DataStaging
<1>5. f.profile \notin {NoField, 0} => staging_multiplier * f.profile \in Nat
  BY <1>1, <1>2
<1>6. f.profile \notin {NoField, 0} => ~(0 > staging_multiplier * f.profile)
  BY <1>5
<1>m. Misleads("namesakes", "data_staging", u, f) <=> f.others # 0
  BY DEF Misleads, NoActs
<1>7. DataStaging(r) /\ f.others = 0 => Threat("data_staging", u, f)
  BY <1>2, <1>3, <1>4, <1>6
<1>8. Threat("data_staging", u, f) /\ failed = {} => DataStaging(r)
  <2>1. f.own + f.others >= f.own
    BY <1>2
  <2> QED BY <1>2, <1>3, <1>4, <1>5, <2>1
<1> QED BY <1>m, <1>7, <1>8 DEF Excused

LEMMA BroadeningExcused ==
    ASSUME NEW u, NEW f \in Facts("access_broadening", u),
           NEW failed \in SUBSET {"profile", "window"},
           NEW r \in Answers("access_broadening", u, f, failed)
    PROVE  Excused("access_broadening", u, f, failed, AccessBroadening(r))
<1> DEFINE all == f.own \union f.others
           new == f.own \ f.profile
           k == new_systems_threshold
<1>0. /\ f.own \subseteq Systems /\ f.others \subseteq Systems
      /\ r.profile = IF "profile" \in failed THEN NoField ELSE f.profile
      /\ r.window = {} \/ r.window \in Listed(all)
      /\ "window" \notin failed => r.window \in Listed(all)
  BY DEF Facts, Answers, Others
<1>1. IsFiniteSet(all) /\ IsFiniteSet(new) /\ k \in Nat \ {0} /\ TermsSize \in Nat
  <2>1. IsFiniteSet(Systems) /\ all \in SUBSET Systems /\ new \in SUBSET Systems
    BY <1>0, InsiderAssumption
  <2> QED BY <2>1, InsiderAssumption, FS_Subset
<1>2. Threat("access_broadening", u, f) <=>
        f.profile # NoField /\ \E S \in SUBSET new : Cardinality(S) = k
  BY DEF Threat
<1>3. (\E S \in SUBSET new : Cardinality(S) = k) <=> Cardinality(new) >= k
  <2> HIDE DEF new, k
  <2>1. Cardinality(new) \in Nat /\ k \in Nat
    BY <1>1, FS_CardinalityType
  <2>2. ASSUME Cardinality(new) >= k PROVE \E S \in SUBSET new : Cardinality(S) = k
    BY <1>1, <2>1, <2>2, SubsetOfSize
  <2>3. \A S \in SUBSET new : Cardinality(S) <= Cardinality(new)
    BY <1>1, FS_Subset
  <2> QED BY <2>1, <2>2, <2>3
<1>4. r.window \subseteq all
  BY <1>0 DEF Listed
<1>5. ASSUME ~(Cardinality(all) > TermsSize), "window" \notin failed
      PROVE  r.window = all
  <2>1. Cardinality(all) <= TermsSize
    BY <1>1, <1>5, FS_CardinalityType
  <2>2. r.window \in SUBSET all /\ Cardinality(r.window) = Cardinality(all)
    BY <1>0, <1>5, <2>1 DEF Listed
  <2> HIDE DEF all
  <2> QED BY <1>1, <2>2, FS_Subset
<1>m. /\ Misleads("namesakes", "access_broadening", u, f) <=> f.others # {}
      /\ Misleads("no profile", "access_broadening", u, f) <=> f.profile = NoField
      /\ Misleads("cut", "access_broadening", u, f) <=> Cardinality(all) > TermsSize
  BY DEF Misleads, NoActs
<1>6. ASSUME AccessBroadening(r), f.others = {}, f.profile # NoField, "profile" \notin failed
      PROVE  Cardinality(new) >= k
  <2>1. r.window \ f.profile \in SUBSET new
    BY <1>4, <1>6
  <2>2. Cardinality(r.window \ f.profile) >= k
    BY <1>0, <1>6 DEF AccessBroadening
  <2> DEFINE seen == r.window \ f.profile
  <2>3. seen \in SUBSET new /\ Cardinality(seen) >= k
    BY <2>1, <2>2
  <2> HIDE DEF seen, new, k
  <2>4. Cardinality(seen) \in Nat /\ Cardinality(new) \in Nat /\ Cardinality(seen) <= Cardinality(new)
    BY <1>1, <2>3, FS_Subset, FS_CardinalityType
  <2> QED BY <1>1, <2>3, <2>4
<1>7. ASSUME Cardinality(new) >= k, f.profile # NoField, failed = {}, ~(Cardinality(all) > TermsSize)
      PROVE  AccessBroadening(r)
  <2>1. r.window = all /\ r.profile = f.profile
    BY <1>0, <1>5, <1>7
  <2> DEFINE seen == all \ f.profile
  <2>2. new \in SUBSET seen /\ seen \in SUBSET all
    OBVIOUS
  <2>3. AccessBroadening(r) <=> Cardinality(seen) >= k
    BY <1>7, <2>1 DEF AccessBroadening
  <2> HIDE DEF seen, new, all, k
  <2>4. IsFiniteSet(seen)
    BY <1>1, <2>2, FS_Subset
  <2>5. Cardinality(seen) \in Nat /\ Cardinality(new) \in Nat /\ Cardinality(new) <= Cardinality(seen)
    BY <1>1, <2>2, <2>4, FS_Subset, FS_CardinalityType
  <2> QED BY <1>1, <1>7, <2>3, <2>5
<1> HIDE DEF new, k, all
<1> QED BY <1>m, <1>2, <1>3, <1>6, <1>7 DEF Excused

\* Apart round the clock is apart without it, and the same within twelve hours.
LEMMA RoundTheClock ==
    ASSUME NEW h \in 0..23, NEW t \in 0..23
    PROVE  /\ Apart(h, t) => Distance(h, t) > shift_hours
           /\ Distance(h, t) > shift_hours /\ ~(Distance(h, t) > 12) => Apart(h, t)
<1>1. shift_hours \in Nat
  BY InsiderAssumption
<1> QED BY <1>1 DEF Apart, Distance

LEMMA ShiftExcused ==
    ASSUME NEW u, NEW f \in Facts("schedule_shift", u),
           NEW failed \in SUBSET {"profile", "window"},
           NEW r \in Answers("schedule_shift", u, f, failed)
    PROVE  Excused("schedule_shift", u, f, failed, ScheduleShift(r))
<1> DEFINE seen == {d \in Day : DayIsShifted(r.window[d], r.profile)}
           days == {d \in Day : f.own[d] # {} /\ \A h \in f.own[d], t \in f.profile : Apart(h, t)}
           k == consecutive_days_threshold
<1>0. /\ f.profile \in Profiles(SUBSET Hour) /\ f.own \in Schedules
      /\ r.profile = IF "profile" \in failed THEN NoField ELSE f.profile
      /\ r.window = IF "window" \in failed THEN NoLogins ELSE [day \in Day |-> f.own[day] \union f.others[day]]
  BY DEF Facts, Answers
<1>1. k \in Nat \ {0} /\ Hour \subseteq 0..23 /\ f.own \in [Day -> SUBSET Hour]
  BY <1>0, InsiderAssumption
<1>2. f.profile # NoField => f.profile \subseteq 0..23
  BY <1>0, <1>1 DEF Profiles
<1>m. /\ Misleads("namesakes", "schedule_shift", u, f) <=> f.others # NoLogins
      /\ Misleads("midnight", "schedule_shift", u, f) <=>
           /\ f.profile # NoField
           /\ \E day \in Day : \E h \in f.own[day], t \in f.profile : Distance(h, t) > 12
  BY DEF Misleads, NoActs
<1>3. ScheduleShift(r) <=> r.profile \notin {NoField, {}} /\ LongestRun(seen) >= k
  BY DEF ScheduleShift
<1>4. LongestRun(seen) >= k <=> \E from \in Day : from..(from + k - 1) \subseteq seen
  <2>1. seen \in SUBSET Day
    OBVIOUS
  <2> HIDE DEF seen, k
  <2> QED BY <1>1, <2>1, LongestRunFound
<1>5. Threat("schedule_shift", u, f) <=>
        f.profile \notin {NoField, {}} /\ \E from \in Day : from..(from + k - 1) \subseteq days
  <2>1. Threat("schedule_shift", u, f) <=>
          /\ f.profile \notin {NoField, {}}
          /\ \E from \in Day : /\ from..(from + k - 1) \subseteq Day
                               /\ \A d \in from..(from + k - 1) :
                                    f.own[d] # {} /\ \A h \in f.own[d], t \in f.profile : Apart(h, t)
    BY DEF Threat
  <2> HIDE DEF k
  <2>2. \A from \in Day : from..(from + k - 1) \subseteq days <=>
          /\ from..(from + k - 1) \subseteq Day
          /\ \A d \in from..(from + k - 1) :
               f.own[d] # {} /\ \A h \in f.own[d], t \in f.profile : Apart(h, t)
    BY Zenon
  <2> HIDE DEF days
  <2> QED BY <2>1, <2>2, Zenon
<1>6. \A d \in Day : f.others = NoLogins => f.own[d] \union f.others[d] = f.own[d]
  BY DEF NoLogins
<1>7. ASSUME ScheduleShift(r), f.others = NoLogins,
             ~\E day \in Day : \E h \in f.own[day], t \in f.profile : Distance(h, t) > 12
      PROVE  Threat("schedule_shift", u, f)
  <2>1. "profile" \notin failed /\ r.profile = f.profile /\ f.profile \notin {NoField, {}}
    BY <1>0, <1>3, <1>7
  <2>2. seen \subseteq days
    <3>1. ASSUME NEW d \in Day, DayIsShifted(r.window[d], r.profile) PROVE d \in days
      <4>1. r.window[d] # {} /\ \A h \in r.window[d], t \in f.profile : Distance(h, t) > shift_hours
        BY <2>1, <3>1 DEF DayIsShifted
      <4>2. "window" \notin failed
        BY <1>0, <4>1 DEF NoLogins
      <4>3. r.window[d] = f.own[d]
        BY <1>0, <1>6, <1>7, <4>2
      <4>4. \A h \in f.own[d], t \in f.profile : Apart(h, t)
        <5>1. TAKE h \in f.own[d], t \in f.profile
        <5>2. h \in 0..23 /\ t \in 0..23
          BY <1>1, <1>2, <2>1
        <5>3. Distance(h, t) > shift_hours /\ ~(Distance(h, t) > 12)
          BY <1>7, <4>1, <4>3
        <5> QED BY <5>2, <5>3, RoundTheClock
      <4> QED BY <4>1, <4>3, <4>4
    <3> QED BY <3>1
  <2> HIDE DEF seen, days, k
  <2> QED BY <1>3, <1>4, <1>5, <1>7, <2>1, <2>2
<1>8. ASSUME Threat("schedule_shift", u, f), failed = {}, f.others = NoLogins
      PROVE  ScheduleShift(r)
  <2>1. r.profile = f.profile /\ f.profile \notin {NoField, {}}
    BY <1>0, <1>5, <1>8
  <2>2. days \subseteq seen
    <3>1. ASSUME NEW d \in Day, f.own[d] # {}, \A h \in f.own[d], t \in f.profile : Apart(h, t)
          PROVE  d \in seen
      <4>1. r.window[d] = f.own[d]
        BY <1>0, <1>6, <1>8
      <4>2. \A h \in f.own[d], t \in f.profile : Distance(h, t) > shift_hours
        <5>1. TAKE h \in f.own[d], t \in f.profile
        <5>2. h \in 0..23 /\ t \in 0..23
          BY <1>1, <1>2, <2>1
        <5> QED BY <3>1, <5>2, RoundTheClock
      <4> QED BY <2>1, <3>1, <4>1, <4>2 DEF DayIsShifted
    <3> QED BY <3>1
  <2> HIDE DEF seen, days, k
  <2> QED BY <1>3, <1>4, <1>5, <1>8, <2>1, <2>2
<1> HIDE DEF seen, days, k
<1> QED BY <1>m, <1>7, <1>8 , <1>3, <1>0 DEF Excused

(* Any of the four. *)
LEMMA DetectionExcused ==
    ASSUME NEW d \in Detections, NEW u \in User, NEW f \in Facts(d, u),
           NEW failed \in SUBSET Searches(d, u), NEW r \in Answers(d, u, f, failed)
    PROVE  Excused(d, u, f, failed, Flags(d, u, r))
<1>1. d \in {"credential_hoarding", "data_staging", "access_broadening", "schedule_shift"}
  BY DEF Detections, DETECTIONS
<1>2. CASE d = "credential_hoarding"
  BY <1>2, CredentialsExcused DEF Flags
<1>s. d # "credential_hoarding" => failed \in SUBSET {"profile", "window"}
  BY DEF Searches
<1>3. CASE d = "data_staging"
  BY <1>3, <1>s, StagingExcused DEF Flags
<1>4. CASE d = "access_broadening"
  BY <1>4, <1>s, BroadeningExcused DEF Flags
<1>5. CASE d = "schedule_shift"
  BY <1>5, <1>s, ShiftExcused DEF Flags
<1> QED BY <1>1, <1>2, <1>3, <1>4, <1>5

(* What is remembered of the latest detection is what Detect found, that   *)
(* it raised, or nothing at all.                                           *)
LEMMA FindingExcused ==
    ASSUME InsiderInv, WrongFindingHasCause, InsiderNext
    PROVE  WrongFindingHasCause'
<1>1. CASE last' = NoDetection
  BY <1>1 DEF WrongFindingHasCause, FalseFlagHasCause, MissHasCause, NoDetection
<1>2. CASE last' = last
  BY <1>2 DEF WrongFindingHasCause, FalseFlagHasCause, MissHasCause
<1>3. ASSUME NEW u \in User, Detect(u) PROVE WrongFindingHasCause'
  <2>1. Detection \in Detections
    BY InsiderConstants DEF InsiderInv, InsiderTypeOK, Cycle, Detection
  <2>2. PICK f \in Facts(Detection, u), failed \in SUBSET Searches(Detection, u) :
          \E answer \in Answers(Detection, u, f, failed) :
            last' = Judged(u, f, failed, FALSE, Flags(Detection, u, answer))
    BY <1>3, Zenon DEF Detect
  <2>3. PICK answer \in Answers(Detection, u, f, failed) :
          last' = Judged(u, f, failed, FALSE, Flags(Detection, u, answer))
    BY <2>2, Zenon
  <2> DEFINE flagged == Flags(Detection, u, answer)
             threat == Threat(Detection, u, f)
  <2>4. Excused(Detection, u, f, failed, flagged)
    BY <2>1, DetectionExcused
  <2>5. /\ last'.detection = Detection /\ last'.user = u /\ last'.failed = failed
        /\ last'.flagged = flagged /\ last'.threat = threat
        /\ last'.misled = {c \in Causes : Misleads(c, Detection, u, f)}
    BY <2>3 DEF Judged
  <2>6. \A c \in Causes : Misleads(c, Detection, u, f) => c \in last'.misled
    BY <2>5
  <2>7. {"namesakes", "peers' namesakes", "no profile", "cut", "midnight"} \subseteq Causes
    BY DEF Causes
  <2> HIDE DEF flagged
  <2>8. threat = Threat(Detection, u, f)
    OBVIOUS
  <2> HIDE DEF threat
  <2>9. FalseFlagHasCause'
    BY <2>4, <2>5, <2>6, <2>7, <2>8 DEF Excused, FalseFlagHasCause
  <2>10. MissHasCause'
    BY <2>4, <2>5, <2>6, <2>7, <2>8 DEF Excused, MissHasCause
  <2> QED BY <2>9, <2>10 DEF WrongFindingHasCause
<1>4. ASSUME NEW u \in User, SkipUser(u) PROVE WrongFindingHasCause'
  <2>1. PICK f \in Facts(Detection, u) : last' = Judged(u, f, {}, TRUE, FALSE)
    BY <1>4 DEF SkipUser
  <2>2. last'.raised = TRUE /\ last'.flagged = FALSE
    BY <2>1 DEF Judged
  <2> QED BY <2>2 DEF WrongFindingHasCause, FalseFlagHasCause, MissHasCause
<1> QED BY <1>1, <1>2, <1>3, <1>4
        DEF InsiderNext, InsiderStep, StartInsiderCycle, WriteInsiderResult,
            EscalateFinding, NextDetection, KillCycle, RestartAfterKill

-----------------------------------------------------------------------------
(* How far a cycle or a request is from its end: fairness makes it move,   *)
(* and that it cannot move for ever is shown here, by counting down.       *)

(* The steps of a cycle after the detection under way: per detection one   *)
(* for each user, the record, an escalation for each user, and the next.   *)
PerDetection == 2 * Len(Users) + 2
LaterDetections(hunt) == (Len(DETECTIONS) - hunt) * PerDetection

CycleLeft ==
    CASE cycle.phase = "detect" ->
           LaterDetections(cycle.hunt) + (Len(Users) - cycle.user) + Len(Users) + 3
      [] cycle.phase = "write" -> LaterDetections(cycle.hunt) + Len(Users) + 2
      [] cycle.phase = "escalate" ->
           LaterDetections(cycle.hunt) + Cardinality(Remaining) + 1
      [] OTHER -> 0

(* The users are no more than the list of them is long. *)
LEMMA UsersAreFew ==
    IsFiniteSet(User) /\ Cardinality(User) <= Len(Users) /\ Cardinality(User) \in Nat
<1>1. ExistsSurjection(1..Len(Users), User)
  <2>1. DOMAIN Users = 1..Len(Users) /\ Users \in Seq(User)
    BY InsiderConstants, InsiderAssumption
  <2>2. Users \in [1..Len(Users) -> User] /\ \A u \in User : \E i \in 1..Len(Users) : Users[i] = u
    BY <2>1 DEF User
  <2> QED BY <2>2 DEF ExistsSurjection, Surjection
<1>2. Len(Users) \in Nat
  BY InsiderConstants
<1>3. IsFiniteSet(User)
  <2>1. IsFiniteSet(1..Len(Users))
    BY <1>2, FS_Interval
  <2>2. PICK g : g \in Surjection(1..Len(Users), User)
    BY <1>1 DEF ExistsSurjection
  <2> QED BY <2>1, <2>2, FS_Surjection
<1> QED BY <1>1, <1>2, <1>3, FS_SurjCardinalityBound, FS_CardinalityType

(* What the later detections take shrinks by a detection at each one. *)
LEMMA LaterDetectionsLeft ==
    ASSUME NEW h \in DOMAIN DETECTIONS
    PROVE  /\ PerDetection \in Nat /\ LaterDetections(h) \in Nat
           /\ LaterDetections(h) <= 3 * PerDetection
           /\ h < Len(DETECTIONS) => LaterDetections(h) = LaterDetections(h + 1) + PerDetection
<1>1. Len(DETECTIONS) = 4 /\ h \in {1, 2, 3, 4} /\ Len(Users) \in Nat
  BY InsiderConstants
<1>2. PerDetection \in Nat
  BY <1>1 DEF PerDetection
<1> HIDE DEF PerDetection
<1>3. CASE h = 1
  BY <1>1, <1>2, <1>3 DEF LaterDetections
<1>4. CASE h = 2
  BY <1>1, <1>2, <1>4 DEF LaterDetections
<1>5. CASE h = 3
  BY <1>1, <1>2, <1>5 DEF LaterDetections
<1>6. CASE h = 4
  BY <1>1, <1>2, <1>6 DEF LaterDetections
<1> QED BY <1>1, <1>3, <1>4, <1>5, <1>6

(* What is still to be escalated is no more than there are users. *)
LEMMA EscalationsLeft ==
    ASSUME NEW r \in Result
    PROVE  LET R == r.escalate \ (r.escalated \union r.refused)
           IN IsFiniteSet(R) /\ Cardinality(R) \in Nat /\ Cardinality(R) \in 0..Len(Users)
<1>1. r.escalate \ (r.escalated \union r.refused) \in SUBSET User
  BY DEF Result
<1> QED BY <1>1, UsersAreFew, InsiderConstants, FS_Subset, FS_CardinalityType

(* A cycle takes at most 8 n + 8 steps for n users. *)
LEMMA CycleLeftBound ==
    ASSUME cycle \in Cycle, result \in Result
    PROVE  CycleLeft \in Nat /\ CycleLeft <= 4 * PerDetection
<1>1. /\ LaterDetections(cycle.hunt) \in Nat /\ LaterDetections(cycle.hunt) <= 3 * PerDetection
      /\ PerDetection \in Nat
  BY LaterDetectionsLeft DEF Cycle
<1>2. cycle.user \in 1..Len(Users) /\ Len(Users) \in Nat /\ PerDetection = 2 * Len(Users) + 2
  BY InsiderConstants DEF Cycle, PerDetection
<1>3. Cardinality(Remaining) \in 0..Len(Users)
  BY EscalationsLeft DEF Remaining
<1> HIDE DEF PerDetection
<1>4. CASE cycle.phase = "detect"
  BY <1>1, <1>2, <1>4 DEF CycleLeft
<1>5. CASE cycle.phase = "write"
  BY <1>1, <1>2, <1>5 DEF CycleLeft
<1>6. CASE cycle.phase = "escalate"
  BY <1>1, <1>2, <1>3, <1>6 DEF CycleLeft
<1>7. CASE cycle.phase \notin {"detect", "write", "escalate"}
  BY <1>1, <1>2, <1>7 DEF CycleLeft
<1> QED BY <1>4, <1>5, <1>6, <1>7

(* A user who is done is one fewer, the last one leads to the record. *)
LEMMA NextUserIsFewer ==
    ASSUME cycle \in Cycle, cycle.phase = "detect", cycle' = NextUser, result' \in Result
    PROVE  CycleLeft' < CycleLeft
<1>1. /\ LaterDetections(cycle.hunt) \in Nat /\ cycle.user \in 1..Len(Users) /\ Len(Users) \in Nat
  BY LaterDetectionsLeft, InsiderConstants DEF Cycle
<1>2. CASE cycle.user < Len(Users)
  <2>1. cycle'.phase = "detect" /\ cycle'.hunt = cycle.hunt /\ cycle'.user = cycle.user + 1
    BY <1>2 DEF NextUser, Cycle
  <2> QED BY <1>1, <2>1 DEF CycleLeft, LaterDetections
<1>3. CASE ~(cycle.user < Len(Users))
  <2>1. cycle'.phase = "write" /\ cycle'.hunt = cycle.hunt
    BY <1>3 DEF NextUser, Cycle
  <2> QED BY <1>1, <2>1 DEF CycleLeft, LaterDetections
<1> QED BY <1>2, <1>3

(* Every step of a cycle, searches that fail included, leaves fewer. *)
LEMMA CycleCountsDown ==
    ASSUME InsiderInv, InsiderInv', InsiderStep
    PROVE  CycleLeft' < CycleLeft
<1>t. cycle \in Cycle /\ result \in Result /\ cycle' \in Cycle /\ result' \in Result
  BY DEF InsiderInv, InsiderTypeOK
<1>1. ASSUME NEW u \in User, SkipUser(u) PROVE CycleLeft' < CycleLeft
  BY <1>1, <1>t, NextUserIsFewer DEF SkipUser
<1>2. ASSUME NEW u \in User, Detect(u) PROVE CycleLeft' < CycleLeft
  BY <1>2, <1>t, NextUserIsFewer DEF Detect
<1>3. CASE WriteInsiderResult
  <2>1. cycle.phase = "write" /\ cycle'.phase = "escalate" /\ cycle'.hunt = cycle.hunt
    BY <1>3, <1>t DEF WriteInsiderResult, Cycle
  <2>2. LaterDetections(cycle.hunt) \in Nat /\ Len(Users) \in Nat
    BY <1>t, LaterDetectionsLeft, InsiderConstants DEF Cycle
  <2>3. Cardinality(Remaining') \in 0..Len(Users)
    BY <1>t, EscalationsLeft DEF Remaining
  <2> QED BY <2>1, <2>2, <2>3 DEF CycleLeft
<1>4. ASSUME NEW u \in User, EscalateFinding(u) PROVE CycleLeft' < CycleLeft
  <2>1. /\ cycle.phase = "escalate" /\ cycle' = cycle /\ u \in Remaining
        /\ \/ result' = [result EXCEPT !.escalated = result.escalated \union {u}]
           \/ result' = [result EXCEPT !.refused = result.refused \union {u}]
    BY <1>4 DEF EscalateFinding
  <2>2. Remaining' = Remaining \ {u}
    BY <2>1, <1>t DEF Result, Remaining
  <2>3. IsFiniteSet(Remaining) /\ Cardinality(Remaining) \in Nat
    BY <1>t, EscalationsLeft DEF Remaining
  <2>4. Cardinality(Remaining') = Cardinality(Remaining) - 1
    <3>1. \A S : IsFiniteSet(S) /\ u \in S => Cardinality(S \ {u}) = Cardinality(S) - 1
      BY FS_RemoveElement
    <3> QED BY <2>1, <2>2, <2>3, <3>1
  <2>5. LaterDetections(cycle.hunt) \in Nat
    BY <1>t, LaterDetectionsLeft DEF Cycle
  <2> QED BY <2>1, <2>3, <2>4, <2>5 DEF CycleLeft
<1>5. CASE NextDetection
  <2>0. /\ cycle.phase = "escalate"
        /\ cycle' = IF cycle.hunt < Len(DETECTIONS)
                    THEN [Idle EXCEPT !.phase = "detect", !.hunt = cycle.hunt + 1] ELSE Idle
    BY <1>5 DEF NextDetection
  <2>1. LaterDetections(cycle.hunt) \in Nat /\ cycle.hunt \in DOMAIN DETECTIONS /\ Len(Users) \in Nat
    BY <1>t, LaterDetectionsLeft, InsiderConstants DEF Cycle
  <2>2. Cardinality(Remaining) \in Nat
    BY <1>t, EscalationsLeft DEF Remaining
  <2>3. CycleLeft >= LaterDetections(cycle.hunt) + 1
    BY <2>0, <2>1, <2>2 DEF CycleLeft
  <2>4. CASE cycle.hunt < Len(DETECTIONS)
    <3>1. cycle'.phase = "detect" /\ cycle'.hunt = cycle.hunt + 1 /\ cycle'.user = 1
      BY <2>0, <2>4 DEF Idle
    <3>2. LaterDetections(cycle.hunt) = LaterDetections(cycle'.hunt) + PerDetection
      BY <2>1, <2>4, <3>1, LaterDetectionsLeft
    <3>3. LaterDetections(cycle'.hunt) \in Nat /\ PerDetection = 2 * Len(Users) + 2
      BY <1>t, LaterDetectionsLeft DEF Cycle, PerDetection
    <3>4. CycleLeft' = LaterDetections(cycle'.hunt) + (Len(Users) - 1) + Len(Users) + 3
      BY <3>1 DEF CycleLeft
    <3>5. CycleLeft' = LaterDetections(cycle'.hunt) + PerDetection
      BY <2>1, <3>3, <3>4
    <3>6. CycleLeft \in Nat
      BY <1>t, CycleLeftBound
    <3> QED BY <2>1, <2>3, <3>2, <3>5, <3>6
  <2>5. CASE ~(cycle.hunt < Len(DETECTIONS))
    <3>1. cycle'.phase = "idle"
      BY <2>0, <2>5 DEF Idle
    <3>2. CycleLeft' = 0
      BY <3>1 DEF CycleLeft
    <3>3. CycleLeft \in Nat
      BY <1>t, CycleLeftBound
    <3> QED BY <2>1, <2>3, <3>2, <3>3
  <2> QED BY <2>4, <2>5
<1> QED BY <1>1, <1>2, <1>3, <1>4, <1>5 DEF InsiderStep

(* The steps of a request after the playbook at hand: four for each, one   *)
(* more to load it.                                                        *)
LaterPlaybooks == 4 * (Len(directory) - yaml.at)

RequestLeft ==
    IF yaml.phase = "load" THEN (Len(directory) - yaml.at) + 4 * Len(directory) + 1
    ELSE IF yaml.phase = "search" THEN LaterPlaybooks + 4
    ELSE IF yaml.phase \in {"record", "record failure"} THEN LaterPlaybooks + 3
    ELSE IF yaml.phase = "escalate" THEN LaterPlaybooks + 2
    ELSE IF yaml.phase = "next" THEN LaterPlaybooks + 1
    ELSE 0

(* While a request runs, the playbook at hand is one of the directory. *)
LEMMA AtPlaybook ==
    ASSUME YamlInv
    PROVE  /\ Len(directory) \in Nat /\ yaml.at \in Nat \ {0} /\ yaml \in Request
           /\ yaml.phase \in Running \union {"load"} => yaml.at <= Len(directory)
<1>1. YamlTypeOK /\ (yaml.phase \in Running \union {"load"} => yaml.at \in DOMAIN directory)
  BY DEF YamlInv
<1>2. /\ DOMAIN directory = 1..Len(directory) /\ Len(directory) \in Nat
      /\ yaml.at \in Nat \ {0} /\ yaml \in Request
  BY <1>1, DirectoryType
<1> QED BY <1>1, <1>2

(* The steps left, phase by phase. *)
LEMMA RequestLeftIs ==
    /\ yaml.phase = "load" => RequestLeft = (Len(directory) - yaml.at) + 4 * Len(directory) + 1
    /\ yaml.phase = "search" => RequestLeft = LaterPlaybooks + 4
    /\ yaml.phase \in {"record", "record failure"} => RequestLeft = LaterPlaybooks + 3
    /\ yaml.phase = "escalate" => RequestLeft = LaterPlaybooks + 2
    /\ yaml.phase = "next" => RequestLeft = LaterPlaybooks + 1
    /\ yaml.phase \notin {"load", "search", "record", "record failure", "escalate", "next"}
         => RequestLeft = 0
  BY DEF RequestLeft

(* The arithmetic of a request. *)
LEMMA FourAndFive ==
    ASSUME NEW n \in Nat, NEW k \in Nat \ {0}
    PROVE  /\ 4 * n \in Nat /\ 5 * n \in Nat /\ 4 * n + n = 5 * n
           /\ n - k \in Int /\ 4 * (n - k) \in Int
           /\ 4 * (n - (k + 1)) = 4 * (n - k) - 4 /\ 4 * (n - 1) = 4 * n - 4
           /\ k <= n => 4 * (n - k) \in Nat /\ 4 * (n - k) + 4 <= 4 * n
  OBVIOUS

(* A request for n playbooks takes at most 5 n steps. *)
LEMMA RequestLeftBound ==
    ASSUME YamlInv
    PROVE  RequestLeft \in Nat /\ RequestLeft <= 5 * Len(directory)
<1>1. Len(directory) \in Nat /\ yaml.at \in Nat \ {0}
  BY AtPlaybook
<1>2. yaml.phase \in {"load", "search", "record", "record failure", "escalate", "next"}
        => yaml.at <= Len(directory)
  BY AtPlaybook DEF Running
<1>3. /\ 4 * Len(directory) \in Nat /\ 5 * Len(directory) \in Nat
      /\ 4 * Len(directory) + Len(directory) = 5 * Len(directory)
  BY <1>1, FourAndFive
<1>4. yaml.at <= Len(directory) =>
        LaterPlaybooks \in Nat /\ LaterPlaybooks + 4 <= 4 * Len(directory)
  BY <1>1, FourAndFive DEF LaterPlaybooks
<1>5. CASE yaml.phase = "load"
  <2>1. RequestLeft = (Len(directory) - yaml.at) + 4 * Len(directory) + 1 /\ yaml.at <= Len(directory)
    BY <1>2, <1>5, RequestLeftIs
  <2> QED BY <1>1, <1>3, <2>1
<1>6. CASE yaml.phase \in {"search", "record", "record failure", "escalate", "next"}
  <2>1. /\ RequestLeft \in {LaterPlaybooks + 1, LaterPlaybooks + 2, LaterPlaybooks + 3, LaterPlaybooks + 4}
        /\ yaml.at <= Len(directory)
    BY <1>2, <1>6, RequestLeftIs
  <2> QED BY <1>1, <1>3, <1>4, <2>1
<1>7. CASE yaml.phase \notin {"load", "search", "record", "record failure", "escalate", "next"}
  <2>1. RequestLeft = 0
    BY <1>7, RequestLeftIs
  <2> QED BY <1>1, <1>3, <2>1
<1> QED BY <1>5, <1>6, <1>7

(* Every step of a request leaves fewer, whatever it loads or finds. *)
LEMMA RequestCountsDown ==
    ASSUME YamlInv, YamlStep
    PROVE  RequestLeft' < RequestLeft
<1> DEFINE n == Len(directory)
           later(k) == 4 * (n - k)
<1>1. /\ n \in Nat /\ yaml.at \in Nat \ {0} /\ yaml \in Request
      /\ yaml.phase \in Running \union {"load"} => yaml.at <= n
  BY AtPlaybook
<1>2. directory' = directory
  BY DEF YamlStep, LoadPlaybook, SearchForHunt, RecordHunt, EscalateHunt, NextPlaybook
<1>3. /\ later(yaml.at) \in Int /\ n - yaml.at \in Int /\ 4 * n \in Nat
      /\ later(yaml.at + 1) = later(yaml.at) - 4 /\ later(1) = 4 * n - 4
      /\ yaml.at <= n => later(yaml.at) \in Nat
  BY <1>1, FourAndFive
<1>4. LaterPlaybooks = later(yaml.at) /\ LaterPlaybooks' = later(yaml'.at)
  BY <1>2 DEF LaterPlaybooks
<1>5. /\ yaml'.phase = "load" => RequestLeft' = (n - yaml'.at) + 4 * n + 1
      /\ yaml'.phase = "search" => RequestLeft' = later(yaml'.at) + 4
      /\ yaml'.phase \in {"record", "record failure"} => RequestLeft' = later(yaml'.at) + 3
      /\ yaml'.phase = "escalate" => RequestLeft' = later(yaml'.at) + 2
      /\ yaml'.phase = "next" => RequestLeft' = later(yaml'.at) + 1
      /\ yaml'.phase \in Ended => RequestLeft' = 0
  <2>1. ( /\ yaml.phase = "load" => RequestLeft = (Len(directory) - yaml.at) + 4 * Len(directory) + 1
          /\ yaml.phase = "search" => RequestLeft = LaterPlaybooks + 4
          /\ yaml.phase \in {"record", "record failure"} => RequestLeft = LaterPlaybooks + 3
          /\ yaml.phase = "escalate" => RequestLeft = LaterPlaybooks + 2
          /\ yaml.phase = "next" => RequestLeft = LaterPlaybooks + 1
          /\ yaml.phase \notin {"load", "search", "record", "record failure", "escalate", "next"}
               => RequestLeft = 0 )'
    BY RequestLeftIs, PTL
  <2>2. \A e \in Ended : e \notin {"load", "search", "record", "record failure", "escalate", "next"}
    BY DEF Ended
  <2> QED BY <1>2, <1>4, <2>1, <2>2
<1> HIDE DEF later
<1>6. CASE LoadPlaybook
  <2>1. \/ yaml'.phase = "refused"
        \/ yaml.at < n /\ yaml'.phase = "load" /\ yaml'.at = yaml.at + 1
        \/ ~(yaml.at < n) /\ yaml'.phase = "search" /\ yaml'.at = 1
    BY <1>1, <1>6 DEF LoadPlaybook, Request
  <2>2. yaml.phase = "load" /\ yaml.at <= n
    BY <1>1, <1>6 DEF LoadPlaybook
  <2>3. RequestLeft = (n - yaml.at) + 4 * n + 1
    BY <2>2, RequestLeftIs
  <2>4. \/ RequestLeft' = 0
        \/ RequestLeft' = (n - (yaml.at + 1)) + 4 * n + 1
        \/ RequestLeft' = later(1) + 4
    BY <1>5, <2>1 DEF Ended
  <2> HIDE DEF n
  <2>5. n - (yaml.at + 1) = n - yaml.at - 1 /\ n - yaml.at \in Nat
    BY <1>1, <2>2
  <2> QED BY <1>1, <1>3, <2>3, <2>4, <2>5
<1>7. CASE SearchForHunt
  <2>1. /\ yaml.phase = "search" /\ yaml.at <= n /\ yaml'.at = yaml.at
        /\ yaml'.phase \in {"record", "record failure"} \/ yaml'.phase = "aborted"
    BY <1>1, <1>7 DEF SearchForHunt, Request, Running
  <2>2. RequestLeft = later(yaml.at) + 4 /\ RequestLeft' \in {later(yaml.at) + 3, 0}
    BY <1>4, <1>5, <2>1, RequestLeftIs DEF Ended
  <2>3. later(yaml.at) \in Nat
    BY <1>3, <2>1
  <2> QED BY <2>2, <2>3
<1>8. CASE RecordHunt
  <2>1. /\ yaml.phase \in {"record", "record failure"} /\ yaml'.phase \in {"escalate", "next"}
        /\ yaml'.at = yaml.at
    BY <1>1, <1>8 DEF RecordHunt, Request
  <2>2. RequestLeft = later(yaml.at) + 3
    BY <1>4, <2>1, RequestLeftIs
  <2>3. RequestLeft' \in {later(yaml.at) + 2, later(yaml.at) + 1}
    BY <1>5, <2>1
  <2> QED BY <1>3, <2>2, <2>3
<1>9. CASE EscalateHunt
  <2>1. yaml.phase = "escalate" /\ yaml'.phase = "next" /\ yaml'.at = yaml.at
    BY <1>1, <1>9 DEF EscalateHunt, Request
  <2>2. RequestLeft = later(yaml.at) + 2 /\ RequestLeft' = later(yaml.at) + 1
    BY <1>4, <1>5, <2>1, RequestLeftIs
  <2> QED BY <1>3, <2>2
<1>10. CASE NextPlaybook
  <2>1. \/ yaml.at < n /\ yaml'.phase = "search" /\ yaml'.at = yaml.at + 1
        \/ yaml'.phase = "answered"
    BY <1>1, <1>10 DEF NextPlaybook, Request
  <2>2. yaml.phase = "next" /\ yaml.at <= n
    BY <1>1, <1>10 DEF NextPlaybook, Running
  <2>3. RequestLeft = later(yaml.at) + 1
    BY <1>4, <2>2, RequestLeftIs
  <2>4. RequestLeft' = later(yaml.at + 1) + 4 \/ RequestLeft' = 0
    BY <1>5, <2>1 DEF Ended
  <2> QED BY <1>3, <2>2, <2>3, <2>4
<1> QED BY <1>6, <1>7, <1>8, <1>9, <1>10 DEF YamlStep

-----------------------------------------------------------------------------
(* The three engines together.                                             *)

IInv == InsiderInv /\ WindowsInv /\ YamlInv /\ engine \in Engines

LEMMA IInvInit == Init => IInv
  BY InsiderStart, WindowsStart, YamlStart DEF Init, IInv

LEMMA IInvStep == IInv /\ [Next]_huntVars => IInv'
<1> SUFFICES ASSUME IInv, [Next]_huntVars PROVE IInv'
  OBVIOUS
<1>1. CASE InsiderJob
  <2>1. InsiderNext /\ UNCHANGED <<engine, windowVars, yamlVars>>
    BY <1>1 DEF InsiderJob, InsiderNext
  <2> QED BY <2>1, InsiderKept, WindowsSame, YamlSame DEF IInv
<1>2. CASE DefaultJob
  <2>1. WindowsStep /\ UNCHANGED <<engine, insiderVars, yamlVars>>
    BY <1>2 DEF DefaultJob
  <2> QED BY <2>1, WindowsKept, InsiderSame, YamlSame DEF IInv
<1>3. CASE TriggerRequest
  <2>1. (TriggerHunt \/ YamlStep) /\ UNCHANGED <<engine, insiderVars, windowVars>>
    BY <1>3 DEF TriggerRequest
  <2> QED BY <2>1, YamlKept, InsiderSame, WindowsSame DEF IInv
<1>4. CASE UNCHANGED huntVars
  <2>1. UNCHANGED <<engine, insiderVars, windowVars, yamlVars>>
    BY <1>4 DEF huntVars, insiderVars, windowVars, yamlVars
  <2> QED BY <2>1, InsiderSame, WindowsSame, YamlSame DEF IInv
<1> QED BY <1>1, <1>2, <1>3, <1>4 DEF Next

(* The inductive invariant of the three engines, from which the others follow. *)
THEOREM Invariance == Spec => []IInv
<1>1. Init => IInv
  BY IInvInit
<1>2. IInv /\ [Next]_huntVars => IInv'
  BY IInvStep
<1> QED BY <1>1, <1>2, PTL DEF Spec

(* The three engines' variables keep the shapes run_hunt,                  *)
(* run_all_insider_threat_hunts and run_all_yaml_hunts give them.          *)
THEOREM TypeCorrect == Spec => []TypeOK
<1>1. IInv => TypeOK
  BY DEF IInv, InsiderInv, WindowsInv, YamlInv, TypeOK
<1> QED BY <1>1, Invariance, PTL

(* Every escalation of an insider finding follows its detection's record   *)
(* (run_all_insider_threat_hunts writes before it escalates).              *)
THEOREM EscalationFollowsRecord == Spec => []EscalationIsOnRecord
<1>1. IInv => EscalationIsOnRecord
  BY DEF IInv, InsiderInv
<1> QED BY <1>1, Invariance, PTL

(* When a detection is finished, or was killed after its record, the       *)
(* record tells whether it escalated, unless all escalations failed or the *)
(* kill came before the first; and one that finished has tried them all.   *)
THEOREM RecordsAreTrue == Spec => RecordIsTrue
<1>1. IInv /\ [Next]_huntVars =>
        [result.written # "no" /\ result' = NoFindings =>
           /\ result.escalated # {} => result.escalatedField
           /\ result.escalatedField => \/ result.escalated # {}
                                       \/ cycle.phase = "killed" \/ result.refused # {}
           /\ cycle.phase # "killed" =>
                 result.escalated \union result.refused = IF result.escalatedField THEN result.findings ELSE {}]_insiderVars
  <2> SUFFICES ASSUME IInv, [Next]_huntVars, result.written # "no", result' = NoFindings
               PROVE  /\ result.escalated # {} => result.escalatedField
                      /\ result.escalatedField => \/ result.escalated # {}
                                                  \/ cycle.phase = "killed" \/ result.refused # {}
                      /\ cycle.phase # "killed" =>
                            result.escalated \union result.refused
                              = IF result.escalatedField THEN result.findings ELSE {}
    OBVIOUS
  <2>1. result' # result
    BY NothingFound
  <2>2. InsiderJob
    BY <2>1 DEF Next, DefaultJob, TriggerRequest, huntVars, insiderVars
  <2>3. InsiderNext
    BY <2>2 DEF InsiderJob, InsiderNext
  <2> QED BY <2>3, RecordKept DEF IInv
<1> QED BY <1>1, Invariance, PTL DEF Spec, RecordIsTrue

(* What a detection gets wrong about what a user did has a cause: a search *)
(* that failed, acts of namesakes a prefix search finds, a missing profile, *)
(* midnight, a cut list, or that it raised.  Detect holds the searches and *)
(* the four decisions; every other step keeps or forgets the latest.       *)
THEOREM WrongFindingsHaveCause == Spec => []WrongFindingHasCause
<1>1. Init => WrongFindingHasCause
  BY DEF Init, InsiderInit, NoDetection, WrongFindingHasCause, FalseFlagHasCause, MissHasCause
<1>2. IInv /\ WrongFindingHasCause /\ [Next]_huntVars => WrongFindingHasCause'
  <2> SUFFICES ASSUME IInv, WrongFindingHasCause, [Next]_huntVars PROVE WrongFindingHasCause'
    OBVIOUS
  <2>1. CASE InsiderJob
    <3>1. InsiderNext
      BY <2>1 DEF InsiderJob, InsiderNext
    <3> QED BY <3>1, FindingExcused DEF IInv
  <2>2. CASE last' = last
    BY <2>2 DEF WrongFindingHasCause, FalseFlagHasCause, MissHasCause
  <2> QED BY <2>1, <2>2 DEF Next, DefaultJob, TriggerRequest, huntVars, insiderVars
<1> QED BY <1>1, <1>2, Invariance, PTL DEF Spec

(* run_hunt escalates one finding again at most once per interval of its   *)
(* window, across failures and restarts of the scheduler.                  *)
THEOREM RepeatsBounded == Spec => []RepeatsAreBounded
<1>1. IInv => RepeatsAreBounded
  BY WindowsMeaning DEF IInv
<1> QED BY <1>1, Invariance, PTL

(* No event that is indexed in time slips between two cycles of run_hunt.  *)
THEOREM TimelyEventsAreCaught == Spec => []NoTimelyEventIsLost
<1>1. IInv => NoTimelyEventIsLost
  BY WindowsMeaning DEF IInv
<1> QED BY <1>1, Invariance, PTL

(* run_all_yaml_hunts runs no playbook when one cannot be loaded, and else *)
(* all of them or those before the one that cannot be run; its records say *)
(* of which an escalation was tried, but for a threshold that asks for     *)
(* nothing; and only what playbook and threshold allow was escalated.      *)
THEOREM RequestsAreFaithful == Spec => []RequestIsFaithful
<1>1. IInv => RequestIsFaithful
  BY YamlMeaning DEF IInv
<1> QED BY <1>1, Invariance, PTL

(* A cycle of the insider hunts takes at most 8 n + 8 steps of its own for *)
(* n users, and a request at most 5 n for n playbooks, whatever fails: the *)
(* loops of run_all_insider_threat_hunts and run_all_yaml_hunts count down. *)
(* That a fair process makes these steps is EveryCycleEnds.                *)
THEOREM CyclesCountDown ==
    Spec => /\ [](CycleLeft \in 0..4 * PerDetection /\ RequestLeft \in 0..5 * Len(directory))
            /\ [][/\ InsiderStep => CycleLeft' < CycleLeft
                  /\ YamlStep => RequestLeft' < RequestLeft]_huntVars
<1>1. IInv => CycleLeft \in 0..4 * PerDetection /\ RequestLeft \in 0..5 * Len(directory)
  <2> SUFFICES ASSUME IInv
               PROVE  CycleLeft \in 0..4 * PerDetection /\ RequestLeft \in 0..5 * Len(directory)
    OBVIOUS
  <2>1. CycleLeft \in Nat /\ CycleLeft <= 4 * PerDetection /\ 4 * PerDetection \in Nat
    BY CycleLeftBound, InsiderConstants DEF IInv, InsiderInv, InsiderTypeOK, PerDetection
  <2>2. RequestLeft \in Nat /\ RequestLeft <= 5 * Len(directory) /\ 5 * Len(directory) \in Nat
    BY RequestLeftBound, AtPlaybook DEF IInv
  <2> QED BY <2>1, <2>2
<1>2. IInv /\ IInv' => (InsiderStep => CycleLeft' < CycleLeft) /\ (YamlStep => RequestLeft' < RequestLeft)
  BY CycleCountsDown, RequestCountsDown DEF IInv
<1>3. IInv /\ IInv' /\ [Next]_huntVars =>
        [/\ InsiderStep => CycleLeft' < CycleLeft
         /\ YamlStep => RequestLeft' < RequestLeft]_huntVars
  BY <1>2
<1> QED BY <1>1, <1>3, Invariance, PTL DEF Spec
=============================================================================
