---------------------------- MODULE InsiderHunts ----------------------------
(***************************************************************************)
(* One cycle of run_all_insider_threat_hunts (tools/insider_threat.py):    *)
(* four detections, each over every known user, one record per detection   *)
(* in siem-hunt-results, and an escalation into the alert graph for each   *)
(* finding.  A finding can be wrong: a failed search is answered like an   *)
(* empty one, a search by the prefix of a name finds the acts of others    *)
(* too, the list of systems is cut, the clock does not wrap at midnight,   *)
(* and a detection that raises passes its user over.                       *)
(*                                                                         *)
(* Abstracted: names, evidence texts and the alert handed to the graph.    *)
(* What a search would find is chosen when it is made, so the index may    *)
(* change from one user to the next.                                       *)
(***************************************************************************)
EXTENDS Integers, Sequences, FiniteSets, FiniteSetsExt

CONSTANTS
    NoField,            \* a profile that is missing, or has no such field
    Users,              \* the users of _DEPARTMENT_SEED, in its order
    Peers,              \* user -> the others of its department
    Namesakes,          \* users whose name begins that of an account not in the seed
    TermsSize,          \* the systems a search lists at most (50)
    Systems, Hour,      \* agents logged in to; hours of a login
    LastDay,            \* the days of the longest lookback are 1..LastDay
    Count, Bytes,       \* hits of the credential search; outbound bytes of a day
    Schedules,          \* the logins a search may return: day -> set of hours
    peer_multiplier, min_events_no_peers, staging_multiplier,
    new_systems_threshold, shift_hours, consecutive_days_threshold,
    escalate_if_found   \* detection -> BOOLEAN

DETECTIONS == <<"credential_hoarding", "data_staging", "access_broadening", "schedule_shift">>
Detections == {DETECTIONS[i] : i \in DOMAIN DETECTIONS}
User == {Users[i] : i \in DOMAIN Users}
Day == 1..LastDay

ASSUME InsiderAssumption ==
    /\ User # {} /\ Users \in Seq(User)
    /\ Peers \in [User -> SUBSET User] /\ \A u \in User : u \notin Peers[u] /\ IsFiniteSet(Peers[u])
    /\ Namesakes \subseteq User
    /\ IsFiniteSet(Systems) /\ TermsSize \in Nat
    /\ Count \subseteq Nat /\ Bytes \subseteq Nat /\ Hour \subseteq 0..23 /\ LastDay \in Nat
    /\ Schedules \subseteq [Day -> SUBSET Hour]
    /\ {peer_multiplier, min_events_no_peers, staging_multiplier, new_systems_threshold,
        shift_hours, consecutive_days_threshold} \subseteq Nat \ {0}
    /\ escalate_if_found \in [Detections -> BOOLEAN]

VARIABLES
    cycle,      \* the cycle in progress
    result,     \* what it wrote for the detection under way, and what it escalated
    last        \* history: the latest detection of a user, and what was really the case

insiderVars == <<cycle, result, last>>

-----------------------------------------------------------------------------
(* What there is to find: what the user did, and what was done by others   *)
(* that a search for the prefix of its name finds as well (no user of the  *)
(* seed has a name that begins another's).                                 *)

Profiles(values) == values \union {NoField}
NoLogins == [d \in Day |-> {}]
NoActs(d) == CASE d = "access_broadening" -> {} [] d = "schedule_shift" -> NoLogins [] OTHER -> 0
Others(u, values, nothing) == IF u \in Namesakes THEN values ELSE {nothing}

Facts(d, u) ==
    CASE d = "credential_hoarding" ->
           LET V == Peers[u] \union {u}
           IN [own : [V -> Count],
               others : {g \in [V -> Count \union {0}] : \A v \in V : g[v] \in Others(v, Count, 0)}]
      [] d = "data_staging" ->
           [profile : Profiles(Bytes), own : Bytes, others : Others(u, Bytes, 0)]
      [] d = "access_broadening" ->
           [profile : Profiles(SUBSET Systems), own : SUBSET Systems, others : Others(u, SUBSET Systems, {})]
      [] d = "schedule_shift" ->
           [profile : Profiles(SUBSET Hour), own : Schedules, others : Others(u, Schedules, NoLogins)]

Searches(d, u) ==
    IF d = "credential_hoarding" THEN Peers[u] \union {u} ELSE {"profile", "window"}

(* A terms aggregation lists TermsSize buckets, and which is up to the index. *)
Listed(systems) ==
    {S \in SUBSET systems : Cardinality(S) = IF Cardinality(systems) <= TermsSize
                                             THEN Cardinality(systems) ELSE TermsSize}

(* What the helpers return.  They swallow an error: no profile, 0, nothing. *)
Answers(d, u, f, failed) ==
    LET profile == IF "profile" \in failed THEN NoField ELSE f.profile
        Window(answer, nothing) == IF "window" \in failed THEN nothing ELSE answer
    IN CASE d = "credential_hoarding" ->
              {[v \in Peers[u] \union {u} |-> IF v \in failed THEN 0 ELSE f.own[v] + f.others[v]]}
         [] d = "data_staging" ->
              {[profile |-> profile, window |-> Window(f.own + f.others, 0)]}
         [] d = "access_broadening" ->
              [profile : {profile}, window : Window(Listed(f.own \union f.others), {{}})]
         [] d = "schedule_shift" ->
              {[profile |-> profile,
                window |-> Window([day \in Day |-> f.own[day] \union f.others[day]], NoLogins)]}

-----------------------------------------------------------------------------
(* The four decisions, on what the searches returned.                      *)

CredentialHoarding(u, hits) ==
    LET total == MapThenSumSet(LAMBDA v : hits[v], Peers[u])     \* their average is total / n
    IN /\ Peers[u] # {}
       /\ IF total > 0
          THEN hits[u] * Cardinality(Peers[u]) > peer_multiplier * total
          ELSE hits[u] >= min_events_no_peers

DataStaging(r) == r.profile \notin {NoField, 0} /\ r.window > staging_multiplier * r.profile

AccessBroadening(r) ==
    LET historical == IF r.profile = NoField THEN {} ELSE r.profile
    IN Cardinality(r.window \ historical) >= new_systems_threshold

Distance(h, t) == IF h < t THEN t - h ELSE h - t

(* min(...) > shift_hours for every login: no clock wraps at midnight.     *)
DayIsShifted(hours, typical) ==
    hours # {} /\ \A h \in hours, t \in typical : Distance(h, t) > shift_hours

\* Mutant: the run that is under way at the end, not the longest.
LastRun(days) ==
    LET run[d \in 0..LastDay] == IF d = 0 \/ d \notin days THEN 0 ELSE run[d - 1] + 1
    IN run[LastDay]

(* The counting loop over the shifted days in order.                       *)
LongestRun(days) ==
    LET runs[d \in 0..LastDay] ==     \* the run that ends on day d, the longest so far
          IF d = 0 THEN [current |-> 0, longest |-> 0]
          ELSE LET run == IF d \in days THEN runs[d - 1].current + 1 ELSE 0
               IN [current |-> run,
                   longest |-> IF run > runs[d - 1].longest THEN run ELSE runs[d - 1].longest]
    IN runs[LastDay].longest

ScheduleShift(r) ==
    /\ r.profile \notin {NoField, {}}
    /\ LongestRun({d \in Day : DayIsShifted(r.window[d], r.profile)}) >= consecutive_days_threshold

Flags(d, u, r) ==
    CASE d = "credential_hoarding" -> CredentialHoarding(u, r)
      [] d = "data_staging"        -> DataStaging(r)
      [] d = "access_broadening"   -> AccessBroadening(r)
      [] d = "schedule_shift"      -> ScheduleShift(r)

-----------------------------------------------------------------------------
(* The same, said of what was really the case: the hypotheses of the hunts. *)

(* More than shift_hours apart, whichever way round the clock.             *)
Apart(h, t) == \A turn \in {-24, 0, 24} : h + turn > t + shift_hours \/ t > h + turn + shift_hours

Threat(d, u, f) ==
    CASE d = "credential_hoarding" ->
           LET total == MapThenSumSet(LAMBDA v : f.own[v], Peers[u])
           IN /\ Peers[u] # {} /\ f.own[u] * Cardinality(Peers[u]) > peer_multiplier * total
              /\ total = 0 => f.own[u] >= min_events_no_peers
      [] d = "data_staging" ->
           f.profile \notin {NoField, 0} /\ f.own > staging_multiplier * f.profile
      [] d = "access_broadening" ->
           /\ f.profile # NoField
           /\ \E S \in SUBSET (f.own \ f.profile) : Cardinality(S) = new_systems_threshold
      [] d = "schedule_shift" ->
           /\ f.profile \notin {NoField, {}}
           /\ \E from \in Day :
                 LET run == from..(from + consecutive_days_threshold - 1)
                 IN run \subseteq Day /\ \A day \in run :
                      f.own[day] # {} /\ \A h \in f.own[day], t \in f.profile : Apart(h, t)

(* What may mislead a detection though nothing fails.                      *)
Causes == {"namesakes", "peers' namesakes", "no profile", "cut", "midnight"}
Misleads(c, d, u, f) ==
    LET peered == d = "credential_hoarding"
    IN CASE c = "namesakes" -> IF peered THEN f.others[u] # 0 ELSE f.others # NoActs(d)
         [] c = "peers' namesakes" -> peered /\ \E p \in Peers[u] : f.others[p] # 0
         [] c = "no profile" -> ~peered /\ f.profile = NoField
         [] c = "cut" -> d = "access_broadening" /\ Cardinality(f.own \union f.others) > TermsSize
         [] c = "midnight" -> /\ d = "schedule_shift" /\ f.profile # NoField
                              /\ \E day \in Day : \E h \in f.own[day], t \in f.profile : Distance(h, t) > 12

-----------------------------------------------------------------------------

Phases == {"idle", "detect", "write", "escalate", "killed"}
Cycle == [phase : Phases, hunt : DOMAIN DETECTIONS, user : DOMAIN Users]
Result == [findings : SUBSET User, escalate : SUBSET User,      \* those whose finding says "escalate"
           written : {"no", "yes", "lost"}, escalatedField : BOOLEAN,
           escalated : SUBSET User, refused : SUBSET User]      \* what became of the escalations
Latest == [detection : Detections \union {"none"}, user : User,
           failed : SUBSET (User \union {"profile", "window"}), raised : BOOLEAN,
           misled : SUBSET Causes, flagged : BOOLEAN, threat : BOOLEAN]

NoFindings == [findings |-> {}, escalate |-> {}, written |-> "no", escalatedField |-> FALSE,
               escalated |-> {}, refused |-> {}]
NoDetection == [detection |-> "none", user |-> Users[1], failed |-> {}, raised |-> FALSE,
                misled |-> {}, flagged |-> FALSE, threat |-> FALSE]
Idle == [phase |-> "idle", hunt |-> 1, user |-> 1]

InsiderInit == cycle = Idle /\ result = NoFindings /\ last = NoDetection

Detection == DETECTIONS[cycle.hunt]
\* Mutants: one user too many; the users over and over.
NextUserRunsOver == IF cycle.user <= Len(Users) THEN [cycle EXCEPT !.user = cycle.user + 1]
                    ELSE [cycle EXCEPT !.phase = "write", !.user = 1]
NextUserWraps == IF cycle.user < Len(Users) THEN [cycle EXCEPT !.user = cycle.user + 1]
                 ELSE [cycle EXCEPT !.user = 1]

NextUser == IF cycle.user < Len(Users) THEN [cycle EXCEPT !.user = cycle.user + 1]
            ELSE [cycle EXCEPT !.phase = "write", !.user = 1]

StartInsiderCycle ==
    /\ cycle.phase = "idle"
    /\ cycle' = [Idle EXCEPT !.phase = "detect"]
    /\ UNCHANGED <<result, last>>

Judged(u, f, failed, raised, flagged) ==
    [detection |-> Detection, user |-> u, failed |-> failed, raised |-> raised,
     misled |-> {c \in Causes : Misleads(c, Detection, u, f)},
     flagged |-> flagged, threat |-> Threat(Detection, u, f)]

(* fn(username, cfg): its searches, and the decision on what they return.  *)
Detect(u) ==
    /\ cycle.phase = "detect" /\ u = Users[cycle.user]
    /\ \E f \in Facts(Detection, u), failed \in SUBSET Searches(Detection, u) :
       \E answer \in Answers(Detection, u, f, failed) :
         LET flagged == Flags(Detection, u, answer)
         IN /\ result' = IF ~flagged THEN result
                         ELSE [result EXCEPT !.findings = result.findings \union {u},
                                !.escalate = IF escalate_if_found[Detection]
                                             THEN result.escalate \union {u} ELSE result.escalate]
            /\ last' = Judged(u, f, failed, FALSE, flagged)
    /\ cycle' = NextUser

(* A detection that raises, on a profile it cannot read or a setting that  *)
(* is no number, skips its user.                                           *)
SkipUser(u) ==
    /\ cycle.phase = "detect" /\ u = Users[cycle.user]
    /\ \E f \in Facts(Detection, u) : last' = Judged(u, f, {}, TRUE, FALSE)
    /\ cycle' = NextUser
    /\ UNCHANGED result

\* Mutant: the record says "escalated" whenever there are findings.
WriteInsiderResultAnyway ==
    /\ cycle.phase = "write"
    /\ \E written \in {"yes", "lost"} :
         result' = [result EXCEPT !.written = written, !.escalatedField = result.findings # {}]
    /\ cycle' = [cycle EXCEPT !.phase = "escalate"] /\ last' = NoDetection

(* write_hunt_result_to_es swallows its error: the record may be lost.  It *)
(* says "escalated" before anything is.                                    *)
WriteInsiderResult ==
    /\ cycle.phase = "write"
    /\ \E written \in {"yes", "lost"} :
         result' = [result EXCEPT !.written = written, !.escalatedField = result.escalate # {}]
    /\ cycle' = [cycle EXCEPT !.phase = "escalate"] /\ last' = NoDetection

(* The findings in the users' order.  An escalation that fails, for want   *)
(* of the graph or in it, is swallowed and not tried again.                *)
Remaining == result.escalate \ (result.escalated \union result.refused)

EscalateFinding(u) ==
    /\ cycle.phase = "escalate" /\ u \in Remaining
    /\ \A i \in DOMAIN Users : Users[i] = u => \A j \in 1..(i - 1) : Users[j] \notin Remaining
    /\ \/ result' = [result EXCEPT !.escalated = result.escalated \union {u}]
       \/ result' = [result EXCEPT !.refused = result.refused \union {u}]
    /\ UNCHANGED <<cycle, last>>

NextDetection ==
    /\ cycle.phase = "escalate" /\ Remaining = {}
    /\ cycle' = IF cycle.hunt < Len(DETECTIONS)
                THEN [Idle EXCEPT !.phase = "detect", !.hunt = cycle.hunt + 1] ELSE Idle
    /\ result' = NoFindings
    /\ UNCHANGED last

(* The process may be killed at any point of a cycle and starts anew.      *)
KillCycle ==
    /\ cycle.phase \in {"detect", "write", "escalate"}
    /\ cycle' = [cycle EXCEPT !.phase = "killed"]
    /\ UNCHANGED <<result, last>>

RestartAfterKill ==
    /\ cycle.phase = "killed"
    /\ cycle' = Idle /\ result' = NoFindings /\ last' = NoDetection

InsiderStep ==
    \/ WriteInsiderResult \/ NextDetection
    \/ \E u \in User : Detect(u) \/ SkipUser(u) \/ EscalateFinding(u)

-----------------------------------------------------------------------------
(* Properties.                                                             *)

InsiderTypeOK == cycle \in Cycle /\ result \in Result /\ last \in Latest

(* A user who did nothing of the kind is flagged only when: the acts of    *)
(* namesakes were taken for its own, or, for credentials, for its peers';  *)
(* a search for a peer failed and lowered the average; there is no profile *)
(* to tell a new system by, or it could not be read; midnight lay between  *)
(* a login and the usual hours.  No other failure accuses anyone.          *)
FalseFlagHasCause ==
    last.flagged /\ ~last.threat =>
        \/ "namesakes" \in last.misled
        \/ /\ last.detection = "credential_hoarding"
           /\ "peers' namesakes" \in last.misled \/ last.failed \intersect Peers[last.user] # {}
        \/ /\ last.detection = "access_broadening"
           /\ "no profile" \in last.misled \/ "profile" \in last.failed
        \/ last.detection = "schedule_shift" /\ "midnight" \in last.misled

(* A user who is a threat is missed only when the detection raised or a    *)
(* search failed; or, for credentials, the acts of a peer's namesakes were *)
(* added to the average; or the list of systems was cut; or a namesake     *)
(* kept the usual hours.                                                   *)
MissHasCause ==
    last.threat /\ ~last.flagged =>
        \/ last.raised \/ last.failed # {}
        \/ last.detection = "credential_hoarding" /\ "peers' namesakes" \in last.misled
        \/ last.detection = "access_broadening" /\ "cut" \in last.misled
        \/ last.detection = "schedule_shift" /\ "namesakes" \in last.misled

(* Whatever a detection of run_all_insider_threat_hunts gets wrong has a   *)
(* cause of this kind, be it an accusation or a miss.                      *)
WrongFindingHasCause == FalseFlagHasCause /\ MissHasCause

(* Nobody is escalated, or tried to be, who was not flagged, or before the *)
(* record of the hunt was written or lost, saying so.                      *)
EscalationIsOnRecord ==
    LET tried == result.escalated \union result.refused
    IN tried # {} => result.written # "no" /\ result.escalatedField /\ tried \subseteq result.findings

(* When a hunt is done, or was killed after its record: a record that says *)
(* nothing was escalated is right, and one that says so is wrong only when *)
(* every escalation failed or the process was killed before one was made.  *)
(* And a hunt that was not killed has tried to escalate all its findings   *)
(* or, as its playbook has it, none.                                       *)
RecordIsTrue ==
    [][result.written # "no" /\ result' = NoFindings =>
         /\ result.escalated # {} => result.escalatedField
         /\ result.escalatedField => \/ result.escalated # {}
                                     \/ cycle.phase = "killed" \/ result.refused # {}
         /\ cycle.phase # "killed" =>
               result.escalated \union result.refused = IF result.escalatedField THEN result.findings ELSE {}]_insiderVars

(* Whatever fails, a cycle that is not killed comes to its end.            *)
InsiderCycleEnds == cycle.phase # "idle" ~> cycle.phase \in {"idle", "killed"}
=============================================================================
