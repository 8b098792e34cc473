---------------------------- MODULE AlertPipeline ----------------------------
(***************************************************************************)
(* The pipeline runner: the poll loop that takes Wazuh alerts from the     *)
(* index through the agent graph (coordination, triage, hunting, response) *)
(* and the hunt scheduler that, on a thread of its own, feeds synthetic    *)
(* alerts into the same graph.  Both act on the outside: firewall blocks,  *)
(* tickets, the verdict written back on the alert, the tenant mirror and   *)
(* the notifications.                                                      *)
(*                                                                         *)
(* Covered: alerts indexed late, equal timestamps, a batch cut by its      *)
(* size, exceptions inside the graph, every external call failing or       *)
(* losing its effect, a crash between any two external calls, restarts,    *)
(* and the interleaving of the two threads.                                *)
(*                                                                         *)
(* Differences from the code: an alert's fields are fixed data (Content);  *)
(* the language model answers any verdict; the number of recent events     *)
(* from a source is one of EventCounts; an agent's name, the fallback      *)
(* target, is never shaped like an address; siem-response-log, which the   *)
(* pipeline only writes and never lets fail a step, is left out, as are    *)
(* notes, summaries and the escalate flag, which no step reads; the hunt   *)
(* jobs run one at a time and their windows reach back to every alert.     *)
(***************************************************************************)
EXTENDS ConfidenceScoring, FiniteSets

CONSTANTS
    Alerts,        \* the alerts Wazuh will write
    NoAlert,       \* none of them
    Content,       \* their documents
    BatchSize,     \* BATCH_SIZE: alerts fetched per poll
    LookBack,      \* how far before its start a runner looks for alerts
    AutoExecute,   \* RESPONSE_AUTO_EXECUTE
    EventCounts,   \* how many recent events a source address may have
    Unreliable,    \* the external calls that may fail
    MaxTime,       \* bound on the clock
    MaxSessions,   \* bound on runner starts
    MaxHunts       \* bound on escalated hunts

Calls == {"cti", "search", "wazuh", "github", "writeback", "mirror", "notify"}

ASSUME ContentAssumption ==
    /\ Content \in [Alerts -> Documents]
    /\ \A a \in Alerts : Content[a].anomaly # {}
ASSUME NoAlertAssumption == NoAlert \notin Alerts
ASSUME BatchAssumption == BatchSize \in Nat \ {0}
ASSUME TimeAssumption == LookBack \in Nat /\ MaxTime \in Nat
ASSUME SwitchAssumption == AutoExecute \in BOOLEAN
ASSUME EventAssumption == EventCounts \subseteq Nat /\ EventCounts # {}
ASSUME FaultAssumption == Unreliable \subseteq Calls
ASSUME BoundAssumption == MaxSessions \in Nat /\ MaxHunts \in Nat

Threads == {"poller", "hunter"}

\* An alert no verdict has been written on.
Open == "open"

NoRun == [alert |-> NoAlert, pct |-> 0, cti |-> 0, matched |-> FALSE,
          verdict |-> Open]

PollerSteps == {"down", "poll", "loop", "triage", "hunting", "respond",
                "block", "ticket", "writeback", "mirror", "notify", "advance"}
HunterSteps == {"down", "idle", "triage", "hunting", "respond", "block",
                "ticket"}

VARIABLES
    now,       \* wall clock
    indexed,   \* alerts present in logs-wazuh.alerts-*
    record,    \* triage.verdict of each alert document, or Open
    pc,        \* next step of each thread
    run,       \* the graph state each thread carries
    since,     \* start timestamp of the session
    cursor,    \* last_seen_ts
    batch,     \* fetched alerts the poll loop has not reached yet
    session,   \* runner starts so far
    hunts,     \* escalated hunts so far
    trail,     \* history: decisions, actions, mirrors and notices
    ran,       \* history: alerts this session has run
    runs,      \* history: how often this session has run each alert
    late       \* history: alerts indexed behind the session's cursor

vars == <<now, indexed, record, pc, run, since, cursor, batch, session, hunts,
          trail, ran, runs, late>>

Ts(a) == Content[a].ts

------------------------------------------------------------------------------
(* The alert a hunt makes of its first finding: level 12, a rule and groups *)
(* of its own, and the source, "unknown" when the finding has none.         *)

Synthetic(d) ==
    [d EXCEPT !.rule = "other", !.level = 12, !.groups = {},
              !.srcip = IF @ = "absent" THEN "other" ELSE @]

Doc(t) == LET d == Content[run[t].alert]
          IN  IF t = "poller" THEN d ELSE Synthetic(d)

\* The channels LangGraph keeps of an input state; the others are dropped.
Channels == {"alert", "alert_es_id", "alert_es_index", "confidence",
             "confidence_pct", "technique", "notes", "escalate",
             "triage_result", "response_actions", "response_results"}

HuntPct == 85

PreScored(t) == t = "hunter" /\ "_pre_scored" \in Channels

Round(t) == IF t = "poller" THEN session ELSE hunts

Event(t, step) == [thread |-> t, alert |-> run[t].alert, round |-> Round(t),
                   step |-> step, verdict |-> run[t].verdict]

\* An external call leaves its effect, or does not when it may fail.
Attempt(call, t, step) ==
    \/ trail' = trail \cup {Event(t, step)}
    \/ call \in Unreliable /\ UNCHANGED trail

MayFail(call) == call \in Unreliable

Goto(t, step) == pc' = [pc EXCEPT ![t] = step]

\* Mutant: after a graph that raised the loop goes on with what it has.
AfterErrorGoesOn(t) == IF t = "poller" THEN "writeback" ELSE "idle"

\* Mutant: a graph that raised is tried again.
AfterErrorRetries(t) == IF t = "poller" THEN "triage" ELSE "idle"

AfterGraph(t) == IF t = "poller" THEN "writeback" ELSE "idle"
AfterError(t) == IF t = "poller" THEN "advance" ELSE "idle"

------------------------------------------------------------------------------
Init ==
    /\ now = 0
    /\ indexed = {}
    /\ record = [a \in Alerts |-> Open]
    /\ pc = [t \in Threads |-> "down"]
    /\ run = [t \in Threads |-> NoRun]
    /\ since = 0 /\ cursor = 0
    /\ batch = {}
    /\ session = 0 /\ hunts = 0
    /\ trail = {} /\ ran = {} /\ late = {}
    /\ runs = [a \in Alerts |-> 0]

pipelineVars == <<record, pc, run, since, cursor, batch, session, hunts, trail,
                  ran, runs>>

Tick ==
    /\ now < MaxTime
    /\ now' = now + 1
    /\ UNCHANGED <<indexed, late, pipelineVars>>

InFlight == batch \cup ({run["poller"].alert} \cap Alerts)

\* The cursor is, or is about to be moved, past a timestamp.
Passed(ts) ==
    /\ pc["poller"] # "down"
    /\ ts <= cursor \/ \E b \in InFlight : ts <= Ts(b)

(* Filebeat delivers an alert, at or after the time it was raised. *)
Index(a) ==
    /\ a \notin indexed /\ Ts(a) <= now
    /\ indexed' = indexed \cup {a}
    /\ late' = IF Passed(Ts(a)) THEN late \cup {a} ELSE late
    /\ UNCHANGED <<now, pipelineVars>>

------------------------------------------------------------------------------
(* The poll loop *)

Start ==
    /\ pc = [t \in Threads |-> "down"]
    /\ session < MaxSessions
    /\ session' = session + 1
    /\ pc' = [t \in Threads |-> IF t = "poller" THEN "poll" ELSE "idle"]
    /\ since' = IF now > LookBack THEN now - LookBack ELSE 0
    /\ cursor' = since'
    /\ ran' = {} /\ late' = {} /\ runs' = [a \in Alerts |-> 0]
    /\ UNCHANGED <<now, indexed, record, run, batch, hunts, trail>>

\* Mutant: the range includes the cursor.
EligibleFromCursor == {a \in indexed : record[a] = Open /\ Ts(a) >= cursor}

\* What get_unprocessed_alerts' query matches.
Eligible == {a \in indexed : record[a] = Open /\ Ts(a) > cursor}

\* Mutant: the newest hits come first.
PagesNewestFirst ==
    {S \in SUBSET Eligible :
        /\ Cardinality(S) <= BatchSize
        /\ Cardinality(S) = BatchSize \/ S = Eligible
        /\ \A a \in S, b \in Eligible \ S : Ts(a) >= Ts(b)}

\* The first BatchSize hits in timestamp order; ties break either way.
Pages ==
    {S \in SUBSET Eligible :
        /\ Cardinality(S) <= BatchSize
        /\ Cardinality(S) = BatchSize \/ S = Eligible
        /\ \A a \in S, b \in Eligible \ S : Ts(a) <= Ts(b)}

\* An empty page leaves the loop where it is; a failed search returns one.
Poll ==
    /\ pc["poller"] = "poll"
    /\ \E page \in Pages \cup (IF MayFail("search") THEN {{}} ELSE {}) :
         /\ batch' = page
         /\ Goto("poller", IF page = {} THEN "poll" ELSE "loop")
    /\ UNCHANGED <<now, indexed, record, run, since, cursor, session, hunts,
                   trail, ran, runs, late>>

\* Feed lookups fail one by one; of those that answer the most confident wins.
CtiHits(iocs) ==
    {[matched |-> TRUE, cti |-> c] :
        c \in {c \in iocs : MayFail("cti") \/ \A x \in iocs : x <= c}}

CtiOutcomes(iocs) ==
    IF iocs # {} /\ ~MayFail("cti") THEN CtiHits(iocs)
    ELSE CtiHits(iocs) \cup {[matched |-> FALSE, cti |-> 0]}

(* run_pipeline_once up to the edge out of coordination: threat-intel      *)
(* enrichment, the score, the graph's entry and its conditional edge.      *)
Ingest(a) ==
    /\ pc["poller"] = "loop"
    /\ a \in batch /\ \A b \in batch : Ts(a) <= Ts(b)
    /\ \E hit \in CtiOutcomes(Content[a].iocs), s \in Content[a].anomaly :
         LET pct == Score(Content[a], hit.matched, s) IN
         /\ run' = [run EXCEPT !["poller"] =
                     [alert |-> a, pct |-> pct, cti |-> hit.cti,
                      matched |-> hit.matched, verdict |-> Open]]
         /\ Goto("poller", IF RouteAfterCoordination(pct, hit.cti) = "triage"
                           THEN "triage" ELSE "advance")
    /\ batch' = batch \ {a}
    /\ ran' = ran \cup {a}
    /\ runs' = [runs EXCEPT ![a] = @ + 1]
    /\ UNCHANGED <<now, indexed, record, since, cursor, session, hunts, trail,
                   late>>

AdvanceTo(ts) ==
    /\ pc["poller"] = "advance"
    /\ cursor' = ts
    /\ run' = [run EXCEPT !["poller"] = NoRun]
    /\ Goto("poller", IF batch = {} THEN "poll" ELSE "loop")
    /\ UNCHANGED <<now, indexed, record, since, batch, session, hunts, trail,
                   ran, runs, late>>

\* Mutant: last_seen_ts stays.
AdvanceWithoutCursor == AdvanceTo(cursor)

\* Mutant: last_seen_ts becomes the time of the poll.
AdvanceToClock == AdvanceTo(now)

\* The rest of the loop body: last_seen_ts, then the next hit or the next poll.
Advance ==
    AdvanceTo(IF Ts(run["poller"].alert) > cursor
              THEN Ts(run["poller"].alert) ELSE cursor)

------------------------------------------------------------------------------
(* The graph, on either thread *)

RunVars == <<now, indexed, record, since, cursor, batch, session, hunts, ran,
             runs, late>>

(* A search inside a node raises: the graph is abandoned. *)
NodeRaises(t) ==
    /\ pc[t] \in {"triage", "hunting"}
    /\ MayFail("search")
    /\ Goto(t, AfterError(t))
    /\ run' = IF t = "hunter" THEN [run EXCEPT ![t] = NoRun] ELSE run
    /\ UNCHANGED <<trail, RunVars>>

\* The pre-classifier decides unless an indicator matched; else the model does.
TriageVerdicts(d, matched) ==
    IF matched \/ PreClassify(d) = "none" THEN Verdicts ELSE {PreClassify(d)}

\* get_recent_events is only called when the alert names a source.
RecentEvents(d) == IF d.srcip = "absent" THEN {0} ELSE EventCounts

\* Mutant: the percentage is only set where there is none.
TriageKeepsScore(t) ==
    /\ pc[t] = "triage"
    /\ \E verdict \in TriageVerdicts(Doc(t), run[t].matched) :
         run' = [run EXCEPT ![t] = [run[t] EXCEPT !.verdict = verdict]]
    /\ Goto(t, "hunting")
    /\ UNCHANGED <<trail, RunVars>>

Triage(t) ==
    /\ pc[t] = "triage"
    /\ \E verdict \in TriageVerdicts(Doc(t), run[t].matched),
          n \in RecentEvents(Doc(t)) :
         run' = [run EXCEPT ![t] =
                   [run[t] EXCEPT
                      !.verdict = verdict,
                      !.pct = IF PreScored(t) THEN run[t].pct
                              ELSE ConfidenceFromVerdict(verdict, n)]]
    /\ Goto(t, "hunting")
    /\ UNCHANGED <<trail, RunVars>>

Hunting(t) ==
    /\ pc[t] = "hunting"
    /\ Goto(t, "respond")
    /\ UNCHANGED <<run, trail, RunVars>>

(* response_node up to its first action. *)
Respond(t) ==
    /\ pc[t] = "respond"
    /\ trail' = trail \cup {Event(t, "decide")}
    /\ LET act == /\ IsActionable(run[t].verdict, run[t].pct, run[t].cti)
                  /\ AutoExecute
           next == IF ~act THEN AfterGraph(t)
                   ELSE IF Doc(t).srcip = "ipv4" THEN "block" ELSE "ticket"
       IN  /\ Goto(t, next)
           /\ run' = IF next = "idle" THEN [run EXCEPT ![t] = NoRun] ELSE run
    /\ UNCHANGED RunVars

Block(t) ==
    /\ pc[t] = "block"
    /\ Attempt("wazuh", t, "block")
    /\ Goto(t, "ticket")
    /\ UNCHANGED <<run, RunVars>>

Ticket(t) ==
    /\ pc[t] = "ticket"
    /\ Attempt("github", t, "ticket")
    /\ Goto(t, AfterGraph(t))
    /\ run' = IF t = "hunter" THEN [run EXCEPT ![t] = NoRun] ELSE run
    /\ UNCHANGED RunVars

------------------------------------------------------------------------------
(* What the poll loop does with the finished state *)

WriteBack ==
    /\ pc["poller"] = "writeback"
    /\ \/ record' = [record EXCEPT ![run["poller"].alert] =
                                                   run["poller"].verdict]
       \/ MayFail("writeback") /\ UNCHANGED record
    /\ Goto("poller", "mirror")
    /\ UNCHANGED <<now, indexed, run, since, cursor, batch, session, hunts,
                   trail, ran, runs, late>>

Mirror ==
    /\ pc["poller"] = "mirror"
    /\ Attempt("mirror", "poller", "mirror")
    /\ Goto("poller", "notify")
    /\ UNCHANGED <<run, RunVars>>

Notify ==
    /\ pc["poller"] = "notify"
    /\ Attempt("notify", "poller", "notice")
    /\ Goto("poller", "advance")
    /\ UNCHANGED <<run, RunVars>>

------------------------------------------------------------------------------
(* The hunt scheduler *)

AfterHoursLogin(d) == "authentication_success" \in d.groups /\ AfterHours(d.hour)

\* What the two default playbooks find.
Findings == {{a \in indexed : AfterHoursLogin(Content[a])},
             {a \in indexed : "sudo" \in Content[a].groups}}

(* A hunt hands its latest finding to the graph, whose edge out of          *)
(* coordination the fixed 85 passes.  One job runs several playbooks in     *)
(* turn, so a job that outlives the poll loop may still start another.      *)
StartHunt(a) ==
    /\ pc["hunter"] = "idle"
    /\ hunts < MaxHunts
    /\ \E found \in Findings : a \in found /\ \A b \in found : Ts(b) <= Ts(a)
    /\ hunts' = hunts + 1
    /\ run' = [run EXCEPT !["hunter"] =
                [alert |-> a, pct |-> HuntPct, cti |-> 0, matched |-> FALSE,
                 verdict |-> Open]]
    /\ Goto("hunter", IF RouteAfterCoordination(HuntPct, 0) = "triage"
                      THEN "triage" ELSE "idle")
    /\ UNCHANGED <<now, indexed, record, since, cursor, batch, session, trail,
                   ran, runs, late>>

------------------------------------------------------------------------------
(* The process stops *)

Crash ==
    /\ pc # [t \in Threads |-> "down"]
    /\ session < MaxSessions
    /\ pc' = [t \in Threads |-> "down"]
    /\ run' = [t \in Threads |-> NoRun]
    /\ batch' = {}
    /\ UNCHANGED <<now, indexed, record, since, cursor, session, hunts, trail,
                   ran, runs, late>>

(* Ctrl-C ends the poll loop wherever it is; the scheduler is shut down    *)
(* without waiting, and the process ends when its job has.                 *)
Interrupt ==
    /\ pc["poller"] # "down"
    /\ session < MaxSessions
    /\ pc' = [pc EXCEPT !["poller"] = "down",
                        !["hunter"] = IF @ = "idle" THEN "down" ELSE @]
    /\ run' = [run EXCEPT !["poller"] = NoRun]
    /\ batch' = {}
    /\ UNCHANGED <<now, indexed, record, since, cursor, session, hunts, trail,
                   ran, runs, late>>

HunterExits ==
    /\ pc["poller"] = "down" /\ pc["hunter"] = "idle"
    /\ Goto("hunter", "down")
    /\ UNCHANGED <<run, trail, RunVars>>

------------------------------------------------------------------------------
Graph(t) == NodeRaises(t) \/ Triage(t) \/ Hunting(t) \/ Respond(t) \/ Block(t)
            \/ Ticket(t)

Loop == Poll \/ (\E a \in Alerts : Ingest(a)) \/ WriteBack \/ Mirror \/ Notify
        \/ Advance

Next ==
    \/ Tick \/ Start \/ Crash \/ Interrupt \/ HunterExits
    \/ \E a \in Alerts : Index(a) \/ StartHunt(a)
    \/ Loop
    \/ \E t \in Threads : Graph(t)

Spec == Init /\ [][Next]_vars

\* Index, tracker, SSH and webhook calls have timeouts, and the language model,
\* whose call has none, is assumed to answer or to raise: so a started step
\* ends.  Nothing obliges alerts, hunts, crashes or restarts to happen.
FairSpec == Spec /\ WF_vars(Loop \/ Graph("poller"))
                 /\ WF_vars(Graph("hunter") \/ HunterExits)
------------------------------------------------------------------------------
(* Properties *)

TypeOK ==
    /\ now \in 0..MaxTime
    /\ indexed \subseteq Alerts
    /\ record \in [Alerts -> Verdicts \cup {Open}]
    /\ pc \in [Threads -> PollerSteps \cup HunterSteps]
    /\ run \in [Threads -> [alert: Alerts \cup {NoAlert}, pct: Percent,
                            cti: Percent, matched: BOOLEAN,
                            verdict: Verdicts \cup {Open}]]
    /\ since \in Nat /\ cursor \in Nat
    /\ batch \subseteq Alerts
    /\ session \in 0..MaxSessions /\ hunts \in 0..MaxHunts
    /\ trail \subseteq [thread: Threads, alert: Alerts, round: Nat,
                        step: {"decide", "block", "ticket", "mirror", "notice"},
                        verdict: Verdicts]
    /\ ran \subseteq Alerts /\ late \subseteq Alerts
    /\ runs \in [Alerts -> Nat]

(* No session of the runner runs an alert twice, whatever the poll query,   *)
(* the cursor, failed write-backs and late indexing bring up again: only a  *)
(* restart, which sets the count back, can run it again.                    *)
OncePerSession == \A a \in Alerts : runs[a] <= 1

(* The first verdict written on an alert document is never overwritten:     *)
(* neither a restart's second look nor a hunt about the same alert does so. *)
VerdictIsFinal ==
    [][\A a \in Alerts : record[a] # Open => record'[a] = record[a]]_vars

(* The poll loop leaves an alert behind its cursor, unprocessed and not in  *)
(* hand, only when it predates the session's look-back, was indexed after   *)
(* the loop had reached its timestamp, or shares its timestamp with an      *)
(* alert that made the page.                                                *)
SkipHasCause ==
    \A a \in indexed \ (ran \cup InFlight) :
        pc["poller"] # "down" /\ record[a] = Open /\ Ts(a) <= cursor
          => \/ Ts(a) <= since
             \/ a \in late
             \/ \E b \in ran : Ts(b) = Ts(a)

Effects == {"block", "ticket"}

PollerEvents(steps) == {e \in trail : e.thread = "poller" /\ e.step \in steps}

(* A block or a ticket of the poll loop rests on evidence of its own: a     *)
(* threat-intel entry above the override, or ten recent events from a       *)
(* source the alert names.  The score that got the alert into triage is     *)
(* never enough, however high: triage replaces it.                          *)
EffectsNeedEvidence ==
    \A e \in PollerEvents(Effects) :
        \/ \E c \in Content[e.alert].iocs : c > CtiOverride
        \/ /\ \E n \in EventCounts : n >= 10
           /\ Content[e.alert].srcip # "absent"

(* The 85 a hunt gives its alert comes through triage and clears the        *)
(* response threshold on its own merits: what response_agent's, the hunting *)
(* agent's and triage's notes say of the pre-scored state.                  *)
HuntClearsThreshold ==
    pc["hunter"] = "respond" /\ run["hunter"].verdict = "suspicious"
      => IsActionable("suspicious", run["hunter"].pct, run["hunter"].cti)

DecidedLater(e, verdict) ==
    \E d \in PollerEvents({"decide"}) :
        d.alert = e.alert /\ d.round > e.round /\ d.verdict = verdict

(* The tenant mirror and the notification tell what was decided, after the  *)
(* decision, and what the alert document says from then on.  They and the   *)
(* document disagree only after a write-back failed: then the document is   *)
(* open still, or closed by the decision of a later session; never by a     *)
(* hunt, and never by the same session a second time.                       *)
NoticeReflectsOutcome ==
    \A e \in trail :
        e.step \in {"mirror", "notice"} =>
          /\ [e EXCEPT !.step = "decide"] \in trail
          /\ \/ record[e.alert] = e.verdict
             \/ /\ MayFail("writeback")
                /\ \/ record[e.alert] = Open
                   \/ DecidedLater(e, record[e.alert])

DecisionOf(e) == [alert |-> e.alert, round |-> e.round, verdict |-> e.verdict]

Ledger == INSTANCE AlertLedger WITH
    Rounds <- 0..MaxSessions,
    Actions <- Effects,
    Messages <- {"mirror", "notice"},
    NotClosed <- Open,
    verdict <- record,
    decided <- {DecisionOf(e) : e \in PollerEvents({"decide"})},
    acted <- {[decision |-> DecisionOf(e), action |-> e.step] :
                e \in PollerEvents(Effects)},
    told <- {[decision |-> DecisionOf(e), message |-> e.step] :
                e \in PollerEvents({"mirror", "notice"})}

(* The poll loop keeps the promise of AlertLedger: one decision per alert   *)
(* and session, taken while the document is open; actions only between a    *)
(* suspicious decision and the write-back; the verdict written and told is  *)
(* the one decided; nothing on behalf of an earlier session.                *)
LedgerSpec == Ledger!Init /\ [][Ledger!Next]_Ledger!ledgerVars

Timely(a) ==
    /\ pc["poller"] # "down"
    /\ a \in indexed \ late /\ record[a] = Open /\ Ts(a) > since
    /\ \A b \in Alerts \ {a} : Ts(b) # Ts(a)

(* An alert that is indexed before the loop reaches its timestamp, which no *)
(* other alert shares, is run, unless the runner stops.                     *)
TimelyAlertIsRun ==
    \A a \in Alerts : Timely(a) ~> (a \in ran \/ pc["poller"] = "down")

(* A fetched page is worked off and the loop polls again, whatever raises   *)
(* or fails on the way.                                                     *)
PageIsWorkedOff == (batch # {}) ~> (pc["poller"] \in {"poll", "down"})
==============================================================================
