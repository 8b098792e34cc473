------------------------- MODULE AlertPipelineProofs -------------------------
(***************************************************************************)
(* For every set of alerts, page size, look-back and pattern of failures:  *)
(* the pipeline's types, at most one run of an alert per session, the      *)
(* finality of a written verdict, the truth of notices, the evidence       *)
(* behind actions, the causes of skipped alerts, the refinement of         *)
(* AlertLedger, and the number of steps a page may take.                   *)
(*                                                                         *)
(* All rest on one inductive invariant, IInv.  Its heart is that the       *)
(* alerts a session has run lie behind its cursor, but for the one in      *)
(* hand: so a page, which lies ahead of the cursor, holds none of them,    *)
(* and the alert taken from it has neither a decision of this session nor  *)
(* a verdict.                                                              *)
(***************************************************************************)
EXTENDS AlertPipeline, FiniteSetTheorems, TLAPS

------------------------------------------------------------------------------
(* What the steps of the pipeline take from the scoring functions.         *)

(* Every clamped sum is a percentage, and so is the score. *)
LEMMA ScoreInRange ==
    ASSUME NEW d \in Documents, NEW matched \in BOOLEAN, NEW anomaly \in Percent
    PROVE Score(d, matched, anomaly) \in Percent
<1>1. \A n \in Int : Clamp(n) \in Percent /\ Clamp(n) \in Int
  BY DEF Clamp, Percent
<1>2. BaseScore(d.level) \in Int
  BY <1>1 DEF BaseScore, Documents
<1>3. /\ RuleBoost(d) \in Int /\ ContextBoost(d) \in Int
      /\ CtiBoost(matched) \in Int /\ UebaBoost(anomaly) \in Int
  BY DEF RuleBoost, ContextBoost, CtiBoost, UebaBoost, When, Documents, Percent
<1> QED
  BY <1>1, <1>2, <1>3 DEF Score

(* What triage replaces it with is one too. *)
LEMMA ConfidenceInRange ==
    ASSUME NEW verdict \in Verdicts, NEW n \in Nat
    PROVE ConfidenceFromVerdict(verdict, n) \in Percent
BY DEF ConfidenceFromVerdict, VerdictBase, Verdicts, Clamp, Percent

(* Acting takes a suspicious verdict and ten events, or strong intel. *)
LEMMA ActingTakesCause ==
    ASSUME NEW verdict \in Verdicts, NEW n \in Nat, NEW cti \in Percent,
           IsActionable(verdict, ConfidenceFromVerdict(verdict, n), cti)
    PROVE  verdict = "suspicious" /\ (n >= 10 \/ cti > CtiOverride)
BY DEF IsActionable, ConfidenceFromVerdict, VerdictBase, Clamp, Verdicts,
       Percent, ResponseThreshold, CtiOverride

------------------------------------------------------------------------------
(* The invariant.                                                          *)


Undecided == {"triage", "hunting", "respond"}
Acting == {"block", "ticket"}
Telling == {"mirror", "notify"}
InGraph == Undecided \cup Acting
InHand == InGraph \cup {"writeback", "advance"} \cup Telling

Current == run["poller"].alert

\* Each thread is at a step of its own and carries what the step needs.
StepsOK ==
    /\ pc["poller"] \in PollerSteps /\ pc["hunter"] \in HunterSteps
    /\ pc["poller"] \in InHand => Current \in Alerts
    /\ pc["hunter"] \in InGraph => run["hunter"].alert \in Alerts
    /\ \A t \in Threads :
         pc[t] \in {"hunting", "respond", "writeback"} \cup Acting \cup Telling
           => run[t].verdict \in Verdicts

\* What a session has run lies behind its cursor, but for the alert in hand.
RanIsPassed ==
    pc["poller"] # "down" =>
      /\ \A a \in ran : Ts(a) <= cursor \/ (pc["poller"] \in InHand /\ a = Current)
      /\ pc["poller"] \in InHand => Current \in ran

\* A page waits with alerts this session has not run and nobody has closed.
PageIsFresh ==
    /\ pc["poller"] \in {"down", "poll"} => batch = {}
    /\ \A b \in batch : b \notin ran /\ record[b] = Open

\* The count of a session's runs of an alert says whether it ran it.
RunsCounted == \A a \in Alerts : runs[a] = IF a \in ran THEN 1 ELSE 0

\* The alert in hand is open until its write-back, and decided on before.
DecisionInHand ==
    /\ pc["poller"] \in InGraph \cup {"writeback"} => record[Current] = Open
    /\ pc["poller"] \in Acting \cup {"writeback"} \cup Telling
         => Event("poller", "decide") \in trail
    /\ pc["poller"] \in Acting => run["poller"].verdict = "suspicious"

\* Poller events belong to sessions so far; those of this one to its alerts.
EventsInOrder ==
    \A e \in trail : e.thread = "poller" =>
      /\ e.round <= session
      /\ pc["poller"] # "down" /\ e.round = session => e.alert \in ran
      /\ pc["poller"] \in Undecided /\ e.alert = Current => e.round # session

IInv == /\ TypeOK /\ StepsOK /\ RanIsPassed /\ PageIsFresh
        /\ RunsCounted /\ DecisionInHand /\ EventsInOrder

------------------------------------------------------------------------------
(* Types *)

LEMMA ThreadsDistinct == "poller" \in Threads /\ "hunter" \in Threads
                         /\ \A t \in Threads : t = "poller" \/ t = "hunter"
BY DEF Threads

(* Every value the model reads from an alert has its type. *)
LEMMA ContentTypes ==
    \A a \in Alerts : /\ Content[a] \in Documents /\ Ts(a) \in Nat
                      /\ Content[a].iocs \subseteq Percent
                      /\ Content[a].anomaly \subseteq Percent
BY ContentAssumption DEF Ts, Documents

(* A threat-intel lookup yields a flag and a confidence. *)
LEMMA CtiOutcomeTypes ==
    ASSUME NEW iocs, iocs \subseteq Percent, NEW hit \in CtiOutcomes(iocs)
    PROVE hit.matched \in BOOLEAN /\ hit.cti \in Percent
<1>1. CASE hit \in CtiHits(iocs)
  <2>1. PICK c \in iocs : hit = [matched |-> TRUE, cti |-> c]
    BY <1>1 DEF CtiHits
  <2> QED
    BY <2>1
<1>2. CASE hit = [matched |-> FALSE, cti |-> 0]
  BY <1>2 DEF Percent
<1> QED
  BY <1>1, <1>2 DEF CtiOutcomes

(* Triage reaches one of the three verdicts from a count of recent events. *)
LEMMA TriageTypes ==
    ASSUME NEW d, NEW matched
    PROVE TriageVerdicts(d, matched) \subseteq Verdicts /\ RecentEvents(d) \subseteq Nat
BY EventAssumption DEF TriageVerdicts, PreClassify, Verdicts, RecentEvents

(* The type invariant and the steps of the threads hold initially. *)
LEMMA InitTypes == Init => TypeOK /\ StepsOK
BY TimeAssumption, BoundAssumption
   DEF Init, TypeOK, StepsOK, NoRun, Threads, PollerSteps, HunterSteps, InHand,
       InGraph, Undecided, Acting, Telling, Percent, Open

LEMMA TypesStep == TypeOK /\ StepsOK /\ [Next]_vars => TypeOK' /\ StepsOK'
<1> SUFFICES ASSUME TypeOK, StepsOK, [Next]_vars PROVE TypeOK' /\ StepsOK'
  OBVIOUS
<1> USE ThreadsDistinct DEF TypeOK, StepsOK, Current, InHand, InGraph,
        Undecided, Acting, Telling, PollerSteps, HunterSteps, Goto
<1>1. CASE Tick
  BY <1>1, TimeAssumption DEF Tick, pipelineVars
<1>2. ASSUME NEW a \in Alerts, Index(a) PROVE TypeOK' /\ StepsOK'
  BY <1>2 DEF Index, pipelineVars
<1>3. CASE Start
  BY <1>3, TimeAssumption, BoundAssumption DEF Start
<1>4. CASE Poll
  BY <1>4 DEF Poll, Pages, Eligible
<1>5. ASSUME NEW a \in Alerts, Ingest(a) PROVE TypeOK' /\ StepsOK'
  <2>1. PICK hit \in CtiOutcomes(Content[a].iocs), x \in Content[a].anomaly :
          LET pct == Score(Content[a], hit.matched, x) IN
          /\ run' = [run EXCEPT !["poller"] =
                      [alert |-> a, pct |-> pct, cti |-> hit.cti,
                       matched |-> hit.matched, verdict |-> Open]]
          /\ Goto("poller", IF RouteAfterCoordination(pct, hit.cti) = "triage"
                            THEN "triage" ELSE "advance")
    BY <1>5 DEF Ingest
  <2>2. hit.matched \in BOOLEAN /\ hit.cti \in Percent
    BY ContentTypes, CtiOutcomeTypes
  <2>3. Score(Content[a], hit.matched, x) \in Percent
    BY <2>2, ContentTypes, ScoreInRange
  <2> QED
    BY <1>5, <2>1, <2>2, <2>3 DEF Ingest
<1>6. CASE Advance
  BY <1>6, ContentTypes DEF Advance, AdvanceTo, NoRun, Percent
<1>7. CASE WriteBack
  BY <1>7 DEF WriteBack
<1>8. CASE Mirror
  BY <1>8 DEF Mirror, Attempt, Event, Round, RunVars
<1>9. CASE Notify
  BY <1>9 DEF Notify, Attempt, Event, Round, RunVars
<1>10. ASSUME NEW a \in Alerts, StartHunt(a) PROVE TypeOK' /\ StepsOK'
  BY <1>10, BoundAssumption DEF StartHunt, HuntPct, Percent
<1>11. CASE Crash
  BY <1>11 DEF Crash, NoRun, Percent
<1>12. CASE Interrupt
  BY <1>12 DEF Interrupt, NoRun, Percent
<1>13. CASE HunterExits
  BY <1>13 DEF HunterExits, RunVars
<1>14. ASSUME NEW t \in Threads, NodeRaises(t) PROVE TypeOK' /\ StepsOK'
  BY <1>14 DEF NodeRaises, AfterError, NoRun, Percent, RunVars
<1>15. ASSUME NEW t \in Threads, Triage(t) PROVE TypeOK' /\ StepsOK'
  <2>1. PICK verdict \in TriageVerdicts(Doc(t), run[t].matched),
             n \in RecentEvents(Doc(t)) :
          run' = [run EXCEPT ![t] =
                    [run[t] EXCEPT
                       !.verdict = verdict,
                       !.pct = IF PreScored(t) THEN run[t].pct
                               ELSE ConfidenceFromVerdict(verdict, n)]]
    BY <1>15 DEF Triage
  <2> DEFINE triaged == [run[t] EXCEPT
                           !.verdict = verdict,
                           !.pct = IF PreScored(t) THEN run[t].pct
                                   ELSE ConfidenceFromVerdict(verdict, n)]
  <2>2. verdict \in Verdicts /\ ConfidenceFromVerdict(verdict, n) \in Percent
    BY TriageTypes, ConfidenceInRange
  <2>3. run[t] \in [alert: Alerts \cup {NoAlert}, pct: Percent, cti: Percent,
                   matched: BOOLEAN, verdict: Verdicts \cup {Open}]
    OBVIOUS
  <2>4. /\ triaged \in [alert: Alerts \cup {NoAlert}, pct: Percent, cti: Percent,
                        matched: BOOLEAN, verdict: Verdicts \cup {Open}]
        /\ triaged.verdict \in Verdicts /\ triaged.alert = run[t].alert
    BY <2>2, <2>3
  <2>5. run' = [run EXCEPT ![t] = triaged]
    BY <2>1
  <2> HIDE DEF triaged
  <2> QED
    BY <1>15, <2>4, <2>5 DEF Triage, RunVars
<1>16. ASSUME NEW t \in Threads, Hunting(t) PROVE TypeOK' /\ StepsOK'
  BY <1>16 DEF Hunting, RunVars
<1>17. ASSUME NEW t \in Threads, Respond(t) PROVE TypeOK' /\ StepsOK'
  BY <1>17 DEF Respond, AfterGraph, NoRun, Percent, Event, Round, RunVars
<1>18. ASSUME NEW t \in Threads, Block(t) PROVE TypeOK' /\ StepsOK'
  BY <1>18 DEF Block, Attempt, Event, Round, RunVars
<1>19. ASSUME NEW t \in Threads, Ticket(t) PROVE TypeOK' /\ StepsOK'
  BY <1>19 DEF Ticket, AfterGraph, NoRun, Percent, Attempt, Event, Round, RunVars
<1>20. CASE UNCHANGED vars
  BY <1>20 DEF vars
<1> QED
  BY <1>1, <1>2, <1>3, <1>4, <1>5, <1>6, <1>7, <1>8, <1>9, <1>10, <1>11, <1>12,
     <1>13, <1>14, <1>15, <1>16, <1>17, <1>18, <1>19, <1>20
     DEF Next, Loop, Graph

------------------------------------------------------------------------------
(* The inductive invariant *)

Rest == RanIsPassed /\ PageIsFresh /\ RunsCounted /\ DecisionInHand /\ EventsInOrder

LEMMA InitInvariant == Init => IInv
<1> SUFFICES ASSUME Init PROVE IInv
  OBVIOUS
<1>1. TypeOK /\ StepsOK
  BY InitTypes
<1>2. Rest
  BY ThreadsDistinct DEF Init, Rest, RanIsPassed, PageIsFresh, RunsCounted,
     DecisionInHand, EventsInOrder, InHand, InGraph, Undecided, Acting, Telling
<1> QED
  BY <1>1, <1>2 DEF IInv, Rest

LEMMA InvariantStep == IInv /\ [Next]_vars => IInv'
<1> SUFFICES ASSUME IInv, [Next]_vars PROVE IInv'
  OBVIOUS
<1>0. TypeOK' /\ StepsOK'
  BY TypesStep DEF IInv
<1> USE ThreadsDistinct, ContentTypes DEF Rest, IInv, TypeOK, StepsOK, RanIsPassed, PageIsFresh,
        RunsCounted, DecisionInHand, EventsInOrder, Current, InHand, InGraph,
        Undecided, Acting, Telling, PollerSteps, HunterSteps, Goto, Event, Round
<1>1. ASSUME Tick PROVE Rest'
  BY <1>1 DEF Tick, pipelineVars
<1>2. ASSUME NEW a \in Alerts, Index(a) PROVE Rest'
  BY <1>2 DEF Index, pipelineVars
<1>3. ASSUME Start PROVE Rest'
  <2>1. RunsCounted'
    BY <1>3 DEF Start
  <2>2. EventsInOrder'  \* every event so far belongs to an earlier session
    BY <1>3 DEF Start
  <2> QED
    BY <1>3, <2>1, <2>2 DEF Start
<1>4. ASSUME Poll PROVE Rest'
  <2>1. batch' \subseteq Eligible
    BY <1>4 DEF Poll, Pages
  <2>2. PageIsFresh'  \* a hit lies ahead of the cursor, what ran does not
    <3>1. \A a \in ran : Ts(a) <= cursor
      BY <1>4 DEF Poll
    <3>2. \A b \in Eligible : b \notin ran /\ record[b] = Open
      BY <3>1 DEF Eligible
    <3> QED
      BY <1>4, <2>1, <3>2 DEF Poll
  <2> QED
    BY <1>4, <2>2 DEF Poll
<1>5. ASSUME NEW a \in Alerts, Ingest(a) PROVE Rest'
  <2>1. a \notin ran /\ record[a] = Open
    BY <1>5 DEF Ingest
  <2>2. RanIsPassed'
    BY <1>5 DEF Ingest
  <2>3. PageIsFresh'
    BY <1>5 DEF Ingest
  <2>4. RunsCounted'  \* a had not been run in this session
    BY <1>5, <2>1 DEF Ingest
  <2>5. EventsInOrder'  \* nor has it been decided on in it
    BY <1>5, <2>1 DEF Ingest
  <2> QED
    BY <1>5, <2>1, <2>2, <2>3, <2>4, <2>5 DEF Ingest
<1>6. ASSUME Advance PROVE Rest'
  BY <1>6 DEF Advance, AdvanceTo, NoRun
<1>7. ASSUME WriteBack PROVE Rest'
  BY <1>7 DEF WriteBack
<1>8. ASSUME Mirror PROVE Rest'
  BY <1>8 DEF Mirror, Attempt, RunVars
<1>9. ASSUME Notify PROVE Rest'
  BY <1>9 DEF Notify, Attempt, RunVars
<1>10. ASSUME NEW a \in Alerts, StartHunt(a) PROVE Rest'
  BY <1>10 DEF StartHunt
<1>11. ASSUME Crash PROVE Rest'
  BY <1>11 DEF Crash
<1>12. ASSUME Interrupt PROVE Rest'
  BY <1>12 DEF Interrupt
<1>13. ASSUME HunterExits PROVE Rest'
  BY <1>13 DEF HunterExits, RunVars
<1>14. ASSUME NEW t \in Threads, NodeRaises(t) PROVE Rest'
  BY <1>14 DEF NodeRaises, AfterError, RunVars
<1>15. ASSUME NEW t \in Threads, Triage(t) PROVE Rest'
  BY <1>15 DEF Triage, RunVars
<1>16. ASSUME NEW t \in Threads, Hunting(t) PROVE Rest'
  BY <1>16 DEF Hunting, RunVars
<1>17. ASSUME NEW t \in Threads, Respond(t) PROVE Rest'
  <2>1. DecisionInHand'
    BY <1>17 DEF Respond, AfterGraph, IsActionable, RunVars
  <2>2. EventsInOrder'
    BY <1>17 DEF Respond, AfterGraph, RunVars
  <2> QED
    BY <1>17, <2>1, <2>2 DEF Respond, AfterGraph, RunVars
<1>18. ASSUME NEW t \in Threads, Block(t) PROVE Rest'
  BY <1>18 DEF Block, Attempt, RunVars
<1>19. ASSUME NEW t \in Threads, Ticket(t) PROVE Rest'
  BY <1>19 DEF Ticket, AfterGraph, Attempt, RunVars
<1>20. ASSUME UNCHANGED vars PROVE Rest'
  BY <1>20 DEF vars
<1> QED
  BY <1>0, <1>1, <1>2, <1>3, <1>4, <1>5, <1>6, <1>7, <1>8, <1>9, <1>10, <1>11, <1>12, <1>13, <1>14, <1>15, <1>16, <1>17, <1>18, <1>19, <1>20
     DEF Next, Loop, Graph

------------------------------------------------------------------------------
(* Theorems *)

LEMMA Invariance == Spec => []IInv
BY InitInvariant, InvariantStep, PTL DEF Spec

(* The runner's variables keep their types, scores and percentages stay in  *)
(* 0..100, and every recorded event is a well-formed one.                   *)
THEOREM TypeCorrect == Spec => []TypeOK
<1>1. IInv => TypeOK
  BY DEF IInv
<1> QED
  BY <1>1, Invariance, PTL

(* No session of the runner runs an alert twice.                            *)
THEOREM RunOncePerSession == Spec => []OncePerSession
<1>1. IInv => OncePerSession
  BY DEF IInv, RunsCounted, OncePerSession
<1> QED
  BY <1>1, Invariance, PTL

(* A verdict once written on an alert document stays.                       *)
THEOREM VerdictStays == Spec => VerdictIsFinal
<1>1. IInv /\ [Next]_vars
        => [\A a \in Alerts : record[a] # Open => record'[a] = record[a]]_vars
  <2> SUFFICES ASSUME IInv, [Next]_vars, NEW a \in Alerts, record[a] # Open
               PROVE record'[a] = record[a]
    OBVIOUS
  <2>1. CASE WriteBack
    BY <2>1 DEF WriteBack, IInv, DecisionInHand, StepsOK, TypeOK, Current
  <2>2. CASE UNCHANGED record
    BY <2>2
  <2> QED
    BY <2>1, <2>2 DEF Next, Loop, Graph, Tick, Start, Crash, Interrupt,
       HunterExits, Index, StartHunt, Poll, Ingest, Mirror, Notify, Advance, AdvanceTo,
       NodeRaises, Triage, Hunting, Respond, Block, Ticket, RunVars,
       pipelineVars, vars
<1> QED
  BY <1>1, Invariance, PTL DEF Spec, VerdictIsFinal

------------------------------------------------------------------------------
(* What the tenant and the channels are told *)

\* Past its write-back an alert's document has the decided verdict, or none
\* when that may fail.
WrittenBeforeTold ==
    pc["poller"] \in Telling
      => \/ record[Current] = run["poller"].verdict
         \/ MayFail("writeback") /\ record[Current] = Open

Messages == {"mirror", "notice"}

\* A session sends no message about the alert in hand before its write-back.
ToldAfterWriteBack ==
    \A e \in trail :
        e.step \in Messages =>
          /\ e.thread = "poller"
          /\ pc["poller"] \in InGraph \cup {"writeback"} /\ e.alert = Current
               => e.round # session

NoticeInv == WrittenBeforeTold /\ ToldAfterWriteBack /\ NoticeReflectsOutcome

\* Events that are no message, and an unchanged record, leave notices true.
LEMMA NoticesStay ==
    ASSUME NoticeReflectsOutcome, record' = record, trail \subseteq trail',
           \A e \in trail' \ trail : e.step \notin Messages
    PROVE  NoticeReflectsOutcome'
<1>1. \A e, v : DecidedLater(e, v) => DecidedLater(e, v)'
  BY DEF DecidedLater, PollerEvents
<1>2. (\A x : MayFail(x) <=> MayFail(x)')
  BY DEF MayFail
<1> SUFFICES ASSUME NEW e \in trail', e.step \in {"mirror", "notice"}
             PROVE /\ [e EXCEPT !.step = "decide"] \in trail'
                   /\ \/ record'[e.alert] = e.verdict
                      \/ /\ MayFail("writeback")
                         /\ \/ record'[e.alert] = Open
                            \/ DecidedLater(e, record[e.alert])'
  BY DEF NoticeReflectsOutcome, MayFail
<1>3. e \in trail
  BY DEF Messages
<1> QED
  BY <1>1, <1>3 DEF NoticeReflectsOutcome

\* The write-back closes the document by the decision in hand, the session's.
LEMMA WriteBackKeepsNotices ==
    ASSUME IInv, NoticeInv, WriteBack
    PROVE  NoticeReflectsOutcome'
<1> USE ThreadsDistinct DEF Current, MayFail
<1>1. \/ record' = [record EXCEPT ![Current] = run["poller"].verdict]
      \/ "writeback" \in Unreliable /\ record' = record
  BY DEF WriteBack
<1>2. trail' = trail /\ run' = run /\ pc["poller"] = "writeback"
  BY DEF WriteBack
<1>3. /\ record[Current] = Open /\ Current \in Alerts
      /\ record \in [Alerts -> Verdicts \cup {Open}]
      /\ Event("poller", "decide") \in trail
  BY <1>2 DEF IInv, TypeOK, StepsOK, DecisionInHand, InHand, InGraph
<1>4. CASE record' = record
  BY <1>2, <1>4, NoticesStay DEF NoticeInv
<1>5. CASE record' = [record EXCEPT ![Current] = run["poller"].verdict]
  <2> SUFFICES ASSUME NEW e \in trail, e.step \in {"mirror", "notice"}
               PROVE /\ [e EXCEPT !.step = "decide"] \in trail
                     /\ \/ record'[e.alert] = e.verdict
                        \/ /\ "writeback" \in Unreliable
                           /\ \/ record'[e.alert] = Open
                              \/ DecidedLater(e, record[e.alert])'
    BY <1>2 DEF NoticeReflectsOutcome
  <2>1. /\ [e EXCEPT !.step = "decide"] \in trail
        /\ \/ record[e.alert] = e.verdict
           \/ /\ "writeback" \in Unreliable
              /\ \/ record[e.alert] = Open
                 \/ DecidedLater(e, record[e.alert])
    BY DEF NoticeInv, NoticeReflectsOutcome
  <2>2. e.alert \in Alerts /\ e.verdict # Open /\ e.round \in Nat
    BY DEF IInv, TypeOK, Verdicts, Open
  <2>3. CASE e.alert # Current
    <3>1. record'[e.alert] = record[e.alert]
      BY <1>3, <1>5, <2>2, <2>3
    <3>2. \A v : DecidedLater(e, v)' <=> DecidedLater(e, v)
      BY <1>2 DEF DecidedLater, PollerEvents
    <3> QED
      BY <2>1, <3>1, <3>2
  <2>4. CASE e.alert = Current
    <3>1. record'[e.alert] = run["poller"].verdict
      BY <1>3, <1>5, <2>4
    <3>2. "writeback" \in Unreliable
      BY <1>3, <2>1, <2>2, <2>4
    <3>3. e.thread = "poller" /\ e.round # session
      BY <1>2, <2>4 DEF NoticeInv, ToldAfterWriteBack, Messages
    <3>4. e.round < session
      BY <2>2, <3>3 DEF IInv, EventsInOrder, TypeOK
    <3>5. LET d == Event("poller", "decide")
          IN  /\ d.thread = "poller" /\ d.step = "decide" /\ d.alert = e.alert
              /\ d.round = session /\ d.verdict = run["poller"].verdict
      BY <2>4 DEF Event, Round
    <3>6. DecidedLater(e, run["poller"].verdict)'
      BY <1>2, <1>3, <3>4, <3>5 DEF DecidedLater, PollerEvents
    <3>7. DecidedLater(e, record[e.alert])'
      BY <1>2, <3>1, <3>6 DEF DecidedLater, PollerEvents
    <3> QED
      BY <2>1, <3>2, <3>7
  <2> QED
    BY <2>3, <2>4
<1> QED
  BY <1>1, <1>4, <1>5

\* A message goes out past the write-back, with the decision in hand.
LEMMA TellingKeepsNotices ==
    ASSUME IInv, NoticeInv, Mirror \/ Notify
    PROVE  NoticeReflectsOutcome'
<1> USE ThreadsDistinct DEF Current
<1>1. record' = record /\ run' = run /\ session' = session /\ pc["poller"] \in Telling
  BY DEF Mirror, Notify, RunVars, Telling
<1>2. PICK m \in Messages : trail' = trail \/ trail' = trail \cup {Event("poller", m)}
  BY DEF Mirror, Notify, Attempt, Messages
<1>3. CASE trail' = trail
  BY <1>1, <1>3, NoticesStay DEF NoticeInv
<1>4. CASE trail' = trail \cup {Event("poller", m)}
  <2> SUFFICES ASSUME NEW e \in trail', e.step \in {"mirror", "notice"}
               PROVE /\ [e EXCEPT !.step = "decide"] \in trail'
                     /\ \/ record'[e.alert] = e.verdict
                        \/ /\ MayFail("writeback")
                           /\ \/ record'[e.alert] = Open
                              \/ DecidedLater(e, record[e.alert])'
    BY DEF NoticeReflectsOutcome, MayFail
  <2>1. CASE e \in trail
    <3>1. \A v : DecidedLater(e, v) => DecidedLater(e, v)'
      BY <1>4 DEF DecidedLater, PollerEvents
    <3>2. record'[e.alert] = record[e.alert]
      BY <1>1
    <3>3. DecidedLater(e, record[e.alert]) => DecidedLater(e, record[e.alert])'
      BY <1>1, <3>1 DEF DecidedLater
    <3> QED
      BY <1>4, <2>1, <3>2, <3>3 DEF NoticeInv, NoticeReflectsOutcome
  <2>2. CASE e = Event("poller", m)
    <3>1. [e EXCEPT !.step = "decide"] = Event("poller", "decide")
      BY <2>2 DEF Event
    <3>2. Event("poller", "decide") \in trail
      BY <1>1 DEF IInv, DecisionInHand, Telling
    <3>3. e.alert = Current /\ e.verdict = run["poller"].verdict
      BY <2>2 DEF Event
    <3>4. \/ record[Current] = run["poller"].verdict
          \/ MayFail("writeback") /\ record[Current] = Open
      BY <1>1 DEF NoticeInv, WrittenBeforeTold
    <3> QED
      BY <1>1, <1>4, <3>1, <3>2, <3>3, <3>4
  <2> QED
    BY <1>4, <2>1, <2>2
<1> QED
  BY <1>2, <1>3, <1>4

\* The steps that write no record and send no message.
Quiet ==
    \/ Tick \/ Start \/ Crash \/ Interrupt \/ HunterExits \/ Poll \/ Advance
    \/ \E a \in Alerts : Index(a) \/ StartHunt(a) \/ Ingest(a)
    \/ \E t \in Threads : Graph(t)
    \/ UNCHANGED vars

LEMMA QuietKeepsNotices ==
    ASSUME IInv, NoticeInv, Quiet
    PROVE  NoticeReflectsOutcome'
<1>1. record' = record
  BY DEF Quiet, Tick, Start, Crash, Interrupt, HunterExits, Poll, Advance, AdvanceTo, Graph,
     Index, StartHunt, Ingest, RunVars, pipelineVars, vars, NodeRaises, Triage,
     Hunting, Respond, Block, Ticket
<1>2. \/ trail' = trail
      \/ \E t, step : step \notin Messages /\ trail' = trail \cup {Event(t, step)}
  <2>1. ASSUME NEW t \in Threads, Graph(t)
        PROVE \E step \in {"decide", "block", "ticket"} :
                trail' = trail \/ trail' = trail \cup {Event(t, step)}
    BY <2>1 DEF Graph, NodeRaises, Triage, Hunting, Respond, Block, Ticket, Attempt
  <2> QED
    BY <2>1 DEF Quiet, Tick, Start, Crash, Interrupt, HunterExits, Poll, Advance,
       AdvanceTo, Index, StartHunt, Ingest, RunVars, pipelineVars, vars, Messages
<1>3. trail \subseteq trail' /\ \A e \in trail' \ trail : e.step \notin Messages
  BY <1>2 DEF Event
<1> QED
  BY <1>1, <1>3, NoticesStay DEF NoticeInv

LEMMA ToldStep == IInv /\ NoticeInv /\ [Next]_vars => ToldAfterWriteBack'
<1> SUFFICES ASSUME IInv, NoticeInv, [Next]_vars, NEW e \in trail', e.step \in Messages
             PROVE /\ e.thread = "poller"
                   /\ pc'["poller"] \in InGraph \cup {"writeback"} /\ e.alert = Current'
                        => e.round # session'
  BY DEF ToldAfterWriteBack
<1> USE ThreadsDistinct DEF Current, Goto, InGraph, Undecided, Acting
<1>0. /\ DOMAIN pc = Threads /\ DOMAIN run = Threads
      /\ e \in trail => e.thread = "poller"
      /\ e \in trail /\ pc["poller"] \in InGraph \cup {"writeback"} /\ e.alert = Current
           => e.round # session
  BY DEF IInv, TypeOK, NoticeInv, ToldAfterWriteBack
<1>1. CASE Mirror \/ Notify
  <2>1. pc'["poller"] \notin InGraph \cup {"writeback"}
    BY <1>0, <1>1 DEF Mirror, Notify
  <2>2. \E m : trail' = trail \/ trail' = trail \cup {Event("poller", m)}
    BY <1>1 DEF Mirror, Notify, Attempt
  <2> QED
    BY <1>0, <2>1, <2>2 DEF Event
<1>2. CASE \E a \in Alerts : Ingest(a)
  <2>1. PICK a \in Alerts : Ingest(a)
    BY <1>2
  <2>2. a \notin ran /\ pc["poller"] # "down" /\ trail' = trail /\ session' = session
    BY <2>1 DEF Ingest, IInv, PageIsFresh
  <2>3. Current' = a
    BY <1>0, <2>1 DEF Ingest
  <2>4. e.thread = "poller" /\ (e.round = session => e.alert \in ran)
    BY <1>0, <2>2 DEF IInv, EventsInOrder
  <2> QED
    BY <2>2, <2>3, <2>4
<1>3. ASSUME NEW t \in Threads, Graph(t)
      PROVE /\ e.thread = "poller"
            /\ pc'["poller"] \in InGraph \cup {"writeback"} /\ e.alert = Current'
                 => e.round # session'
  <2>1. session' = session
    BY <1>3 DEF Graph, NodeRaises, Triage, Hunting, Respond, Block, Ticket, RunVars
  <2>2. \E step \in {"decide", "block", "ticket"} :
          trail' = trail \/ trail' = trail \cup {Event(t, step)}
    BY <1>3 DEF Graph, NodeRaises, Triage, Hunting, Respond, Block, Ticket, Attempt
  <2>3. e \in trail
    BY <2>2 DEF Event, Messages
  <2>4. CASE t = "poller"
    <3>1. pc["poller"] \in InGraph
      BY <1>3, <2>4 DEF Graph, NodeRaises, Triage, Hunting, Respond, Block, Ticket
    <3>2. run'["poller"].alert = run["poller"].alert
      <4>1. CASE Triage("poller")
        BY <1>0, <4>1 DEF Triage
      <4>2. CASE \/ NodeRaises("poller") \/ Hunting("poller") \/ Respond("poller")
                 \/ Block("poller") \/ Ticket("poller")
        BY <1>0, <4>2 DEF NodeRaises, Hunting, Respond, Block, Ticket, AfterGraph
      <4> QED
        BY <1>3, <2>4, <4>1, <4>2 DEF Graph
    <3>3. e.thread = "poller" /\ (e.alert = run["poller"].alert => e.round # session)
      BY <1>0, <2>3, <3>1
    <3> QED
      BY <2>1, <3>2, <3>3
  <2>5. CASE t = "hunter"
    <3>1. pc'["poller"] = pc["poller"] /\ run'["poller"] = run["poller"]
      BY <1>0, <1>3, <2>5 DEF Graph, NodeRaises, Triage, Hunting, Respond, Block, Ticket
    <3> QED
      BY <1>0, <2>1, <2>3, <3>1
  <2> QED
    BY <2>4, <2>5
<1>4. CASE Tick \/ (\E a \in Alerts : Index(a) \/ StartHunt(a)) \/ HunterExits \/ UNCHANGED vars
  <2>1. /\ pc'["poller"] = pc["poller"] /\ run'["poller"] = run["poller"]
        /\ trail' = trail /\ session' = session
    BY <1>0, <1>4 DEF Tick, Index, StartHunt, HunterExits, RunVars, pipelineVars, vars
  <2> QED
    BY <1>0, <2>1
<1>5. CASE Start \/ Crash \/ Interrupt \/ Poll \/ Advance \/ WriteBack
  <2>1. pc'["poller"] \notin InGraph \cup {"writeback"} /\ trail' = trail
    BY <1>0, <1>5 DEF Start, Crash, Interrupt, Poll, Advance, AdvanceTo, WriteBack
  <2> QED
    BY <1>0, <2>1
<1> QED
  BY <1>1, <1>2, <1>3, <1>4, <1>5 DEF Next, Loop

LEMMA WrittenStep == IInv /\ NoticeInv /\ [Next]_vars => WrittenBeforeTold'
<1> SUFFICES ASSUME IInv, NoticeInv, [Next]_vars, pc'["poller"] \in Telling
             PROVE \/ record'[Current'] = run'["poller"].verdict
                   \/ MayFail("writeback") /\ record'[Current'] = Open
  BY DEF WrittenBeforeTold, MayFail
<1> USE ThreadsDistinct DEF Current, Goto, Telling
<1>0. DOMAIN pc = Threads /\ DOMAIN run = Threads /\ DOMAIN record = Alerts
  BY DEF IInv, TypeOK
<1>1. CASE WriteBack
  <2>1. record[Current] = Open /\ Current \in Alerts
    BY <1>1 DEF WriteBack, IInv, StepsOK, DecisionInHand, InHand, InGraph
  <2> QED
    BY <1>0, <1>1, <2>1 DEF WriteBack
<1>2. CASE ~WriteBack
  <2>1. record' = record
    BY <1>2 DEF Next, Loop, Tick, Start, Crash, Interrupt, HunterExits, Poll, Advance,
       AdvanceTo, Graph, Index, StartHunt, Ingest, RunVars, pipelineVars, vars,
       NodeRaises, Triage, Hunting, Respond, Block, Ticket, Mirror, Notify
  <2>2. pc["poller"] \in Telling /\ run'["poller"] = run["poller"]
    <3>1. ASSUME NEW t \in Threads, Graph(t)
          PROVE pc["poller"] \in Telling /\ run'["poller"] = run["poller"]
      <4>1. CASE t = "poller"
        BY <1>0, <3>1, <4>1 DEF Graph, NodeRaises, Triage, Hunting, Respond, Block, Ticket,
           AfterGraph, AfterError
      <4>2. CASE t = "hunter"
        BY <1>0, <3>1, <4>2 DEF Graph, NodeRaises, Triage, Hunting, Respond, Block, Ticket
      <4> QED
        BY <4>1, <4>2
    <3>2. CASE \/ Tick \/ Start \/ Crash \/ Interrupt \/ HunterExits \/ Poll \/ Advance
               \/ Mirror \/ Notify \/ UNCHANGED vars
               \/ \E a \in Alerts : Index(a) \/ StartHunt(a) \/ Ingest(a)
      BY <1>0, <3>2 DEF Tick, Start, Crash, Interrupt, HunterExits, Poll, Advance, AdvanceTo,
         Index, StartHunt, Ingest, Mirror, Notify, RunVars, pipelineVars, vars
    <3> QED
      BY <1>2, <3>1, <3>2 DEF Next, Loop
  <2> QED
    BY <2>1, <2>2 DEF NoticeInv, WrittenBeforeTold
<1> QED
  BY <1>1, <1>2

LEMMA NoticeStep == IInv /\ NoticeInv /\ [Next]_vars => NoticeInv'
<1> SUFFICES ASSUME IInv, NoticeInv, [Next]_vars PROVE NoticeReflectsOutcome'
  BY ToldStep, WrittenStep DEF NoticeInv
<1> QED
  BY WriteBackKeepsNotices, TellingKeepsNotices, QuietKeepsNotices DEF Quiet, Next, Loop

(* The tenant's copy and the notifications follow the decision they report, *)
(* and the alert document says the same for good, or a write-back failed    *)
(* and it is open or closed by a later session's decision.                  *)
THEOREM NoticesAreTrue == Spec => []NoticeReflectsOutcome
<1>1. Init => NoticeInv
  BY ThreadsDistinct DEF Init, NoticeInv, WrittenBeforeTold, ToldAfterWriteBack,
     NoticeReflectsOutcome, Telling
<1>2. NoticeInv => NoticeReflectsOutcome
  BY DEF NoticeInv
<1> QED
  BY <1>1, <1>2, NoticeStep, Invariance, PTL DEF Spec

------------------------------------------------------------------------------
(* What blocks and tickets rest on *)

Held == run["poller"]

Intel == \E c \in Content[Held.alert].iocs : c > CtiOverride

Activity ==
    (\E n \in EventCounts : n >= 10) /\ Content[Held.alert].srcip # "absent"

\* A high threat-intel score comes from an indicator of the alert in hand; a
\* verdict to act on comes with evidence, and so does an action under way.
EvidenceInHand ==
    LET step == pc["poller"]
    IN  /\ step \in Undecided /\ Held.cti > CtiOverride => Intel
        /\ step \in {"hunting", "respond"} /\ IsActionable(Held.verdict, Held.pct, Held.cti)
             => Intel \/ Activity
        /\ step \in Acting => Intel \/ Activity

EvidenceInv == EvidenceInHand /\ EffectsNeedEvidence

\* The other thread, and the steps around the graph, leave it alone.
LEMMA EvidenceKept ==
    ASSUME EvidenceInHand,
           pc'["poller"] \in InGraph
             => pc'["poller"] = pc["poller"] /\ run'["poller"] = run["poller"]
    PROVE  EvidenceInHand'
<1>1. CASE pc'["poller"] \notin InGraph
  BY <1>1 DEF EvidenceInHand, InGraph, Undecided, Acting
<1>2. CASE pc'["poller"] = pc["poller"] /\ run'["poller"] = run["poller"]
  BY <1>2 DEF EvidenceInHand, Intel, Activity, Held
<1> QED
  BY <1>1, <1>2

(* Triage finds a verdict to act on only with evidence: the score that led  *)
(* here is replaced.                                                        *)
LEMMA TriageNeedsEvidence ==
    ASSUME IInv, EvidenceInHand, Triage("poller")
    PROVE  EvidenceInHand'
<1> USE ThreadsDistinct
<1>1. PICK verdict \in TriageVerdicts(Doc("poller"), Held.matched),
           n \in RecentEvents(Doc("poller")) :
        run' = [run EXCEPT !["poller"] =
                  [run["poller"] EXCEPT
                     !.verdict = verdict,
                     !.pct = IF PreScored("poller") THEN run["poller"].pct
                             ELSE ConfidenceFromVerdict(verdict, n)]]
  BY DEF Triage, Held
<1>2. ~PreScored("poller")
  BY DEF PreScored
<1>3. Held \in [alert: Alerts \cup {NoAlert}, pct: Percent, cti: Percent,
                matched: BOOLEAN, verdict: Verdicts \cup {Open}]
      /\ run \in [Threads -> [alert: Alerts \cup {NoAlert}, pct: Percent, cti: Percent,
                 matched: BOOLEAN, verdict: Verdicts \cup {Open}]]
  BY DEF IInv, TypeOK, Held
<1> DEFINE triaged == [Held EXCEPT !.verdict = verdict,
                                   !.pct = ConfidenceFromVerdict(verdict, n)]
<1>4. /\ triaged.alert = Held.alert /\ triaged.cti = Held.cti
      /\ triaged.verdict = verdict /\ triaged.pct = ConfidenceFromVerdict(verdict, n)
  BY <1>3
<1>5. run' = [run EXCEPT !["poller"] = triaged]
  BY <1>1, <1>2 DEF Held
<1> HIDE DEF triaged
<1>6. Held' = triaged
  BY <1>3, <1>5 DEF Held
<1>7. (Intel' <=> Intel) /\ (Activity' <=> Activity)
  BY <1>4, <1>6 DEF Intel, Activity
<1>8. pc["poller"] = "triage" /\ pc'["poller"] = "hunting"
  BY DEF Triage, Goto, IInv, TypeOK
<1>9. Held.cti > CtiOverride => Intel
  BY <1>8 DEF EvidenceInHand, Undecided
<1>10. ASSUME IsActionable(verdict, ConfidenceFromVerdict(verdict, n), Held.cti)
       PROVE Intel \/ Activity
  <2>1. n >= 10 \/ Held.cti > CtiOverride
    BY <1>3, <1>10, TriageTypes, ActingTakesCause
  <2>2. ASSUME n >= 10 PROVE Activity
    <3>1. Doc("poller").srcip # "absent" /\ n \in EventCounts
      BY <2>2 DEF RecentEvents
    <3> QED
      BY <2>2, <3>1 DEF Activity, Doc, Held
  <2> QED
    BY <1>9, <2>1, <2>2
<1> QED
  BY <1>4, <1>6, <1>7, <1>8, <1>9, <1>10 DEF EvidenceInHand, Acting

(* The confidence of a threat-intel match is that of an indicator found.    *)
LEMMA CtiFromIndicator ==
    ASSUME NEW iocs, iocs \subseteq Percent, NEW hit \in CtiOutcomes(iocs),
           hit.cti > CtiOverride
    PROVE \E c \in iocs : c > CtiOverride
<1>1. CASE hit \in CtiHits(iocs)
  <2>1. PICK c \in iocs : hit = [matched |-> TRUE, cti |-> c]
    BY <1>1 DEF CtiHits
  <2> QED
    BY <2>1
<1>2. CASE hit = [matched |-> FALSE, cti |-> 0]
  BY <1>2 DEF CtiOverride
<1> QED
  BY <1>1, <1>2 DEF CtiOutcomes

LEMMA EvidenceInHandStep ==
    IInv /\ EvidenceInHand /\ [Next]_vars => EvidenceInHand'
<1> SUFFICES ASSUME IInv, EvidenceInHand, [Next]_vars PROVE EvidenceInHand'
  OBVIOUS
<1>0. pc \in [Threads -> PollerSteps \cup HunterSteps] /\ DOMAIN run = Threads
  BY DEF IInv, TypeOK
<1> USE ThreadsDistinct, <1>0 DEF Goto, InGraph, Undecided, Acting
<1>1. CASE Triage("poller")
  BY <1>1, TriageNeedsEvidence
<1>2. CASE Hunting("poller")
  BY <1>2 DEF Hunting, EvidenceInHand, Intel, Activity, Held
<1>3. CASE Respond("poller")
  <2>1. ASSUME pc'["poller"] \in Acting
        PROVE run' = run /\ IsActionable(Held.verdict, Held.pct, Held.cti)
    BY <1>3, <2>1 DEF Respond, AfterGraph, Held
  <2>2. pc["poller"] = "respond" /\ pc'["poller"] \notin Undecided
    BY <1>3 DEF Respond, AfterGraph
  <2> QED
    BY <2>1, <2>2 DEF EvidenceInHand, Intel, Activity, Held
<1>4. CASE Block("poller")
  BY <1>4 DEF Block, EvidenceInHand, Intel, Activity, Held
<1>5. CASE Ticket("poller") \/ NodeRaises("poller")
  BY <1>5, EvidenceKept DEF Ticket, NodeRaises, AfterGraph, AfterError
<1>6. CASE Graph("hunter")
  <2>1. pc'["poller"] = pc["poller"] /\ run'["poller"] = run["poller"]
    BY <1>6 DEF Graph, NodeRaises, Triage, Hunting, Respond, Block, Ticket
  <2> QED
    BY <2>1, EvidenceKept
<1>7. CASE \E a \in Alerts : Ingest(a)
  <2>1. PICK a \in Alerts : Ingest(a)
    BY <1>7
  <2>2. PICK hit \in CtiOutcomes(Content[a].iocs), x \in Content[a].anomaly :
          LET pct == Score(Content[a], hit.matched, x) IN
          /\ run' = [run EXCEPT !["poller"] =
                      [alert |-> a, pct |-> pct, cti |-> hit.cti,
                       matched |-> hit.matched, verdict |-> Open]]
          /\ Goto("poller", IF RouteAfterCoordination(pct, hit.cti) = "triage"
                            THEN "triage" ELSE "advance")
    BY <2>1 DEF Ingest
  <2>3. pc'["poller"] \in {"triage", "advance"} /\ Held'.cti = hit.cti /\ Held'.alert = a
    BY <2>2 DEF Held
  <2>4. hit.cti > CtiOverride => \E c \in Content[a].iocs : c > CtiOverride
    BY ContentTypes, CtiFromIndicator
  <2>5. pc'["poller"] \notin Acting \cup {"hunting", "respond"}
    BY <2>3
  <2>6. Held'.cti > CtiOverride => Intel'
    BY <2>3, <2>4 DEF Intel
  <2> QED
    BY <2>5, <2>6 DEF EvidenceInHand
<1>8. CASE \E a \in Alerts : StartHunt(a)
  BY <1>8, EvidenceKept DEF StartHunt
<1>9. CASE \/ Start \/ Crash \/ Interrupt \/ HunterExits \/ Poll \/ Advance
           \/ WriteBack \/ Mirror \/ Notify
  <2>1. CASE Start \/ Crash \/ Interrupt
    BY <2>1, EvidenceKept DEF Start, Crash, Interrupt
  <2>2. CASE HunterExits
    BY <2>2, EvidenceKept DEF HunterExits
  <2>3. CASE Poll \/ Advance \/ WriteBack
    BY <2>3, EvidenceKept DEF Poll, Advance, AdvanceTo, WriteBack
  <2>4. CASE Mirror \/ Notify
    BY <2>4, EvidenceKept DEF Mirror, Notify
  <2> QED
    BY <1>9, <2>1, <2>2, <2>3, <2>4
<1>10. CASE Tick \/ (\E a \in Alerts : Index(a)) \/ UNCHANGED vars
  BY <1>10, EvidenceKept DEF Tick, Index, pipelineVars, vars
<1> QED
  BY <1>1, <1>2, <1>3, <1>4, <1>5, <1>6, <1>7, <1>8, <1>9, <1>10
     DEF Next, Loop, Graph

LEMMA EvidenceStep == IInv /\ EvidenceInv /\ [Next]_vars => EvidenceInv'
<1> SUFFICES ASSUME IInv, EvidenceInv, [Next]_vars PROVE EffectsNeedEvidence'
  BY EvidenceInHandStep DEF EvidenceInv
<1> USE DEF PollerEvents
<1>1. CASE Block("poller") \/ Ticket("poller")
  <2>1. pc["poller"] \in Acting
    BY <1>1 DEF Block, Ticket, Acting
  <2>2. Intel \/ Activity
    BY <2>1 DEF EvidenceInv, EvidenceInHand
  <2>3. trail' = trail \/ \E step : trail' = trail \cup {Event("poller", step)}
    BY <1>1 DEF Block, Ticket, Attempt
  <2>4. \A step : Event("poller", step).alert = Held.alert
    BY DEF Event, Held
  <2> QED
    BY <2>2, <2>3, <2>4 DEF EvidenceInv, EffectsNeedEvidence, Intel, Activity
<1>2. ASSUME trail' = trail \/ \E t, step : /\ t # "poller" \/ step \notin Effects
                                           /\ trail' = trail \cup {Event(t, step)}
      PROVE EffectsNeedEvidence'
  BY <1>2 DEF EvidenceInv, EffectsNeedEvidence, Event
<1>3. ASSUME NEW t \in Threads, Respond(t) PROVE EffectsNeedEvidence'
  BY <1>2, <1>3 DEF Respond, Effects
<1>4. CASE Mirror \/ Notify
  BY <1>2, <1>4 DEF Mirror, Notify, Attempt, Effects
<1>5. CASE Block("hunter") \/ Ticket("hunter")
  BY <1>2, <1>5 DEF Block, Ticket, Attempt
<1>6. CASE trail' = trail
  BY <1>2, <1>6
<1> QED
  BY <1>1, <1>3, <1>4, <1>5, <1>6, ThreadsDistinct DEF Next, Loop, Graph, Tick, Start,
     Crash, Interrupt, HunterExits, Poll, Advance, AdvanceTo, WriteBack, Index,
     StartHunt, Ingest, NodeRaises, Triage, Hunting, RunVars, pipelineVars, vars

(* No block and no ticket of the poll loop without evidence of its own.     *)
THEOREM ActionsHaveEvidence == Spec => []EffectsNeedEvidence
<1>1. Init => EvidenceInv
  BY ThreadsDistinct
     DEF Init, EvidenceInv, EvidenceInHand, EffectsNeedEvidence, PollerEvents,
         Undecided, Acting
<1>2. EvidenceInv => EffectsNeedEvidence
  BY DEF EvidenceInv
<1> QED
  BY <1>1, <1>2, EvidenceStep, Invariance, PTL DEF Spec

------------------------------------------------------------------------------
(* What the loop leaves behind *)

HasCause(a) ==
    Ts(a) <= since \/ a \in late \/ \E b \in ran \cup batch : Ts(b) = Ts(a)

\* A page waits ahead of the cursor and of the alert in hand, ties apart; an
\* alert the cursor passes, or is about to, is one of the page or has a cause.
BehindTheLoop ==
    /\ pc["poller"] = "down" => Current = NoAlert
    /\ \A b \in batch :
         /\ Ts(b) >= cursor
         /\ Ts(b) = cursor => \E c \in ran : Ts(c) = Ts(b)
         /\ pc["poller"] \in InHand => Ts(b) >= Ts(Current)
    /\ \A a \in indexed \ (ran \cup batch) :
         Passed(Ts(a)) /\ record[a] = Open => HasCause(a)

LEMMA BehindTheLoopStep ==
    IInv /\ BehindTheLoop /\ [Next]_vars => BehindTheLoop'
<1> SUFFICES ASSUME IInv, BehindTheLoop, [Next]_vars PROVE BehindTheLoop'
  OBVIOUS
<1>0. /\ pc \in [Threads -> PollerSteps \cup HunterSteps] /\ DOMAIN run = Threads
      /\ indexed \subseteq Alerts /\ batch \subseteq Alerts /\ ran \subseteq Alerts
      /\ cursor \in Nat /\ since \in Nat
  BY DEF IInv, TypeOK
<1> USE ThreadsDistinct, <1>0, ContentTypes, NoAlertAssumption
        DEF BehindTheLoop, HasCause, Passed, InFlight, Current, Goto
\* Steps that move neither the poll loop nor its page.
<1>1. ASSUME UNCHANGED <<indexed, since, cursor, batch, ran, late>>,
             run'["poller"].alert = Current,
             pc'["poller"] = pc["poller"]
               \/ (pc["poller"] \in InHand /\ pc'["poller"] \in InHand),
             \A a \in Alerts : record'[a] = Open => record[a] = Open
      PROVE BehindTheLoop'
  BY <1>1 DEF InHand, InGraph, Undecided, Acting, Telling
<1>2. CASE Tick \/ HunterExits \/ UNCHANGED vars
  BY <1>1, <1>2 DEF Tick, HunterExits, RunVars, pipelineVars, vars
<1>3. ASSUME NEW x \in Alerts, Index(x) PROVE BehindTheLoop'
  BY <1>3 DEF Index, pipelineVars
<1>4. CASE Start
  <2>1. batch = {} /\ Current = NoAlert
    BY <1>4 DEF Start, IInv, PageIsFresh
  <2> QED
    BY <1>4, <2>1 DEF Start, InHand, InGraph, Undecided, Acting, Telling
<1>5. CASE Poll
  <2>1. PICK page \in Pages \cup {{}} :
          /\ batch' = page
          /\ Goto("poller", IF page = {} THEN "poll" ELSE "loop")
    BY <1>5 DEF Poll
  <2>2. page \subseteq Eligible
    BY <2>1 DEF Pages
  <2>3. \A a \in Eligible \ page, b \in page : Ts(b) <= Ts(a)
    BY <2>1 DEF Pages
  <2>4. \A b \in page : b \in Alerts /\ Ts(b) > cursor
    BY <2>2 DEF Eligible
  <2>5. \A a \in indexed \ Eligible : record[a] = Open => Ts(a) <= cursor
    BY DEF Eligible
  <2>6. batch = {} /\ pc["poller"] = "poll" /\ pc'["poller"] \in {"poll", "loop"}
        /\ UNCHANGED <<indexed, record, run, since, cursor, ran, late>>
    BY <1>5, <2>1 DEF Poll, IInv, PageIsFresh
  <2>7. ASSUME NEW a \in indexed \ (ran \cup page), record[a] = Open, Passed(Ts(a))'
        PROVE HasCause(a)'
    <3>1. CASE Passed(Ts(a))
      BY <2>6, <2>7, <3>1
    <3>2. CASE ~Passed(Ts(a))  \* then a hit of the page lies at or behind it
      <4>1. PICK b \in page : Ts(a) <= Ts(b)
        BY <2>1, <2>6, <2>7, <3>2
      <4>2. a \in Eligible \ page
        BY <2>5, <2>6, <2>7, <3>2
      <4> QED
        BY <2>1, <2>3, <2>4, <4>1, <4>2
    <3> QED
      BY <3>1, <3>2
  <2> QED
    BY <2>1, <2>4, <2>6, <2>7 DEF InHand, InGraph, Undecided, Acting, Telling
<1>6. ASSUME NEW x \in Alerts, Ingest(x) PROVE BehindTheLoop'
  <2>1. /\ x \in batch /\ \A b \in batch : Ts(x) <= Ts(b)
        /\ run'["poller"].alert = x /\ pc["poller"] = "loop"
        /\ pc'["poller"] \in {"triage", "advance"}
        /\ batch' = batch \ {x} /\ ran' = ran \cup {x}
        /\ UNCHANGED <<indexed, record, since, cursor, late>>
    BY <1>6 DEF Ingest
  <2>2. \A a : Passed(Ts(a))' => Passed(Ts(a))
    BY <2>1
  <2>3. \A a : HasCause(a) => HasCause(a)'
    BY <2>1
  <2> QED
    BY <2>1, <2>2, <2>3
<1>7. CASE Advance
  <2> DEFINE next == IF Ts(Current) > cursor THEN Ts(Current) ELSE cursor
  <2>1. /\ cursor' = next /\ Current' = NoAlert
        /\ pc["poller"] = "advance" /\ pc'["poller"] \in {"poll", "loop"}
        /\ UNCHANGED <<indexed, record, since, batch, ran, late>>
    BY <1>7 DEF Advance, AdvanceTo, NoRun
  <2>2. Current \in Alerts /\ Current \in ran
    BY <2>1 DEF IInv, StepsOK, RanIsPassed, InHand
  <2>3. \A b \in batch : Ts(b) >= next /\ (Ts(b) = next => \E c \in ran : Ts(c) = Ts(b))
    BY <2>1, <2>2 DEF InHand
  <2>4. \A a \in indexed : Passed(Ts(a))' => Passed(Ts(a))
    BY <2>1, <2>2
  <2> HIDE DEF next
  <2> QED
    BY <2>1, <2>3, <2>4 DEF InHand, InGraph, Undecided, Acting, Telling
<1>8. CASE WriteBack
  <2>1. \A a \in Alerts : record'[a] = Open => record[a] = Open
    BY <1>8 DEF WriteBack, IInv, DecisionInHand, TypeOK
  <2> QED
    BY <1>1, <1>8, <2>1 DEF WriteBack, InHand, Telling
<1>9. CASE Mirror \/ Notify
  BY <1>1, <1>9 DEF Mirror, Notify, RunVars, InHand, Telling
<1>10. ASSUME NEW t \in Threads, Graph(t) PROVE BehindTheLoop'
  <2>1. UNCHANGED <<indexed, record, since, cursor, batch, ran, late>>
    BY <1>10 DEF Graph, NodeRaises, Triage, Hunting, Respond, Block, Ticket, RunVars
  <2>2. CASE t = "hunter"
    <3>1. pc'["poller"] = pc["poller"] /\ run'["poller"] = run["poller"]
      BY <1>10, <2>2 DEF Graph, NodeRaises, Triage, Hunting, Respond, Block, Ticket
    <3> QED
      BY <1>1, <2>1, <3>1
  <2>3. CASE t = "poller"
    <3>1. pc["poller"] \in InHand /\ pc'["poller"] \in InHand
      BY <1>10, <2>3 DEF Graph, NodeRaises, Triage, Hunting, Respond, Block, Ticket,
         AfterGraph, AfterError, InHand, InGraph, Undecided, Acting, Telling
    <3>2. run'["poller"].alert = Current
      <4>1. CASE Triage("poller")
        BY <4>1 DEF Triage, IInv, TypeOK
      <4>2. CASE ~Triage("poller")
        BY <1>10, <2>3, <4>2 DEF Graph, NodeRaises, Hunting, Respond, Block, Ticket,
           AfterGraph
      <4> QED
        BY <4>1, <4>2
    <3> QED
      BY <1>1, <2>1, <3>1, <3>2
  <2> QED
    BY <2>2, <2>3
<1>11. ASSUME NEW a \in Alerts, StartHunt(a) PROVE BehindTheLoop'
  BY <1>1, <1>11 DEF StartHunt
<1>12. CASE Crash \/ Interrupt
  BY <1>12 DEF Crash, Interrupt, NoRun
<1> QED
  BY <1>2, <1>3, <1>4, <1>5, <1>6, <1>7, <1>8, <1>9, <1>10, <1>11, <1>12
     DEF Next, Loop

(* The loop leaves an alert behind only if it is too old, late or tied.     *)
THEOREM SkipsHaveCauses == Spec => []SkipHasCause
<1>1. Init => BehindTheLoop
  BY ThreadsDistinct DEF Init, BehindTheLoop, Current, NoRun
<1>2. IInv /\ BehindTheLoop => SkipHasCause
  <2> SUFFICES ASSUME IInv, BehindTheLoop, NEW a \in indexed \ (ran \cup InFlight),
                      pc["poller"] # "down", record[a] = Open, Ts(a) <= cursor
               PROVE \/ Ts(a) <= since
                     \/ a \in late
                     \/ \E b \in ran : Ts(b) = Ts(a)
    BY DEF SkipHasCause
  <2>1. Ts(a) <= since \/ a \in late \/ \E b \in ran \cup batch : Ts(b) = Ts(a)
    BY DEF BehindTheLoop, HasCause, Passed, InFlight
  <2>2. ASSUME NEW b \in batch, Ts(b) = Ts(a) PROVE \E c \in ran : Ts(c) = Ts(a)
    <3>1. Ts(b) \in Nat /\ cursor \in Nat
      BY ContentTypes DEF IInv, TypeOK
    <3>2. Ts(b) = cursor
      BY <2>2, <3>1 DEF BehindTheLoop
    <3> QED
      BY <2>2, <3>2 DEF BehindTheLoop
  <2> QED
    BY <2>1, <2>2
<1> QED
  BY <1>1, <1>2, BehindTheLoopStep, Invariance, PTL DEF Spec

------------------------------------------------------------------------------
(* Refinement of AlertLedger *)

Decided == {DecisionOf(e) : e \in PollerEvents({"decide"})}
Acted == {[decision |-> DecisionOf(e), action |-> e.step] :
            e \in PollerEvents(Effects)}
Told == {[decision |-> DecisionOf(e), message |-> e.step] :
           e \in PollerEvents({"mirror", "notice"})}

InHandDecision == DecisionOf(Event("poller", "decide"))

\* What the ledger sees of a poller event that is added to the trail.
LEMMA LedgerOfEvent ==
    ASSUME NEW step \in {"decide", "block", "ticket", "mirror", "notice"},
           trail' = trail \cup {Event("poller", step)}
    PROVE /\ Decided' = IF step = "decide" THEN Decided \cup {InHandDecision}
                        ELSE Decided
          /\ Acted' = IF step \in Effects
                      THEN Acted \cup {[decision |-> InHandDecision, action |-> step]}
                      ELSE Acted
          /\ Told' = IF step \in {"mirror", "notice"}
                     THEN Told \cup {[decision |-> InHandDecision, message |-> step]}
                     ELSE Told
<1> DEFINE e == Event("poller", step)
<1>1. e.thread = "poller" /\ e.step = step /\ DecisionOf(e) = InHandDecision
  BY DEF Event, Round, DecisionOf, InHandDecision
<1>2. \A steps : PollerEvents(steps)' =
         IF step \in steps THEN PollerEvents(steps) \cup {e} ELSE PollerEvents(steps)
  BY <1>1 DEF PollerEvents
<1> HIDE DEF e
<1> QED
  BY <1>1, <1>2 DEF Decided, Acted, Told, Effects

\* Steps that add no poller event and close no alert are stutters of the ledger.
LEMMA LedgerStutter ==
    ASSUME record' = record,
           trail' = trail \/ \E step : trail' = trail \cup {Event("hunter", step)}
    PROVE UNCHANGED Ledger!ledgerVars
<1>1. \A steps : PollerEvents(steps)' = PollerEvents(steps)
  BY DEF PollerEvents, Event
<1> QED
  BY <1>1 DEF Ledger!ledgerVars

\* The decision in hand is one of the ledger's, of the latest round.
LEMMA HandIsLatest ==
    ASSUME IInv
    PROVE /\ \A d \in Decided : d.round <= session
          /\ pc["poller"] \in Acting \cup {"writeback"} \cup Telling
               => InHandDecision \in Decided /\ InHandDecision \in Ledger!Decisions
          /\ InHandDecision.alert = Current /\ InHandDecision.round = session
          /\ InHandDecision.verdict = run["poller"].verdict
<1>1. \A d \in Decided : d.round <= session
  BY DEF IInv, EventsInOrder, Decided, PollerEvents, DecisionOf
<1>2. /\ InHandDecision.alert = Current /\ InHandDecision.round = session
      /\ InHandDecision.verdict = run["poller"].verdict
  BY DEF InHandDecision, DecisionOf, Event, Round, Current
<1>3. ASSUME pc["poller"] \in Acting \cup {"writeback"} \cup Telling
      PROVE InHandDecision \in Decided /\ InHandDecision \in Ledger!Decisions
  <2>1. Event("poller", "decide") \in PollerEvents({"decide"})
    BY <1>3 DEF IInv, DecisionInHand, PollerEvents, Event
  <2>2. Current \in Alerts /\ run["poller"].verdict \in Verdicts
          /\ session \in 0..MaxSessions
    BY <1>3, ThreadsDistinct DEF IInv, StepsOK, TypeOK, Acting, Telling, InHand, InGraph
  <2> QED
    BY <2>1, <2>2 DEF Decided, InHandDecision, DecisionOf, Event, Round, Current,
       Ledger!Decisions
<1> QED
  BY <1>1, <1>2, <1>3

LEMMA LedgerInit == Init => Ledger!Init
BY DEF Init, Ledger!Init, PollerEvents

LEMMA LedgerStep == IInv /\ [Next]_vars => [Ledger!Next]_Ledger!ledgerVars
<1> SUFFICES ASSUME IInv, [Next]_vars PROVE [Ledger!Next]_Ledger!ledgerVars
  OBVIOUS
<1> USE ThreadsDistinct
<1>1. ASSUME pc["poller"] = "respond", Respond("poller")
      PROVE Ledger!Decide(InHandDecision) /\ InHandDecision \in Ledger!Decisions
  <2>1. trail' = trail \cup {Event("poller", "decide")} /\ record' = record
    BY <1>1 DEF Respond, RunVars
  <2>2. record[Current] = Open /\ Current \in Alerts
    BY <1>1 DEF IInv, DecisionInHand, StepsOK, InHand, InGraph, Undecided
  <2>3. InHandDecision \in Ledger!Decisions
    BY <1>1, <2>2 DEF IInv, StepsOK, TypeOK, InHandDecision, DecisionOf, Event,
       Round, Current, Ledger!Decisions, InGraph, Undecided
  <2>4. \A d \in Decided : ~(d.alert = Current /\ d.round = session)
    BY <1>1 DEF IInv, EventsInOrder, Undecided, Decided, PollerEvents, DecisionOf
  <2> QED
    BY <2>1, <2>2, <2>3, <2>4, HandIsLatest, LedgerOfEvent
       DEF Ledger!Decide, Ledger!Latest, Decided, Acted, Told, Effects
<1>2. ASSUME NEW step \in Effects, pc["poller"] \in Acting, record' = record,
             trail' = trail \cup {Event("poller", step)}
      PROVE Ledger!Act(InHandDecision, step)
  <2>1. record[Current] = Open /\ run["poller"].verdict = "suspicious"
    BY <1>2 DEF IInv, DecisionInHand, InGraph
  <2> QED
    BY <1>2, <2>1, HandIsLatest, LedgerOfEvent
       DEF Ledger!Act, Ledger!Latest, Decided, Acted, Told, Effects
<1>3. ASSUME WriteBack, record' # record
      PROVE Ledger!Close(InHandDecision)
  <2>1. record' = [record EXCEPT ![Current] = run["poller"].verdict]
        /\ trail' = trail /\ pc["poller"] = "writeback"
    BY <1>3 DEF WriteBack, Current
  <2>2. record[Current] = Open
    BY <2>1 DEF IInv, DecisionInHand
  <2> QED
    BY <2>1, <2>2, HandIsLatest
       DEF Ledger!Close, Ledger!Latest, Decided, PollerEvents
<1>4. ASSUME NEW message \in {"mirror", "notice"}, pc["poller"] \in Telling,
             record' = record, trail' = trail \cup {Event("poller", message)}
      PROVE Ledger!Tell(InHandDecision, message)
  BY <1>4, HandIsLatest, LedgerOfEvent
     DEF Ledger!Tell, Ledger!Latest, Decided, Acted, Told, Effects
<1>5. ASSUME record' = record, trail' = trail
      PROVE [Ledger!Next]_Ledger!ledgerVars
  BY <1>5, LedgerStutter
<1>6. ASSUME Graph("hunter") PROVE [Ledger!Next]_Ledger!ledgerVars
  <2>1. record' = record
    BY <1>6 DEF Graph, NodeRaises, Triage, Hunting, Respond, Block, Ticket, RunVars
  <2>2. trail' = trail \/ \E step : trail' = trail \cup {Event("hunter", step)}
    BY <1>6 DEF Graph, NodeRaises, Triage, Hunting, Respond, Block, Ticket, Attempt
  <2> QED
    BY <2>1, <2>2, LedgerStutter
<1>7. ASSUME Graph("poller") PROVE [Ledger!Next]_Ledger!ledgerVars
  <2>1. CASE Respond("poller")
    BY <2>1, <1>1 DEF Respond, Ledger!Next
  <2>2. CASE Block("poller") \/ Ticket("poller")
    <3>1. record' = record /\ pc["poller"] \in Acting
      BY <2>2 DEF Block, Ticket, RunVars, Acting
    <3>2. \/ trail' = trail
          \/ \E step \in Effects : trail' = trail \cup {Event("poller", step)}
      BY <2>2 DEF Block, Ticket, Attempt, Effects
    <3>3. InHandDecision \in Ledger!Decisions
      BY <3>1, HandIsLatest
    <3> QED
      BY <3>1, <3>2, <3>3, <1>2, <1>5 DEF Ledger!Next
  <2>3. CASE NodeRaises("poller") \/ Triage("poller") \/ Hunting("poller")
    BY <2>3, <1>5 DEF NodeRaises, Triage, Hunting, RunVars
  <2> QED
    BY <1>7, <2>1, <2>2, <2>3 DEF Graph
<1>8. ASSUME WriteBack PROVE [Ledger!Next]_Ledger!ledgerVars
  <2>1. trail' = trail /\ InHandDecision \in Ledger!Decisions
    BY <1>8, HandIsLatest DEF WriteBack
  <2> QED
    BY <1>8, <2>1, <1>3, <1>5 DEF Ledger!Next
<1>9. ASSUME Mirror \/ Notify PROVE [Ledger!Next]_Ledger!ledgerVars
  <2>1. record' = record /\ pc["poller"] \in Telling
    BY <1>9 DEF Mirror, Notify, RunVars, Telling
  <2>2. \/ trail' = trail
        \/ \E m \in {"mirror", "notice"} : trail' = trail \cup {Event("poller", m)}
    BY <1>9 DEF Mirror, Notify, Attempt
  <2>3. InHandDecision \in Ledger!Decisions
    BY <2>1, HandIsLatest
  <2> QED
    BY <2>1, <2>2, <2>3, <1>4, <1>5 DEF Ledger!Next
<1>10. CASE \/ Tick \/ Start \/ Crash \/ Interrupt \/ HunterExits \/ Poll
            \/ Advance \/ UNCHANGED vars
            \/ \E a \in Alerts : Index(a) \/ StartHunt(a) \/ Ingest(a)
  BY <1>10, <1>5 DEF Tick, Start, Crash, Interrupt, HunterExits, Poll, Advance, AdvanceTo,
     Index, StartHunt, Ingest, RunVars, pipelineVars, vars
<1> QED
  BY <1>6, <1>7, <1>8, <1>9, <1>10 DEF Next, Loop, Threads

(* Every behaviour of the pipeline, whatever fails and whenever it crashes,  *)
(* is one that AlertLedger allows.                                           *)
THEOREM RefinesLedger == Spec => LedgerSpec
BY LedgerInit, LedgerStep, Invariance, PTL DEF Spec, LedgerSpec

(* What AlertLedger's rules come to, for the pipeline that follows them. *)
LedgerPromise ==
    /\ Decided \subseteq Ledger!Decisions
    /\ \A d, e \in Decided : d.alert = e.alert /\ d.round = e.round => d = e
    /\ \A x \in Acted : x.decision \in Decided /\ x.decision.verdict = "suspicious"
    /\ \A x \in Told : x.decision \in Decided
    /\ \A a \in Alerts : record[a] # Open =>
          \E d \in Decided : d.alert = a /\ d.verdict = record[a]

LEMMA PromiseStep ==
    TypeOK /\ LedgerPromise /\ [Ledger!Next]_Ledger!ledgerVars => LedgerPromise'
<1> SUFFICES ASSUME TypeOK, LedgerPromise, [Ledger!Next]_Ledger!ledgerVars PROVE LedgerPromise'
  OBVIOUS
<1>0. record \in [Alerts -> Verdicts \cup {Open}]
  BY DEF TypeOK
<1>1. CASE UNCHANGED Ledger!ledgerVars
  <2>1. Decided' = Decided /\ Acted' = Acted /\ Told' = Told /\ record' = record
    BY <1>1 DEF Ledger!ledgerVars, Decided, Acted, Told
  <2> QED
    BY <2>1 DEF LedgerPromise
<1>2. ASSUME NEW d \in Ledger!Decisions, Ledger!Decide(d) PROVE LedgerPromise'
  <2>1. /\ Decided' = Decided \cup {d} /\ Acted' = Acted /\ Told' = Told /\ record' = record
        /\ ~ \E e \in Decided : e.alert = d.alert /\ e.round = d.round
    BY <1>2 DEF Ledger!Decide, Decided, Acted, Told
  <2> QED
    BY <2>1 DEF LedgerPromise
<1>3. ASSUME NEW d \in Ledger!Decisions, Ledger!Close(d) PROVE LedgerPromise'
  <2>1. /\ Decided' = Decided /\ Acted' = Acted /\ Told' = Told
        /\ d \in Decided /\ record' = [record EXCEPT ![d.alert] = d.verdict]
    BY <1>3 DEF Ledger!Close, Decided, Acted, Told
  <2>2. \A a \in Alerts : record'[a] = IF a = d.alert THEN d.verdict ELSE record[a]
    BY <1>0, <2>1
  <2> QED
    BY <2>1, <2>2 DEF LedgerPromise
<1>4. ASSUME NEW d \in Ledger!Decisions, NEW action \in Effects, Ledger!Act(d, action)
      PROVE  LedgerPromise'
  <2>1. /\ Decided' = Decided /\ Told' = Told /\ record' = record
        /\ d \in Decided /\ d.verdict = "suspicious"
        /\ Acted' = Acted \cup {[decision |-> d, action |-> action]}
    BY <1>4 DEF Ledger!Act, Decided, Acted, Told
  <2> QED
    BY <2>1 DEF LedgerPromise
<1>5. ASSUME NEW d \in Ledger!Decisions, NEW message \in {"mirror", "notice"}, Ledger!Tell(d, message)
      PROVE  LedgerPromise'
  <2>1. /\ Decided' = Decided /\ Acted' = Acted /\ record' = record /\ d \in Decided
        /\ Told' = Told \cup {[decision |-> d, message |-> message]}
    BY <1>5 DEF Ledger!Tell, Decided, Acted, Told
  <2> QED
    BY <2>1 DEF LedgerPromise
<1> QED
  BY <1>1, <1>2, <1>3, <1>4, <1>5 DEF Ledger!Next

(* In each session an alert gets one decision with one verdict; whatever    *)
(* the poll loop blocks, tickets, mirrors or announces follows such a       *)
(* decision, blocks and tickets a suspicious one; and the verdict on a      *)
(* document is one that was decided for it (response_node,                  *)
(* mark_alert_triaged).  A consequence of the refinement alone.             *)
THEOREM PromisesAreKept == Spec => []LedgerPromise
<1>1. Ledger!Init => LedgerPromise
  BY DEF Ledger!Init, LedgerPromise, Decided, Acted, Told
<1> QED
  BY <1>1, PromiseStep, RefinesLedger, TypeCorrect, PTL DEF LedgerSpec

------------------------------------------------------------------------------
(* Why a page comes to its end: the poll loop counts its steps down *)

\* The steps left for the alert in hand, at most nine.
StepsLeft(step) ==
    IF step = "triage" THEN 9
    ELSE IF step = "hunting" THEN 8
    ELSE IF step = "respond" THEN 7
    ELSE IF step = "block" THEN 6
    ELSE IF step = "ticket" THEN 5
    ELSE IF step = "writeback" THEN 4
    ELSE IF step = "mirror" THEN 3
    ELSE IF step = "notify" THEN 2
    ELSE IF step = "advance" THEN 1
    ELSE 0

\* Ten steps for each alert still waiting.
PageLeft == 10 * Cardinality(batch) + StepsLeft(pc["poller"])

PollerMoves == Loop \/ Graph("poller")

\* Filebeat has indexed finitely many alerts, and a page is no longer than asked for.
PageInv ==
    /\ IsFiniteSet(indexed) /\ IsFiniteSet(batch)
    /\ PageLeft \in 0..10 * BatchSize

\* Only a new page makes more work, and each step of the poll loop makes less.
CountsDown ==
    pc["poller"] # "poll" =>
      /\ PageLeft' <= PageLeft
      /\ PollerMoves => PageLeft' < PageLeft

LEMMA StepsLeftType ==
    \A step : StepsLeft(step) \in 0..9
BY DEF StepsLeft

LEMMA PageLeftType ==
    ASSUME IsFiniteSet(batch)
    PROVE  Cardinality(batch) \in Nat /\ StepsLeft(pc["poller"]) \in Nat /\ PageLeft \in Nat
BY FS_CardinalityType, StepsLeftType DEF PageLeft

(* A step of the poller with the page as it was. *)
LEMMA SamePage ==
    ASSUME IsFiniteSet(batch), batch' = batch,
           StepsLeft(pc'["poller"]) < StepsLeft(pc["poller"])
    PROVE  PageLeft' < PageLeft
<1>1. Cardinality(batch) \in Nat /\ StepsLeft(pc["poller"]) \in Nat /\ StepsLeft(pc'["poller"]) \in Nat
  BY FS_CardinalityType, StepsLeftType
<1>2. PageLeft' = 10 * Cardinality(batch) + StepsLeft(pc'["poller"])
  BY DEF PageLeft
<1> QED
  BY <1>1, <1>2 DEF PageLeft

(* A step that leaves the page and the poller alone, or stops them. *)
LEMMA PollerStays ==
    ASSUME IsFiniteSet(batch), batch' = batch, pc'["poller"] = pc["poller"]
    PROVE  PageLeft' = PageLeft
BY DEF PageLeft

LEMMA PollerStops ==
    ASSUME IsFiniteSet(batch), batch' = {}, pc'["poller"] \in {"down", "poll"}
    PROVE  PageLeft' = 0 /\ PageLeft' <= PageLeft
<1>1. PageLeft' = 0
  BY FS_EmptySet DEF PageLeft, StepsLeft
<1> QED
  BY <1>1, PageLeftType

(* The steps of the poll loop, other than the fetching of a page. *)
LEMMA PollerCountsDown ==
    ASSUME TypeOK, StepsOK, IsFiniteSet(batch), PollerMoves, ~Poll
    PROVE  IsFiniteSet(batch') /\ PageLeft' < PageLeft
<1> USE ThreadsDistinct DEF Goto
<1>p. pc \in [Threads -> PollerSteps \cup HunterSteps]
  BY DEF TypeOK
<1>1. ASSUME NEW a \in Alerts, Ingest(a) PROVE IsFiniteSet(batch') /\ PageLeft' < PageLeft
  <2>1. /\ pc["poller"] = "loop" /\ a \in batch /\ batch' = batch \ {a}
        /\ pc'["poller"] \in {"triage", "advance"}
    BY <1>1, <1>p DEF Ingest
  <2>2. /\ Cardinality(batch) \in Nat /\ IsFiniteSet(batch \ {a})
        /\ Cardinality(batch \ {a}) = Cardinality(batch) - 1
    BY <2>1, FS_CardinalityType, FS_RemoveElement
  <2>3. StepsLeft(pc["poller"]) = 0 /\ StepsLeft(pc'["poller"]) \in 0..9
    BY <2>1, StepsLeftType DEF StepsLeft
  <2>4. PageLeft' = 10 * (Cardinality(batch) - 1) + StepsLeft(pc'["poller"])
    BY <2>1, <2>2 DEF PageLeft
  <2> QED
    BY <2>1, <2>2, <2>3, <2>4 DEF PageLeft
<1>2. CASE Advance
  <2>1. batch' = batch /\ pc["poller"] = "advance" /\ pc'["poller"] \in {"poll", "loop"}
    BY <1>2, <1>p DEF Advance, AdvanceTo
  <2>2. StepsLeft(pc'["poller"]) < StepsLeft(pc["poller"])
    BY <2>1 DEF StepsLeft
  <2> QED
    BY <2>1, <2>2, SamePage
<1>3. CASE WriteBack \/ Mirror \/ Notify
  <2>1. /\ batch' = batch
        /\ <<pc["poller"], pc'["poller"]>> \in
             {<<"writeback", "mirror">>, <<"mirror", "notify">>, <<"notify", "advance">>}
    BY <1>3, <1>p DEF WriteBack, Mirror, Notify, RunVars
  <2>2. StepsLeft(pc'["poller"]) < StepsLeft(pc["poller"])
    BY <2>1 DEF StepsLeft
  <2> QED
    BY <2>1, <2>2, SamePage
<1>4. CASE Graph("poller")
  <2>1. batch' = batch
    BY <1>4 DEF Graph, NodeRaises, Triage, Hunting, Respond, Block, Ticket, RunVars
  <2>2. CASE NodeRaises("poller")
    <3>1. pc["poller"] \in {"triage", "hunting"} /\ pc'["poller"] = "advance"
      BY <2>2, <1>p DEF NodeRaises, AfterError
    <3>2. StepsLeft(pc'["poller"]) < StepsLeft(pc["poller"])
      BY <3>1 DEF StepsLeft
    <3> QED
      BY <2>1, <3>2, SamePage
  <2>3. CASE Respond("poller")
    <3>1. pc["poller"] = "respond" /\ pc'["poller"] \in {"writeback", "block", "ticket"}
      BY <2>3, <1>p DEF Respond, AfterGraph
    <3>2. StepsLeft(pc'["poller"]) < StepsLeft(pc["poller"])
      BY <3>1 DEF StepsLeft
    <3> QED
      BY <2>1, <3>2, SamePage
  <2>4. CASE Triage("poller") \/ Hunting("poller") \/ Block("poller") \/ Ticket("poller")
    <3>1. <<pc["poller"], pc'["poller"]>> \in
            {<<"triage", "hunting">>, <<"hunting", "respond">>, <<"block", "ticket">>, <<"ticket", "writeback">>}
      BY <2>4, <1>p DEF Triage, Hunting, Block, Ticket, AfterGraph
    <3>2. StepsLeft(pc'["poller"]) < StepsLeft(pc["poller"])
      BY <3>1 DEF StepsLeft
    <3> QED
      BY <2>1, <3>2, SamePage
  <2> QED
    BY <1>4, <2>2, <2>3, <2>4 DEF Graph
<1> QED
  BY <1>1, <1>2, <1>3, <1>4 DEF PollerMoves, Loop

(* The steps of the others. *)
LEMMA OthersLeaveThePage ==
    ASSUME TypeOK, IsFiniteSet(batch), [Next]_vars, ~PollerMoves
    PROVE  IsFiniteSet(batch') /\ (pc["poller"] # "poll" => PageLeft' <= PageLeft)
           /\ (PageLeft' = PageLeft \/ PageLeft' = 0)
<1> USE ThreadsDistinct DEF Goto
<1>p. pc \in [Threads -> PollerSteps \cup HunterSteps] /\ PageLeft \in Nat
  BY PageLeftType DEF TypeOK
<1>1. CASE batch' = batch /\ pc'["poller"] = pc["poller"]
  BY <1>1, <1>p, PollerStays
<1>2. CASE batch' = {} /\ pc'["poller"] \in {"down", "poll"}
  BY <1>2, PollerStops, FS_EmptySet
<1>3. CASE Start
  <2>1. batch' = batch /\ pc["poller"] = "down" /\ pc'["poller"] = "poll"
    BY <1>3 DEF Start
  <2>2. PageLeft' = PageLeft
    BY <2>1 DEF PageLeft, StepsLeft
  <2> QED
    BY <1>p, <2>1, <2>2
<1>4. CASE Tick \/ HunterExits \/ (\E a \in Alerts : Index(a) \/ StartHunt(a)) \/ UNCHANGED vars
  <2>1. batch' = batch /\ pc'["poller"] = pc["poller"]
    BY <1>4, <1>p DEF Tick, pipelineVars, HunterExits, RunVars, Index, StartHunt, vars
  <2> QED
    BY <1>1, <2>1
<1>5. CASE Crash \/ Interrupt
  <2>1. batch' = {} /\ pc'["poller"] \in {"down", "poll"}
    BY <1>5, <1>p DEF Crash, Interrupt
  <2> QED
    BY <1>2, <2>1
<1>6. CASE Graph("hunter")
  <2>1. batch' = batch
    BY <1>6 DEF Graph, NodeRaises, Triage, Hunting, Respond, Block, Ticket, RunVars
  <2>2. pc'["poller"] = pc["poller"]
    BY <1>6, <1>p DEF Graph, NodeRaises, Triage, Hunting, Respond, Block, Ticket
  <2> QED
    BY <1>1, <2>1, <2>2
<1>7. \/ Start \/ Crash \/ Interrupt \/ Graph("hunter")
      \/ Tick \/ HunterExits \/ (\E a \in Alerts : Index(a) \/ StartHunt(a)) \/ UNCHANGED vars
  BY DEF Next, PollerMoves
<1> QED
  BY <1>3, <1>4, <1>5, <1>6, <1>7

(* A page is part of what is indexed and no longer than BatchSize. *)
LEMMA PollKeepsPage ==
    ASSUME IsFiniteSet(indexed), Poll, TypeOK
    PROVE  IsFiniteSet(batch') /\ PageLeft' \in 0..10 * BatchSize
<1>1. batch' \subseteq indexed /\ (batch' = {} \/ Cardinality(batch') <= BatchSize)
      /\ pc'["poller"] \in {"poll", "loop"}
  BY ThreadsDistinct DEF Poll, Pages, Eligible, Goto, TypeOK
<1>2. IsFiniteSet(batch') /\ Cardinality(batch') \in Nat
  BY <1>1, FS_Subset, FS_CardinalityType
<1>3. Cardinality(batch') <= BatchSize /\ BatchSize \in Nat
  BY <1>1, FS_EmptySet, BatchAssumption
<1>4. PageLeft' = 10 * Cardinality(batch')
  <2>1. StepsLeft(pc'["poller"]) = 0
    BY <1>1 DEF StepsLeft
  <2> QED
    BY <1>2, <2>1 DEF PageLeft
<1> QED
  BY <1>2, <1>3, <1>4

LEMMA PageStep == IInv /\ PageInv /\ [Next]_vars => PageInv' /\ CountsDown
<1> SUFFICES ASSUME IInv, PageInv, [Next]_vars PROVE PageInv' /\ CountsDown
  OBVIOUS
<1>0. TypeOK /\ StepsOK /\ IsFiniteSet(batch) /\ IsFiniteSet(indexed) /\ BatchSize \in Nat
      /\ PageLeft \in Nat /\ PageLeft <= 10 * BatchSize /\ 10 * BatchSize \in Nat
  BY BatchAssumption DEF IInv, PageInv
<1>1. IsFiniteSet(indexed')
  <2>1. CASE indexed' = indexed
    BY <1>0, <2>1
  <2>2. ASSUME NEW a \in Alerts, Index(a) PROVE IsFiniteSet(indexed')
    BY <1>0, <2>2, FS_AddElement DEF Index
  <2> QED
    BY <2>1, <2>2
       DEF Next, Loop, Graph, Tick, Start, Crash, Interrupt, HunterExits, StartHunt, Poll, Ingest,
           WriteBack, Mirror, Notify, Advance, AdvanceTo, NodeRaises, Triage, Hunting, Respond,
           Block, Ticket, RunVars, pipelineVars, vars
<1>2. CASE PollerMoves /\ Poll
  <2>1. IsFiniteSet(batch') /\ PageLeft' \in 0..10 * BatchSize
    BY <1>0, <1>2, PollKeepsPage
  <2>2. pc["poller"] = "poll"
    BY <1>2 DEF Poll
  <2> QED
    BY <1>1, <2>1, <2>2 DEF PageInv, CountsDown
<1>3. CASE PollerMoves /\ ~Poll
  <2>1. IsFiniteSet(batch') /\ PageLeft' < PageLeft
    BY <1>0, <1>3, PollerCountsDown
  <2>2. PageLeft' \in Nat
    <3>1. Cardinality(batch') \in Nat /\ StepsLeft(pc'["poller"]) \in Nat
      BY <2>1, FS_CardinalityType, StepsLeftType
    <3> QED
      BY <3>1 DEF PageLeft
  <2> QED
    BY <1>0, <1>1, <2>1, <2>2 DEF PageInv, CountsDown
<1>4. CASE ~PollerMoves
  <2>1. /\ IsFiniteSet(batch') /\ (pc["poller"] # "poll" => PageLeft' <= PageLeft)
        /\ (PageLeft' = PageLeft \/ PageLeft' = 0)
    BY <1>0, <1>4, OthersLeaveThePage
  <2> QED
    BY <1>0, <1>1, <1>4, <2>1 DEF PageInv, CountsDown
<1> QED
  BY <1>2, <1>3, <1>4

(* A page of BatchSize alerts is worked off in at most ten steps of the     *)
(* poll loop for each, whatever raises or fails and whatever the hunt       *)
(* thread does meanwhile: run_pipeline_once and the loop of main never take *)
(* an alert up again.  That the loop takes these steps is PageIsWorkedOff.  *)
THEOREM PagesCountDown == Spec => []PageInv /\ [][CountsDown]_vars
<1>1. Init => PageInv
  <2> SUFFICES ASSUME Init PROVE PageInv
    OBVIOUS
  <2>1. /\ indexed = {} /\ batch = {} /\ StepsLeft(pc["poller"]) = 0
        /\ IsFiniteSet({}) /\ Cardinality({}) = 0 /\ BatchSize \in Nat
    BY ThreadsDistinct, FS_EmptySet, BatchAssumption DEF Init, StepsLeft
  <2>2. PageLeft = 0
    BY <2>1 DEF PageLeft
  <2> QED
    BY <2>1, <2>2 DEF PageInv
<1>2. IInv /\ PageInv /\ [Next]_vars => PageInv'
  BY PageStep
<1>3. IInv /\ PageInv /\ [Next]_vars => [CountsDown]_vars
  BY PageStep
<1> QED
  BY <1>1, <1>2, <1>3, Invariance, PTL DEF Spec
==============================================================================
