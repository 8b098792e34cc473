---------------------------- MODULE Notifications ----------------------------
(***************************************************************************)
(* The notification dispatch at the end of an alert's run, next to the     *)
(* operators who change the tenants' documents: the alert's tenant's       *)
(* document is read once, and every channel its rules ask for is tried in  *)
(* turn and logged.                                                        *)
(*                                                                         *)
(* Covered: the document changing under the dispatch, an alert dispatched  *)
(* again after a restart, a read that fails, a channel without a           *)
(* destination or with something that is not an object, a channel that     *)
(* fails or loses its reply, a log write that fails, the runner dying in   *)
(* between.                                                                *)
(*                                                                         *)
(* Differences from the code: channels are tried in any order, the code's  *)
(* is that of the rules; a message is the alert and the channel.           *)
(***************************************************************************)
EXTENDS TenantConfig, ConfidenceScoring

CONSTANTS
    Alerts,     \* alerts the runner dispatches notifications for
    OwnerOf,    \* the tenant each of them resolves to
    Percents,   \* final percentages an alert may have
    MaxDispatches  \* bound on dispatches

ASSUME OwnerAssumption == OwnerOf \in [Alerts -> Tenants]
ASSUME PercentAssumption == Percents \subseteq 0..100
ASSUME DispatchAssumption == MaxDispatches \in Nat

VARIABLES
    stage,    \* next step of the dispatch
    notice,   \* the alert, its tenant's document as read, the severity
    todo,     \* channels not tried yet
    current,  \* the attempt to log
    round,    \* dispatches begun so far
    tried,    \* history: attempts made
    entries   \* siem-notification-log

dispatch == <<stage, notice, todo, current, round, tried, entries>>
vars == <<registry, dispatch>>

NoNotice == [alert |-> Absent, config |-> Absent, severity |-> "low"]
NoAttempt == [round |-> 0, alert |-> Absent, channel |-> "none",
              severity |-> "low", success |-> FALSE]

Init ==
    /\ InitRegistry
    /\ stage = "idle"
    /\ notice = NoNotice /\ current = NoAttempt
    /\ todo = {} /\ round = 0 /\ tried = {} /\ entries = {}

------------------------------------------------------------------------------
(* _matching_channels *)

Rank == [low |-> 0, medium |-> 1, high |-> 2, critical |-> 3]

\* A rule's severity is a floor, unless it asks for an exact match.
Fires(rule, severity) ==
    IF rule.exact THEN Rank[severity] = Rank[rule.severity]
    ELSE Rank[severity] >= Rank[rule.severity]

MatchingChannels(severity, rules) ==
    UNION {rule.channels : rule \in {r \in rules : Fires(r, severity)}}

------------------------------------------------------------------------------
(* _dispatch_notifications and send_notifications *)

EndDispatch ==
    /\ stage' = "idle"
    /\ notice' = NoNotice /\ current' = NoAttempt /\ todo' = {}

\* No channel: one entry of its own in the log, which may fail.
LogNone(a, severity) ==
    \/ entries' = entries \cup {[round |-> round + 1, alert |-> a, channel |-> "none",
                                 severity |-> severity, success |-> TRUE]}
    \/ "log" \in Unreliable /\ UNCHANGED entries

(* The document is read once; without one there is no notification. *)
Dispatch(a, pct) ==
    /\ stage = "idle" /\ round < MaxDispatches
    /\ round' = round + 1
    /\ \E doc \in {configs[OwnerOf[a]]} \cup
                  (IF "get" \in Unreliable THEN {Absent} ELSE {}) :
         IF doc = Absent THEN UNCHANGED <<stage, notice, todo, entries>>
         ELSE LET severity == NotifySeverity(pct)
                  channels == MatchingChannels(severity, doc.settings.rules)
              IN  IF channels = {}
                  THEN LogNone(a, severity) /\ UNCHANGED <<stage, notice, todo>>
                  ELSE /\ stage' = "send" /\ todo' = channels
                       /\ notice' = [alert |-> a, config |-> doc,
                                     severity |-> severity]
                       /\ UNCHANGED entries
    /\ UNCHANGED <<current, tried, registry>>

\* PagerDuty has an address of its own.
HasDestination(channel, destination) ==
    destination = "set" \/ (channel = "pagerduty_webhook" /\ destination = "missing")

\* Mutant: the log gets PagerDuty's word for the severity.
AttemptPagerDutySeverity(channel, success) ==
    [round |-> round, alert |-> notice.alert, channel |-> channel,
     severity |-> [critical |-> "critical", high |-> "error",
                   medium |-> "warning", low |-> "info"][notice.severity],
     success |-> success]

Attempt(channel, success) ==
    [round |-> round, alert |-> notice.alert, channel |-> channel,
     severity |-> notice.severity, success |-> success]

Destination(channel) == notice.config.settings.destinations[channel]

(* One channel.  What is not an object has no get, which raises, and the    *)
(* dispatch is over; a failure to send is only an outcome.                  *)
Send(channel) ==
    /\ stage = "send" /\ channel \in todo
    /\ IF Destination(channel) = "malformed"
       THEN EndDispatch /\ UNCHANGED tried
       ELSE /\ \E o \in IF HasDestination(channel, Destination(channel))
                        THEN Outcomes("channel")
                        ELSE {[taken |-> FALSE, success |-> FALSE]} :
                 /\ current' = Attempt(channel, o.success)
                 /\ tried' = tried \cup {Attempt(channel, o.success)}
            /\ todo' = todo \ {channel}
            /\ stage' = "log"
            /\ UNCHANGED notice
    /\ UNCHANGED <<round, entries, registry>>

\* Mutant: the first channel that fails ends the dispatch.
OnToTheNextUnlessFailed ==
    IF todo = {} \/ ~current.success THEN EndDispatch
    ELSE stage' = "send" /\ current' = NoAttempt /\ UNCHANGED <<notice, todo>>

\* Mutant: the next channel is looked up in the document as it is now.
OnToTheNextByNewDocument ==
    LET doc == configs[OwnerOf[notice.alert]]
        due == IF doc = Absent THEN todo
               ELSE MatchingChannels(notice.severity, doc.settings.rules)
                      \ {x.channel : x \in {y \in tried : y.round = round}}
    IN  IF due = {} THEN EndDispatch
        ELSE /\ stage' = "send" /\ todo' = due
             /\ current' = NoAttempt /\ UNCHANGED notice

OnToTheNext ==
    IF todo = {} THEN EndDispatch
    ELSE stage' = "send" /\ current' = NoAttempt /\ UNCHANGED <<notice, todo>>

(* The attempt is logged, unless that fails, and the next channel is due. *)
LogAttempt ==
    /\ stage = "log"
    /\ \/ entries' = entries \cup {current}
       \/ "log" \in Unreliable /\ UNCHANGED entries
    /\ OnToTheNext
    /\ UNCHANGED <<round, tried, registry>>

(* The runner is killed. *)
Die ==
    /\ stage # "idle"
    /\ EndDispatch
    /\ UNCHANGED <<round, tried, entries, registry>>

Runner ==
    \/ \E a \in Alerts, pct \in Percents : Dispatch(a, pct)
    \/ \E channel \in Channels : Send(channel)
    \/ LogAttempt

Next == Runner \/ Die \/ (NextRegistry /\ UNCHANGED dispatch)

Spec == Init /\ [][Next]_vars
------------------------------------------------------------------------------
(* Properties *)

Attempts == [round: 0..MaxDispatches, alert: Alerts, channel: Channels \cup {"none"},
             severity: Severities, success: BOOLEAN]

TypeOK ==
    /\ RegistryOK
    /\ stage \in {"idle", "send", "log"}
    /\ notice \in [alert: Alerts \cup {Absent}, config: Configs \cup {Absent},
                   severity: Severities]
    /\ todo \subseteq Channels
    /\ current \in Attempts \cup {NoAttempt}
    /\ round \in 0..MaxDispatches
    /\ tried \subseteq Attempts
    /\ entries \subseteq Attempts

\* A rule asks for notifications of a severity.
AsksFor(rule, severity) ==
    severity = rule.severity \/ (~rule.exact /\ Rank[severity] > Rank[rule.severity])

(* However a tenant's document changes meanwhile, the notifications of a    *)
(* dispatch follow one document the alert's own tenant has had: every       *)
(* channel tried is one a rule of that document asks for at the alert's     *)
(* severity.                                                                *)
OneDocumentPerNotice ==
    \A y \in tried :
        \E doc \in had[OwnerOf[y.alert]] :
          \A x \in tried :
            x.round = y.round =>
              /\ x.alert = y.alert
              /\ \E rule \in doc.settings.rules :
                   x.channel \in rule.channels /\ AsksFor(rule, x.severity)

\* Every channel the rules ask for has been tried.
AllTried ==
    \A rule \in notice.config.settings.rules :
        AsksFor(rule, notice.severity) =>
          \A channel \in rule.channels :
            \E x \in tried : x.round = round /\ x.channel = channel

Ends == Runner /\ stage # "idle" /\ stage' = "idle"

(* A channel that fails, has no destination or cannot be logged does not    *)
(* keep the others from being tried: a dispatch that nobody kills tries     *)
(* every channel, or ends at a configuration that is not an object.         *)
FailuresStayApart ==
    [][Ends => AllTried \/ \E channel \in todo : Destination(channel) = "malformed"]_vars

(* "Every channel send is independently wrapped; one channel failing never  *)
(* blocks the others", "Never raises" (webhook_engine): a dispatch that     *)
(* nobody kills tries every channel.                                        *)
NeverBlocked == [][Ends => AllTried]_vars
==============================================================================
