-------------------------- MODULE NotificationsProofs --------------------------
(* The registry and the dispatch for any tenants, operators, rules, alerts  *)
(* and failures: types, what may reactivate a tenant, that the              *)
(* notifications of a dispatch follow one document of the alert's tenant,   *)
(* and that only a configuration that is not an object keeps a channel from *)
(* being tried.                                                             *)
EXTENDS Notifications, TLAPS

\* A call about to write a document back has read one.
HasRead ==
    \A o \in Operators :
      step[o] # "idle" =>
        /\ call[o] \in Requests
        /\ step[o] = "post" /\ call[o].kind # "create" => call[o].seen \in Configs

RegistryInv ==
    /\ RegistryOK
    /\ HasRead
    /\ \A t \in Tenants : configs[t] = Absent \/ configs[t] \in had[t]

\* What a dispatch under way has tried and will try.
DispatchOK ==
    stage # "idle" =>
      /\ notice.alert \in Alerts
      /\ notice.config \in had[OwnerOf[notice.alert]]
      /\ todo \subseteq MatchingChannels(notice.severity, notice.config.settings.rules)
      /\ \A x \in tried :
           x.round = round =>
             /\ x.alert = notice.alert /\ x.severity = notice.severity
             /\ x.channel \in MatchingChannels(notice.severity,
                                               notice.config.settings.rules)

(* The invariant: besides the types, what is about to be written back was   *)
(* read, and the attempts so far and to come belong to one document.        *)
IInv ==
    /\ TypeOK /\ RegistryInv
    /\ stage = "log" => current \in Attempts
    /\ DispatchOK
    /\ \A x \in tried : x.round <= round
    /\ OneDocumentPerNotice

USE StoredAssumption, AbsentAssumption, SettingsAssumption, BoundAssumption,
    OwnerAssumption, PercentAssumption, DispatchAssumption

------------------------------------------------------------------------------
(* A registration's document, and a deactivated one, is a document. *)
LEMMA NewIsConfig == NoSettings \in SettingsDocs
                     /\ [active |-> TRUE, settings |-> NoSettings] \in Configs
BY DEF NoSettings, SettingsDocs, Configs, Destinations

LEMMA InactiveIsConfig ==
    ASSUME NEW c \in Configs
    PROVE  /\ [c EXCEPT !.active = FALSE] \in Configs
           /\ [c EXCEPT !.active = FALSE].active = FALSE
BY DEF Configs

(* There is no family for configuration documents. *)
LEMMA NoConfigFamily == "config" \notin Families
BY DEF Families

(* What a request can come to is two answers. *)
LEMMA OutcomeTypes ==
    ASSUME NEW name, NEW outcome \in Outcomes(name)
    PROVE  outcome.taken \in BOOLEAN /\ outcome.success \in BOOLEAN
<1>1. \/ outcome = [taken |-> TRUE, success |-> TRUE]
      \/ outcome = [taken |-> TRUE, success |-> FALSE]
      \/ outcome = [taken |-> FALSE, success |-> FALSE]
  <2>1. CASE name \in Unreliable
    BY <2>1, Zenon DEF Outcomes
  <2>2. CASE name \notin Unreliable
    BY <2>2, Zenon DEF Outcomes
  <2> QED BY <2>1, <2>2
<1>2. CASE outcome = [taken |-> TRUE, success |-> TRUE]
  BY <1>2, Zenon
<1>3. CASE outcome = [taken |-> TRUE, success |-> FALSE]
  BY <1>3, Zenon
<1>4. CASE outcome = [taken |-> FALSE, success |-> FALSE]
  BY <1>4, Zenon
<1> QED BY <1>1, <1>2, <1>3, <1>4

(* A rule that fires asks for notifications of that severity. *)
LEMMA FiringAsks ==
    ASSUME NEW rule \in Rules, NEW severity \in Severities, Fires(rule, severity)
    PROVE  AsksFor(rule, severity)
BY DEF Fires, AsksFor, Rank, Rules, Severities

(* Every channel that matches is asked for by a rule. *)
LEMMA MatchingIsAskedFor ==
    ASSUME NEW rules, rules \subseteq Rules, NEW severity \in Severities,
           NEW channel \in MatchingChannels(severity, rules)
    PROVE  /\ channel \in Channels
           /\ \E rule \in rules : channel \in rule.channels /\ AsksFor(rule, severity)
<1>1. PICK rule \in rules : Fires(rule, severity) /\ channel \in rule.channels
  BY DEF MatchingChannels
<1>2. rule \in Rules /\ rule.channels \subseteq Channels
  BY <1>1 DEF Rules
<1> QED BY <1>1, <1>2, FiringAsks

(* The severity of a percentage is one of the four. *)
LEMMA SeverityOfPercent ==
    ASSUME NEW pct \in Percents PROVE NotifySeverity(pct) \in Severities
BY DEF NotifySeverity, Severities

------------------------------------------------------------------------------
(* The registry's steps *)

LEMMA RegistryInit == InitRegistry => RegistryInv
BY DEF InitRegistry, RegistryInv, RegistryOK, HasRead

\* Storing a document keeps the registry's part about documents.
LEMMA StoreSound ==
    ASSUME NEW t \in Tenants, NEW c \in Configs, NEW taken \in BOOLEAN,
           RegistryInv, Store(t, c, taken)
    PROVE  /\ configs' \in [Tenants -> Configs \cup {Absent}]
           /\ had' \in [Tenants -> SUBSET Configs]
           /\ \A u \in Tenants : had[u] \subseteq had'[u]
           /\ \A u \in Tenants : configs'[u] = Absent \/ configs'[u] \in had'[u]
           /\ \A u \in Tenants : configs'[u] # configs[u] => u = t /\ configs'[u] = c
<1>1. CASE taken
  BY <1>1 DEF Store, RegistryInv, RegistryOK
<1>2. CASE ~taken
  BY <1>2 DEF Store, RegistryInv, RegistryOK
<1> QED BY <1>1, <1>2

\* A step of the registry keeps its invariant, reactivates a tenant only by
\* a registration, and forgets no document a tenant has had.
Reactivated(t) ==
    /\ configs[t] # Absent /\ configs'[t] # Absent
    /\ ~configs[t].active /\ configs'[t].active

Registering(t) ==
    \E o \in Operators : step[o] = "post" /\ call[o].kind = "create"
                          /\ call[o].tenant = t

RegistryGoal ==
    /\ RegistryInv'
    /\ \A t \in Tenants : Reactivated(t) => Registering(t)
    /\ \A t \in Tenants : had[t] \subseteq had'[t]

LEMMA BeginSound ==
    ASSUME RegistryInv, NEW o \in Operators, NEW kind \in Kinds, NEW t \in Tenants,
           NEW settings \in SettingsDocs, Begin(o, kind, t, settings)
    PROVE  RegistryGoal
<1> DEFINE request == [kind |-> kind, tenant |-> t, settings |-> settings,
                       seen |-> Absent]
<1>1. request \in Requests
  BY DEF Requests
<1>2. call' = [call EXCEPT ![o] = request]
      /\ step' = [step EXCEPT ![o] = IF kind = "create" THEN "post" ELSE "get"]
  BY DEF Begin
<1>3. request.kind = kind
  OBVIOUS
<1> HIDE DEF request
<1>4. RegistryOK'
  BY <1>1, <1>2 DEF Begin, RegistryInv, RegistryOK
<1>5. HasRead'
  BY <1>1, <1>2, <1>3 DEF RegistryInv, RegistryOK, HasRead
<1>6. UNCHANGED <<configs, had>>
  BY DEF Begin
<1> QED BY <1>4, <1>5, <1>6 DEF RegistryInv, RegistryGoal, Reactivated

\* The end of a call.
LEMMA FinishSound ==
    ASSUME RegistryInv, NEW o \in Operators, Finish(o)
    PROVE  /\ step' \in [Operators -> {"idle", "get", "post", "seed"}]
           /\ call' \in [Operators -> Requests \cup {Absent}]
           /\ HasRead'
BY DEF Finish, RegistryInv, RegistryOK, HasRead

LEMMA GetSound ==
    ASSUME RegistryInv, NEW o \in Operators, Get(o)
    PROVE  RegistryGoal
<1>1. UNCHANGED <<configs, indices, calls, had>>
  BY DEF Get
<1>2. PICK doc \in {configs[call[o].tenant]} \cup {Absent} :
        IF doc = Absent THEN Finish(o)
        ELSE /\ call' = [call EXCEPT ![o].seen = doc]
             /\ step' = [step EXCEPT ![o] = "post"]
  BY DEF Get
<1>3. call[o] \in Requests
  BY DEF Get, RegistryInv, HasRead
<1>4. /\ step' \in [Operators -> {"idle", "get", "post", "seed"}]
      /\ call' \in [Operators -> Requests \cup {Absent}]
      /\ HasRead'
  <2>1. CASE doc = Absent
    BY <1>2, <2>1, FinishSound
  <2>2. CASE doc # Absent
    <3>1. doc \in Configs
      BY <1>2, <1>3, <2>2 DEF RegistryInv, RegistryOK, Requests
    <3> DEFINE request == [call[o] EXCEPT !.seen = doc]
    <3>2. request \in Requests /\ request.seen = doc
      BY <1>3, <3>1 DEF Requests
    <3>3. call' = [call EXCEPT ![o] = request]
      BY <1>2, <2>2
    <3> HIDE DEF request
    <3> QED BY <1>2, <2>2, <3>1, <3>2, <3>3 DEF RegistryInv, RegistryOK, HasRead
  <2> QED BY <2>1, <2>2
<1> QED BY <1>1, <1>4 DEF RegistryInv, RegistryOK, RegistryGoal, Reactivated

LEMMA PostNewSound ==
    ASSUME RegistryInv, NEW o \in Operators, PostNew(o)
    PROVE  RegistryGoal
<1> DEFINE c == [active |-> TRUE, settings |-> NoSettings]
<1>1. call[o] \in Requests /\ call[o].tenant \in Tenants
  BY DEF PostNew, RegistryInv, HasRead, Requests
<1>2. PICK outcome \in Outcomes("post") :
        /\ Store(call[o].tenant, c, outcome.taken)
        /\ IF outcome.success THEN step' = [step EXCEPT ![o] = "seed"] /\ UNCHANGED call
           ELSE Finish(o)
  BY DEF PostNew
<1>3. outcome.taken \in BOOLEAN
  BY OutcomeTypes
<1> HIDE DEF c
<1>4. c \in Configs
  BY NewIsConfig DEF c
<1>5. /\ configs' \in [Tenants -> Configs \cup {Absent}]
      /\ had' \in [Tenants -> SUBSET Configs]
      /\ \A u \in Tenants : had[u] \subseteq had'[u]
      /\ \A u \in Tenants : configs'[u] = Absent \/ configs'[u] \in had'[u]
      /\ \A u \in Tenants : configs'[u] # configs[u] => u = call[o].tenant
  BY <1>1, <1>2, <1>3, <1>4, StoreSound
<1>6. /\ step' \in [Operators -> {"idle", "get", "post", "seed"}]
      /\ call' \in [Operators -> Requests \cup {Absent}]
      /\ HasRead'
  <2>1. CASE outcome.success
    <3>1. step' = [step EXCEPT ![o] = "seed"] /\ call' = call
      BY <1>2, <2>1
    <3> QED BY <1>1, <3>1 DEF RegistryInv, RegistryOK, HasRead
  <2>2. CASE ~outcome.success
    BY <1>2, <2>2, FinishSound
  <2> QED BY <2>1, <2>2
<1>7. UNCHANGED <<indices, calls>>
  BY DEF PostNew
<1>8. \A t \in Tenants : Reactivated(t) => Registering(t)
  BY <1>5 DEF PostNew, Reactivated, Registering
<1> QED BY <1>5, <1>6, <1>7, <1>8 DEF RegistryInv, RegistryOK, RegistryGoal

LEMMA SeedSound ==
    ASSUME RegistryInv, NEW o \in Operators, Seed(o)
    PROVE  RegistryGoal
<1>1. call[o] \in Requests /\ call[o].tenant \in Tenants
  BY DEF Seed, RegistryInv, HasRead, Requests
<1>2. PICK created \in SUBSET Families :
        indices' = indices \cup ({call[o].tenant} \X created)
  BY DEF Seed
<1>3. indices' \subseteq Tenants \X Families
  BY <1>1, <1>2 DEF RegistryInv, RegistryOK
<1>4. UNCHANGED <<configs, calls, had>> /\ Finish(o)
  BY DEF Seed
<1> QED BY <1>3, <1>4, FinishSound
        DEF RegistryInv, RegistryOK, RegistryGoal, Reactivated

LEMMA PostInactiveSound ==
    ASSUME RegistryInv, NEW o \in Operators, PostInactive(o)
    PROVE  RegistryGoal
<1> DEFINE c == [call[o].seen EXCEPT !.active = FALSE]
<1>1. call[o] \in Requests /\ call[o].tenant \in Tenants /\ call[o].seen \in Configs
  BY DEF PostInactive, RegistryInv, HasRead, Requests
<1>2. c \in Configs /\ c.active = FALSE
  BY <1>1, InactiveIsConfig
<1>3. PICK outcome \in Outcomes("post") : Store(call[o].tenant, c, outcome.taken)
  BY DEF PostInactive
<1>4. outcome.taken \in BOOLEAN
  BY OutcomeTypes
<1> HIDE DEF c
<1>5. /\ configs' \in [Tenants -> Configs \cup {Absent}]
      /\ had' \in [Tenants -> SUBSET Configs]
      /\ \A u \in Tenants : had[u] \subseteq had'[u]
      /\ \A u \in Tenants : configs'[u] = Absent \/ configs'[u] \in had'[u]
      /\ \A u \in Tenants : configs'[u] # configs[u] => configs'[u] = c
  BY <1>1, <1>2, <1>3, <1>4, StoreSound
<1>6. \A t \in Tenants : ~Reactivated(t)
  BY <1>2, <1>5 DEF Reactivated
<1>7. UNCHANGED <<indices, calls>> /\ Finish(o)
  BY DEF PostInactive
<1> QED BY <1>5, <1>6, <1>7, FinishSound DEF RegistryInv, RegistryOK, RegistryGoal

LEMMA PostSettingsSound ==
    ASSUME RegistryInv, NEW o \in Operators, PostSettings(o)
    PROVE  RegistryGoal
<1>1. UNCHANGED <<configs, had, indices, calls>> /\ Finish(o)
  BY NoConfigFamily DEF PostSettings
<1> QED BY <1>1, FinishSound DEF RegistryInv, RegistryOK, RegistryGoal, Reactivated

LEMMA EditSound ==
    ASSUME RegistryInv, NEW t \in Tenants, NEW s \in Settings, Edit(t, s)
    PROVE  RegistryGoal
<1> DEFINE c == [configs[t] EXCEPT !.settings = s]
<1>1. configs[t] \in Configs /\ s \in SettingsDocs
  BY DEF Edit, RegistryInv, RegistryOK
<1>2. c \in Configs /\ c.active = configs[t].active
  BY <1>1 DEF Configs
<1>3. Store(t, c, TRUE)
  BY DEF Edit
<1> HIDE DEF c
<1>4. /\ configs' \in [Tenants -> Configs \cup {Absent}]
      /\ had' \in [Tenants -> SUBSET Configs]
      /\ \A u \in Tenants : had[u] \subseteq had'[u]
      /\ \A u \in Tenants : configs'[u] = Absent \/ configs'[u] \in had'[u]
      /\ \A u \in Tenants : configs'[u] # configs[u] => u = t /\ configs'[u] = c
  BY <1>2, <1>3, StoreSound
<1>5. \A u \in Tenants : ~Reactivated(u)
  BY <1>2, <1>4 DEF Reactivated
<1>6. UNCHANGED <<indices, step, call>> /\ calls' \in 0..MaxCalls
  BY DEF Edit, RegistryInv, RegistryOK
<1> QED BY <1>4, <1>5, <1>6 DEF RegistryInv, RegistryOK, RegistryGoal, HasRead

LEMMA RegistryStep ==
    ASSUME RegistryInv, [NextRegistry]_registry
    PROVE  RegistryGoal
<1>1. CASE UNCHANGED registry
  BY <1>1 DEF registry, RegistryInv, RegistryOK, HasRead, RegistryGoal, Reactivated
<1>2. ASSUME NEW o \in Operators, NEW t \in Tenants,
             NEW kind \in {"create", "deactivate"}, Begin(o, kind, t, NoSettings)
      PROVE  RegistryGoal
  <2>1. kind \in Kinds /\ NoSettings \in SettingsDocs
    BY NewIsConfig DEF Kinds
  <2> QED BY <1>2, <2>1, BeginSound
<1>3. ASSUME NEW o \in Operators, NEW t \in Tenants, NEW settings \in Settings,
             Begin(o, "set", t, settings)
      PROVE  RegistryGoal
  <2>1. "set" \in Kinds /\ settings \in SettingsDocs
    BY DEF Kinds
  <2> QED BY <1>3, <2>1, BeginSound
<1> QED BY <1>1, <1>2, <1>3, GetSound, PostNewSound, SeedSound, PostInactiveSound,
           PostSettingsSound, EditSound DEF NextRegistry, CallStep

------------------------------------------------------------------------------
(* The dispatch's steps *)

LEMMA InitInv == Init => IInv
<1>1. Init => RegistryInv
  BY RegistryInit DEF Init
<1>2. Init => TypeOK
  BY <1>1 DEF Init, TypeOK, RegistryInv, NoNotice, NoAttempt, Severities
<1> QED BY <1>1, <1>2 DEF Init, IInv, DispatchOK, OneDocumentPerNotice

\* While the runner does not move, the operators' steps do no harm to it.
LEMMA OthersKeep ==
    ASSUME IInv, RegistryGoal, UNCHANGED dispatch
    PROVE  IInv'
<1>1. TypeOK'
  BY DEF IInv, TypeOK, RegistryGoal, RegistryInv, dispatch
<1>2. \A a \in Alerts : OwnerOf[a] \in Tenants
  OBVIOUS
<1>3. DispatchOK'
  <2>1. stage # "idle" => notice.alert \in Alerts
    BY DEF IInv, DispatchOK
  <2> QED BY <1>2, <2>1 DEF IInv, DispatchOK, RegistryGoal, dispatch
<1>4. \A y \in tried : y.alert \in Alerts
  BY DEF IInv, TypeOK, Attempts
<1>5. OneDocumentPerNotice'
  BY <1>2, <1>4, SMTT(30) DEF IInv, OneDocumentPerNotice, RegistryGoal, dispatch
<1> QED BY <1>1, <1>3, <1>5 DEF IInv, RegistryGoal, dispatch

\* While the operators do not move, their part of the invariant stays.
LEMMA RegistryKept ==
    ASSUME RegistryInv, UNCHANGED registry
    PROVE  RegistryInv' /\ RegistryOK'
BY DEF RegistryInv, RegistryOK, HasRead, registry

LEMMA EndKeeps ==
    ASSUME IInv, EndDispatch, UNCHANGED <<round, tried, registry>>,
           entries' \subseteq Attempts
    PROVE  IInv'
<1>1. RegistryInv' /\ RegistryOK'
  BY RegistryKept DEF IInv
<1>2. TypeOK'
  BY <1>1 DEF IInv, TypeOK, EndDispatch, NoNotice, Severities
<1> QED BY <1>1, <1>2 DEF IInv, EndDispatch, DispatchOK, OneDocumentPerNotice, registry

LEMMA DispatchKeeps ==
    ASSUME IInv, NEW a \in Alerts, NEW pct \in Percents, Dispatch(a, pct)
    PROVE  IInv'
<1> DEFINE severity == NotifySeverity(pct)
<1>1. severity \in Severities
  BY SeverityOfPercent
<1> HIDE DEF severity
<1>2. /\ UNCHANGED <<current, tried, registry>>
      /\ round' = round + 1 /\ round' \in 1..MaxDispatches /\ round \in Nat
  BY DEF Dispatch, IInv, TypeOK
<1>3. RegistryInv' /\ RegistryOK'
  BY <1>2, RegistryKept DEF IInv
<1>4. PICK doc \in {configs[OwnerOf[a]]} \cup {Absent} :
        IF doc = Absent THEN UNCHANGED <<stage, notice, todo, entries>>
        ELSE IF MatchingChannels(severity, doc.settings.rules) = {}
             THEN LogNone(a, severity) /\ UNCHANGED <<stage, notice, todo>>
             ELSE /\ stage' = "send"
                  /\ todo' = MatchingChannels(severity, doc.settings.rules)
                  /\ notice' = [alert |-> a, config |-> doc, severity |-> severity]
                  /\ UNCHANGED entries
  BY DEF Dispatch, severity
<1>5. /\ OneDocumentPerNotice'
      /\ \A x \in tried' : x.round <= round' /\ x.round # round'
  <2>1. \A x \in tried : x.round \in Nat /\ x.round <= round
    BY DEF IInv, TypeOK, Attempts
  <2> QED BY <1>2, <2>1 DEF IInv, OneDocumentPerNotice, registry
<1>6. stage = "idle"
  BY DEF Dispatch
<1>7. CASE \/ doc = Absent
           \/ /\ doc # Absent
              /\ MatchingChannels(severity, doc.settings.rules) = {}
  <2>1. UNCHANGED <<stage, notice, todo>>
    BY <1>4, <1>7
  <2>2. entries' \subseteq Attempts
    <3>1. [round |-> round + 1, alert |-> a, channel |-> "none",
           severity |-> severity, success |-> TRUE] \in Attempts
      BY <1>1, <1>2 DEF Attempts
    <3>2. CASE doc = Absent
      BY <1>4, <3>2 DEF IInv, TypeOK
    <3>3. CASE doc # Absent
      <4>1. LogNone(a, severity)
        BY <1>4, <1>7, <3>3
      <4> QED BY <3>1, <4>1 DEF IInv, TypeOK, LogNone
    <3> QED BY <3>2, <3>3
  <2>3. TypeOK'
    BY <1>2, <1>3, <2>1, <2>2 DEF IInv, TypeOK
  <2> QED BY <1>2, <1>3, <1>5, <1>6, <2>1, <2>3 DEF IInv, DispatchOK
<1>8. CASE doc # Absent /\ MatchingChannels(severity, doc.settings.rules) # {}
  <2>1. doc \in Configs /\ doc \in had[OwnerOf[a]]
    BY <1>4, <1>8 DEF IInv, RegistryInv, RegistryOK
  <2>2. doc.settings.rules \subseteq Rules
    BY <2>1 DEF Configs, SettingsDocs
  <2>3. MatchingChannels(severity, doc.settings.rules) \subseteq Channels
    BY <1>1, <2>2, MatchingIsAskedFor
  <2>4. /\ stage' = "send"
        /\ todo' = MatchingChannels(severity, doc.settings.rules)
        /\ notice' = [alert |-> a, config |-> doc, severity |-> severity]
        /\ UNCHANGED entries
    BY <1>4, <1>8
  <2>5. TypeOK'
    BY <1>1, <1>2, <1>3, <2>1, <2>3, <2>4 DEF IInv, TypeOK
  <2>6. DispatchOK'
    BY <1>2, <1>5, <2>1, <2>4 DEF DispatchOK, registry
  <2> QED BY <1>3, <1>5, <2>4, <2>5, <2>6 DEF IInv
<1> QED BY <1>7, <1>8

LEMMA SendKeeps ==
    ASSUME IInv, NEW channel \in Channels, Send(channel)
    PROVE  IInv'
<1>1. CASE Destination(channel) = "malformed"
  BY <1>1, EndKeeps DEF Send, IInv, TypeOK
<1>2. CASE Destination(channel) # "malformed"
  <2> DEFINE rules == notice.config.settings.rules
  <2>1. PICK success \in BOOLEAN :
          /\ current' = Attempt(channel, success)
          /\ tried' = tried \cup {Attempt(channel, success)}
    <3>1. PICK o \in IF HasDestination(channel, Destination(channel))
                     THEN Outcomes("channel")
                     ELSE {[taken |-> FALSE, success |-> FALSE]} :
            /\ current' = Attempt(channel, o.success)
            /\ tried' = tried \cup {Attempt(channel, o.success)}
      BY <1>2 DEF Send
    <3>2. CASE HasDestination(channel, Destination(channel))
      BY <3>1, <3>2, OutcomeTypes
    <3>3. CASE ~HasDestination(channel, Destination(channel))
      <4>1. o = [taken |-> FALSE, success |-> FALSE]
        BY <3>1, <3>3
      <4>2. o.success = FALSE
        BY <4>1, Zenon
      <4> QED BY <3>1, <4>2, Zenon
    <3> QED BY <3>2, <3>3
  <2>2. /\ todo' = todo \ {channel} /\ stage' = "log"
        /\ UNCHANGED <<notice, round, entries, registry>>
    BY <1>2 DEF Send
  <2>3. stage = "send" /\ channel \in todo
    BY DEF Send
  <2>4. notice.alert \in Alerts /\ notice.severity \in Severities
        /\ notice.config \in had[OwnerOf[notice.alert]]
        /\ round \in 0..MaxDispatches
    BY <2>3 DEF IInv, TypeOK, DispatchOK
  <2>5. notice.config \in Configs
    BY <2>4 DEF IInv, RegistryInv, RegistryOK
  <2>6. rules \subseteq Rules
    BY <2>5 DEF Configs, SettingsDocs
  <2>7. \A x \in tried' :
          \/ x \in tried
          \/ /\ x.round = round /\ x.alert = notice.alert
             /\ x.severity = notice.severity /\ x.channel = channel
    BY <2>1 DEF Attempt
  <2>8. current' \in Attempts /\ tried' \subseteq Attempts
    BY <2>1, <2>4 DEF Attempt, Attempts, IInv, TypeOK
  <2>9. RegistryInv' /\ RegistryOK'
    BY <2>2, RegistryKept DEF IInv
  <2>10. TypeOK'
    BY <2>2, <2>8, <2>9 DEF IInv, TypeOK
  <2>11. channel \in MatchingChannels(notice.severity, rules)
    BY <2>3 DEF IInv, DispatchOK
  <2>12. DispatchOK'
    BY <2>2, <2>3, <2>4, <2>7, <2>11 DEF IInv, DispatchOK, registry
  <2>13. \A x \in tried' : x.round <= round'
    BY <2>2, <2>4, <2>7 DEF IInv
  <2>14. OneDocumentPerNotice'
    <3> SUFFICES ASSUME NEW y \in tried'
                 PROVE  \E doc \in had'[OwnerOf[y.alert]] :
                          \A x \in tried' :
                            x.round = y.round =>
                              /\ x.alert = y.alert
                              /\ \E rule \in doc.settings.rules :
                                   x.channel \in rule.channels /\ AsksFor(rule, x.severity)
      BY DEF OneDocumentPerNotice
    <3>1. CASE y.round = round
      <4>1. ASSUME NEW x \in tried', x.round = round
            PROVE  /\ x.alert = notice.alert
                   /\ \E rule \in rules :
                        x.channel \in rule.channels /\ AsksFor(rule, x.severity)
        <5>1. /\ x.alert = notice.alert /\ x.severity = notice.severity
              /\ x.channel \in MatchingChannels(notice.severity, rules)
          BY <2>3, <2>7, <2>11, <4>1 DEF IInv, DispatchOK
        <5> QED BY <2>4, <2>6, <5>1, MatchingIsAskedFor
      <4>2. y.alert = notice.alert
        BY <3>1, <4>1
      <4>3. notice.config \in had'[OwnerOf[y.alert]]
        BY <2>2, <2>4, <4>2 DEF registry
      <4> QED BY <3>1, <4>1, <4>2, <4>3
    <3>2. CASE y.round # round
      <4>1. \A x \in tried' : x.round = y.round => x \in tried
        BY <2>7, <3>2
      <4>2. PICK doc \in had[OwnerOf[y.alert]] :
              \A x \in tried :
                x.round = y.round =>
                  /\ x.alert = y.alert
                  /\ \E rule \in doc.settings.rules :
                       x.channel \in rule.channels /\ AsksFor(rule, x.severity)
        BY <4>1 DEF IInv, OneDocumentPerNotice
      <4> QED BY <2>2, <4>1, <4>2 DEF registry
    <3> QED BY <3>1, <3>2
  <2> QED BY <2>2, <2>8, <2>9, <2>10, <2>12, <2>13, <2>14 DEF IInv
<1> QED BY <1>1, <1>2

LEMMA LogKeeps ==
    ASSUME IInv, LogAttempt
    PROVE  IInv'
<1>1. entries' \subseteq Attempts /\ UNCHANGED <<round, tried, registry>>
  BY DEF LogAttempt, IInv, TypeOK
<1>2. CASE todo = {}
  BY <1>1, <1>2, EndKeeps DEF LogAttempt, OnToTheNext
<1>3. CASE todo # {}
  <2>1. stage' = "send" /\ current' = NoAttempt /\ UNCHANGED <<notice, todo>>
        /\ stage = "log"
    BY <1>3 DEF LogAttempt, OnToTheNext
  <2>2. RegistryInv' /\ RegistryOK'
    BY <1>1, RegistryKept DEF IInv
  <2>3. TypeOK'
    BY <1>1, <2>1, <2>2 DEF IInv, TypeOK
  <2> QED BY <1>1, <2>1, <2>2, <2>3
          DEF IInv, DispatchOK, OneDocumentPerNotice, registry
<1> QED BY <1>2, <1>3

LEMMA NextInv == IInv /\ [Next]_vars => IInv'
<1> SUFFICES ASSUME IInv, [Next]_vars PROVE IInv'
  OBVIOUS
<1>1. CASE UNCHANGED vars
  <2>1. RegistryGoal /\ UNCHANGED dispatch
    BY <1>1, RegistryStep DEF vars, IInv
  <2> QED BY <2>1, OthersKeep
<1>2. CASE Runner
  BY <1>2, DispatchKeeps, SendKeeps, LogKeeps DEF Runner
<1>3. CASE Die
  BY <1>3, EndKeeps DEF Die, IInv, TypeOK
<1>4. CASE NextRegistry /\ UNCHANGED dispatch
  BY <1>4, RegistryStep, OthersKeep DEF IInv
<1> QED BY <1>1, <1>2, <1>3, <1>4 DEF Next

------------------------------------------------------------------------------
(* The type invariant of the registry and the dispatch together. *)
THEOREM TypeCorrect == Spec => []TypeOK
<1>1. IInv => TypeOK
  BY DEF IInv
<1> QED BY <1>1, InitInv, NextInv, PTL DEF Spec

(* Whatever happens to the documents meanwhile, the notifications of a      *)
(* dispatch follow one document of the alert's tenant (send_notifications). *)
THEOREM NoticesFollowOneDocument == Spec => []OneDocumentPerNotice
<1>1. IInv => OneDocumentPerNotice
  BY DEF IInv
<1> QED BY <1>1, InitInv, NextInv, PTL DEF Spec

(* A deactivated tenant becomes active again only by a registration         *)
(* (deactivate_tenant, set_notifications).                                  *)
THEOREM OffboardingIsKept == Spec => OffboardingSticks
<1>1. IInv /\ [Next]_vars =>
        [\A t \in Tenants : Reactivated(t) => Registering(t)]_registry
  <2> SUFFICES ASSUME IInv, [Next]_vars
               PROVE  [\A t \in Tenants : Reactivated(t) => Registering(t)]_registry
    OBVIOUS
  <2>1. CASE UNCHANGED registry
    BY <2>1
  <2>2. CASE NextRegistry
    BY <2>2, RegistryStep DEF IInv, RegistryGoal
  <2> QED BY <2>1, <2>2 DEF Next, Runner, Dispatch, Send, LogAttempt, Die, vars
<1>2. [\A t \in Tenants : Reactivated(t) => Registering(t)]_registry
      => [\A t \in Tenants :
            configs[t] # Absent /\ configs'[t] # Absent
            /\ ~configs[t].active /\ configs'[t].active
            => \E o \in Operators : step[o] = "post" /\ call[o].kind = "create"
                                     /\ call[o].tenant = t]_registry
  BY DEF Reactivated, Registering
<1> QED BY <1>1, <1>2, InitInv, NextInv, PTL DEF Spec, OffboardingSticks

\* What the rules ask for has been tried or is still to be.
NothingForgotten ==
    stage # "idle" =>
      \A channel \in MatchingChannels(notice.severity, notice.config.settings.rules) :
        \/ channel \in todo
        \/ \E x \in tried : x.round = round /\ x.channel = channel

LEMMA NothingForgottenStep == NothingForgotten /\ [Next]_vars => NothingForgotten'
<1> SUFFICES ASSUME NothingForgotten, [Next]_vars PROVE NothingForgotten'
  OBVIOUS
<1>1. ASSUME NEW a \in Alerts, NEW pct \in Percents, Dispatch(a, pct)
      PROVE  NothingForgotten'
  <2>1. stage = "idle" /\ UNCHANGED tried
    BY <1>1 DEF Dispatch
  <2>2. \/ stage' = "idle"
        \/ todo' = MatchingChannels(notice'.severity, notice'.config.settings.rules)
    BY <1>1, <2>1 DEF Dispatch
  <2> QED BY <2>2 DEF NothingForgotten, MatchingChannels, Fires
<1>2. ASSUME NEW channel \in Channels, Send(channel) PROVE NothingForgotten'
  <2>1. CASE Destination(channel) = "malformed"
    BY <1>2, <2>1 DEF Send, EndDispatch, NothingForgotten
  <2>2. CASE Destination(channel) # "malformed"
    <3>1. /\ stage = "send" /\ todo' = todo \ {channel} /\ notice' = notice /\ round' = round
          /\ \E success : tried' = tried \cup {Attempt(channel, success)}
      BY <1>2, <2>2 DEF Send
    <3>2. \A success : /\ Attempt(channel, success).round = round
                       /\ Attempt(channel, success).channel = channel
      BY DEF Attempt
    <3> QED BY <3>1, <3>2 DEF NothingForgotten, MatchingChannels, Fires
  <2> QED BY <2>1, <2>2
<1>3. CASE LogAttempt
  BY <1>3 DEF LogAttempt, OnToTheNext, EndDispatch, NothingForgotten, MatchingChannels, Fires
<1>4. CASE Die
  BY <1>4 DEF Die, EndDispatch, NothingForgotten
<1>5. CASE UNCHANGED dispatch
  BY <1>5 DEF dispatch, NothingForgotten, MatchingChannels, Fires
<1> QED BY <1>1, <1>2, <1>3, <1>4, <1>5 DEF Next, Runner, vars

(* A channel that fails, has no destination or cannot be logged does not    *)
(* keep the next from being tried, and a dispatch nobody kills tries them   *)
(* all, unless it comes to a configuration that is not an object            *)
(* (send_notifications' loop).                                              *)
THEOREM FailuresAreApart == Spec => FailuresStayApart
<1>1. Init => NothingForgotten
  BY DEF Init, NothingForgotten
<1>2. IInv /\ NothingForgotten /\ [Next]_vars
        => [Ends => AllTried \/ \E channel \in todo : Destination(channel) = "malformed"]_vars
  <2> SUFFICES ASSUME IInv, NothingForgotten, Ends
               PROVE  AllTried \/ \E channel \in todo : Destination(channel) = "malformed"
    OBVIOUS
  <2>1. CASE \E a \in Alerts, pct \in Percents : Dispatch(a, pct)
    BY <2>1 DEF Dispatch, Ends
  <2>2. ASSUME NEW channel \in Channels, Send(channel)
        PROVE  channel \in todo /\ Destination(channel) = "malformed"
    BY <2>2 DEF Send, Ends
  <2>3. CASE LogAttempt
    <3>1. stage = "log" /\ todo = {}
      BY <2>3 DEF LogAttempt, OnToTheNext, Ends
    <3>2. notice.severity \in Severities /\ notice.alert \in Alerts
            /\ notice.config \in had[OwnerOf[notice.alert]]
      BY <3>1 DEF IInv, TypeOK, DispatchOK
    <3>3. notice.config.settings.rules \subseteq Rules
      BY <3>2 DEF IInv, RegistryInv, RegistryOK, Configs, SettingsDocs
    <3>4. ASSUME NEW rule \in notice.config.settings.rules,
                 AsksFor(rule, notice.severity), NEW channel \in rule.channels
          PROVE  \E x \in tried : x.round = round /\ x.channel = channel
      <4>1. Fires(rule, notice.severity)
        BY <3>2, <3>3, <3>4 DEF Fires, AsksFor, Rank, Rules, Severities
      <4>2. channel \in MatchingChannels(notice.severity, notice.config.settings.rules)
        BY <3>4, <4>1 DEF MatchingChannels
      <4> QED BY <3>1, <4>2 DEF NothingForgotten
    <3> QED BY <3>4 DEF AllTried
  <2> QED BY <2>1, <2>2, <2>3 DEF Ends, Runner
<1> QED BY <1>1, <1>2, NothingForgottenStep, InitInv, NextInv, PTL
        DEF Spec, FailuresStayApart
==============================================================================
