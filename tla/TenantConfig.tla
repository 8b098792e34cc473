----------------------------- MODULE TenantConfig -----------------------------
(***************************************************************************)
(* The tenant registry: one configuration document per tenant, registered, *)
(* deactivated and given notification settings by operators whose calls    *)
(* overlap.  Deactivation and the settings endpoint read a document,       *)
(* change the copy and write all of it back.  A registration leaves the    *)
(* settings out and the endpoint raises before it stores them, so settings *)
(* get into a document only by hand, in the index.                         *)
(*                                                                         *)
(* Covered: calls overlapping between their read and their write, a read   *)
(* that fails (and is taken for a missing tenant), a write whose reply is  *)
(* lost, and an exception raised on the way.                               *)
(*                                                                         *)
(* Differences from the code: of a document only the active flag, the      *)
(* notification rules and the channel destinations are kept; requests are  *)
(* well-formed, as the checks at the top of each call see to.              *)
(***************************************************************************)
EXTENDS Integers, FiniteSets

CONSTANTS
    Tenants,
    Absent,      \* no document
    Stored,      \* documents in tenant_config at the start
    Operators,
    Settings,    \* notification settings operators may post or edit in
    Unreliable,  \* the calls that may fail
    MaxCalls     \* bound on operators' calls and edits

Channels == {"slack", "teams", "email", "custom_webhook", "pagerduty_webhook"}
Severities == {"low", "medium", "high", "critical"}
Rules == [severity: Severities, exact: BOOLEAN, channels: SUBSET Channels]

\* What channel_config holds for a channel: a destination, none, or no object.
Destinations == [Channels -> {"set", "missing", "malformed"}]

SettingsDocs == [rules: SUBSET Rules, destinations: Destinations]
Configs == [active: BOOLEAN, settings: SettingsDocs]

NoSettings == [rules |-> {}, destinations |-> [c \in Channels |-> "missing"]]

ASSUME StoredAssumption == Stored \in [Tenants -> Configs \cup {Absent}]
ASSUME AbsentAssumption == Absent \notin Configs
ASSUME SettingsAssumption == Settings \subseteq SettingsDocs
ASSUME CallAssumption == Unreliable \subseteq {"get", "post", "channel", "log"}
ASSUME BoundAssumption == MaxCalls \in Nat

Kinds == {"create", "deactivate", "set"}

VARIABLES
    configs,  \* tenant_config
    indices,  \* tenant indices created with their mapping
    step,     \* next step of each operator's call
    call,     \* the call: kind, tenant, settings, document read
    calls,    \* calls so far
    had       \* history: documents each tenant has had

registry == <<configs, indices, step, call, calls, had>>

Requests == [kind: Kinds, tenant: Tenants, settings: SettingsDocs,
             seen: Configs \cup {Absent}]

InitRegistry ==
    /\ configs = Stored
    /\ indices = {}
    /\ step = [o \in Operators |-> "idle"]
    /\ call = [o \in Operators |-> Absent]
    /\ calls = 0
    /\ had = [t \in Tenants |-> {Stored[t]} \ {Absent}]

------------------------------------------------------------------------------
(* create_tenant, deactivate_tenant, set_notifications *)

\* Mutant: tenant_config is one of the families.
FamiliesWithConfig == {"alerts", "hunts", "responses", "config"}

Families == {"alerts", "hunts", "responses"}

Begin(o, kind, t, settings) ==
    /\ step[o] = "idle" /\ calls < MaxCalls
    /\ calls' = calls + 1
    /\ call' = [call EXCEPT ![o] = [kind |-> kind, tenant |-> t,
                                    settings |-> settings, seen |-> Absent]]
    /\ step' = [step EXCEPT ![o] = IF kind = "create" THEN "post" ELSE "get"]
    /\ UNCHANGED <<configs, indices, had>>

Finish(o) ==
    /\ step' = [step EXCEPT ![o] = "idle"]
    /\ call' = [call EXCEPT ![o] = Absent]

\* A document is stored; or the reply is lost; or the write is.
Outcomes(name) ==
    {[taken |-> TRUE, success |-> TRUE]} \cup
    (IF name \in Unreliable
     THEN {[taken |-> TRUE, success |-> FALSE], [taken |-> FALSE, success |-> FALSE]}
     ELSE {})

Store(t, config, taken) ==
    /\ configs' = IF taken THEN [configs EXCEPT ![t] = config] ELSE configs
    /\ had' = IF taken THEN [had EXCEPT ![t] = @ \cup {config}] ELSE had

(* get_tenant_config: a failed read is a missing tenant. *)
Get(o) ==
    /\ step[o] = "get"
    /\ \E doc \in {configs[call[o].tenant]} \cup
                  (IF "get" \in Unreliable THEN {Absent} ELSE {}) :
         IF doc = Absent THEN Finish(o)
         ELSE /\ call' = [call EXCEPT ![o].seen = doc]
              /\ step' = [step EXCEPT ![o] = "post"]
    /\ UNCHANGED <<configs, indices, calls, had>>

(* A registration overwrites whatever document the tenant had. *)
PostNew(o) ==
    /\ step[o] = "post" /\ call[o].kind = "create"
    /\ \E outcome \in Outcomes("post") :
         /\ Store(call[o].tenant, [active |-> TRUE, settings |-> NoSettings],
                  outcome.taken)
         /\ IF outcome.success
            THEN step' = [step EXCEPT ![o] = "seed"] /\ UNCHANGED call
            ELSE Finish(o)
    /\ UNCHANGED <<indices, calls>>

(* The indices of the families; a PUT that fails is reported, not handled. *)
Seed(o) ==
    /\ step[o] = "seed"
    /\ \E created \in IF "post" \in Unreliable THEN SUBSET Families ELSE {Families} :
         indices' = indices \cup ({call[o].tenant} \X created)
    /\ Finish(o)
    /\ UNCHANGED <<configs, calls, had>>

PostInactive(o) ==
    /\ step[o] = "post" /\ call[o].kind = "deactivate"
    /\ \E outcome \in Outcomes("post") :
         Store(call[o].tenant, [call[o].seen EXCEPT !.active = FALSE],
               outcome.taken)
    /\ Finish(o)
    /\ UNCHANGED <<indices, calls>>

(* The settings endpoint first writes the document to the family "config",  *)
(* which raises unless there is such a family, then puts it back.           *)
PostSettings(o) ==
    /\ step[o] = "post" /\ call[o].kind = "set"
    /\ IF "config" \in Families
       THEN /\ \E outcome \in Outcomes("post") :
                 Store(call[o].tenant,
                       [call[o].seen EXCEPT !.settings = call[o].settings],
                       outcome.taken)
            /\ Finish(o)
       ELSE Finish(o) /\ UNCHANGED <<configs, had>>
    /\ UNCHANGED <<indices, calls>>

(* An administrator edits a tenant's settings in tenant_config itself. *)
Edit(t, settings) ==
    /\ calls < MaxCalls
    /\ configs[t] # Absent
    /\ calls' = calls + 1
    /\ Store(t, [configs[t] EXCEPT !.settings = settings], TRUE)
    /\ UNCHANGED <<indices, step, call>>

CallStep ==
    \E o \in Operators :
      \/ \E t \in Tenants :
           \/ \E kind \in {"create", "deactivate"} : Begin(o, kind, t, NoSettings)
           \/ \E s \in Settings : Begin(o, "set", t, s)
      \/ Get(o) \/ PostNew(o) \/ Seed(o) \/ PostInactive(o) \/ PostSettings(o)

NextRegistry == CallStep \/ \E t \in Tenants, s \in Settings : Edit(t, s)

------------------------------------------------------------------------------
(* Properties *)

RegistryOK ==
    /\ configs \in [Tenants -> Configs \cup {Absent}]
    /\ indices \subseteq Tenants \X Families
    /\ step \in [Operators -> {"idle", "get", "post", "seed"}]
    /\ call \in [Operators -> Requests \cup {Absent}]
    /\ calls \in 0..MaxCalls
    /\ had \in [Tenants -> SUBSET Configs]

(* A deactivated tenant becomes active again only by being registered: no   *)
(* call that read the document before it was deactivated writes it back.    *)
OffboardingSticks ==
    [][\A t \in Tenants :
         configs[t] # Absent /\ configs'[t] # Absent
         /\ ~configs[t].active /\ configs'[t].active
         => \E o \in Operators : step[o] = "post" /\ call[o].kind = "create"
                                  /\ call[o].tenant = t]_registry

(* "validates shape, merges into the tenant's tenant_config doc"             *)
(* (notification_config_api): a settings call that found the tenant ends     *)
(* with the settings in the document.                                        *)
SettingsAreStored ==
    [][\A o \in Operators :
         step[o] = "post" /\ call[o].kind = "set" /\ step'[o] = "idle"
           => configs'[call[o].tenant].settings = call[o].settings]_registry
==============================================================================
