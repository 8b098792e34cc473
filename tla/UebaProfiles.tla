---------------------------- MODULE UebaProfiles -----------------------------
(***************************************************************************)
(* The profile of one user, rebuilt by the nightly job and by hand         *)
(* (profile_scheduler.py --once) from a sliding window of events, and the  *)
(* login baselines that the rebuild checks itself against.                 *)
(*                                                                         *)
(* Names under which the window's events carry the user: his plain name,   *)
(* the name PAM decorates, and the longer name of somebody else that       *)
(* begins with his.  The searches of the rebuild match by prefix; the      *)
(* baselines are kept by the name as it stands in the event.               *)
(*                                                                         *)
(* An event stands for all documents of the window that look like it; of   *)
(* a count only whether it is zero is kept.  The job also rebuilds other   *)
(* users and hosts, which share nothing with this one.  Names of logins    *)
(* and baselines on record are fewer than the 1000 that the builder's two  *)
(* searches return at most: beyond those it counts and zeroes only some.   *)
(***************************************************************************)
EXTENDS UebaScoring

CONSTANTS
    Builders,           \* processes that rebuild profiles
    Events,             \* what the window may contain
    Volumes,            \* daily averages that the byte counts may come to
    EarlierBaselines,   \* names that runs before the start may have counted
    Scored,             \* the alerts compared with the profile
    MaxRebuilds,        \* bound on rebuilds begun
    MaxBaselines,       \* bound on baseline runs begun
    MaxChanges          \* bound on the changes of the window

Names == {"plain", "decorated", "longer"}

EventRecords ==
    [name: Names, groups: SUBSET {"authentication_success", "sudo", "firewall"},
     hour: Hours, ip: Ips \cup {NoIp}, command: Commands, bytes: BOOLEAN]

ASSUME ProfilesAssumption ==
    /\ Events \subseteq EventRecords
    /\ Volumes \subseteq Nat /\ Scored \subseteq Alerts
    /\ EarlierBaselines \subseteq SUBSET Names
    /\ MaxRebuilds \in Nat /\ MaxBaselines \in Nat /\ MaxChanges \in Nat

VARIABLES
    window, changes,    \* the events of the last days, and how often they changed
    profiles,           \* index siem-ueba-profiles: documents of the user
    pc, draft,          \* per builder: the next call, the profile in the making
    clock,              \* time, advanced by every rebuild begun
    baselines,          \* index siem-baselines: "none", "active" or "zero"
    run                 \* the baseline builder

vars == <<window, changes, profiles, pc, draft, clock, baselines, run>>

Calls == {"idle", "logins", "fallback", "commands", "volume",
          "baseline", "write"}

Runs == [pc: {"idle", "write"}, begun: 0..MaxBaselines, counted: SUBSET Names,
         todo: SUBSET Names, stale: SUBSET Names, listed: BOOLEAN]

\* A profile document: computed_at, whether the rebuild failed, the habits, and
\* (history, read by no action) when the rebuild began and the window its login
\* search saw.
Documents ==
    [computedAt: Nat, error: BOOLEAN, habits: Habits, began: Nat,
     seen: SUBSET Events]

TypeOK ==
    /\ window \subseteq Events /\ changes \in 0..MaxChanges
    /\ profiles \subseteq Documents
    /\ pc \in [Builders -> Calls]
    /\ draft \in [Builders -> Documents]
    /\ clock \in 0..MaxRebuilds
    /\ baselines \in [Names -> {"none", "active", "zero"}]
    /\ run \in Runs

------------------------------------------------------------------------------
(* Reading the index *)

\* get_ueba_profile: the document with the latest last_updated.
LatestProfile ==
    IF profiles = {} THEN NoProfile
    ELSE (CHOOSE p \in profiles : \A q \in profiles : q.computedAt <= p.computedAt)

\* Mutant: logins are matched by the plain name alone.
LoginsByPlainName ==
    {e \in window : e.name = "plain" /\ "authentication_success" \in e.groups}

Logins == {e \in window : "authentication_success" \in e.groups}

IpsOf(events) == {e.ip : e \in events} \ {NoIp}

\* What a terms aggregation of size n may return of a set of values: all of
\* them, or the n most frequent.
TopOf(values, n) ==
    IF Cardinality(values) <= n THEN {values}
    ELSE {s \in SUBSET values : Cardinality(s) = n}

------------------------------------------------------------------------------
(* Rebuilding a profile *)

NoHabits ==
    [hours |-> {}, ips |-> {}, usual |-> {}, ipCoverage |-> "unknown",
     commands |-> {}, volume |-> 0, volumeCoverage |-> "unknown",
     baseline |-> "unset", risk |-> 0]

EmptyDraft(time) ==
    [computedAt |-> time, error |-> FALSE, habits |-> NoHabits, began |-> time,
     seen |-> {}]

\* Builder b goes on to a call with the draft d.
Continue(b, call, d) ==
    /\ pc' = [pc EXCEPT ![b] = call]
    /\ draft' = [draft EXCEPT ![b] = d]

Begin(b) ==
    /\ pc[b] = "idle" /\ clock < MaxRebuilds
    /\ clock' = clock + 1
    /\ Continue(b, "logins", EmptyDraft(clock + 1))
    /\ UNCHANGED <<window, changes, profiles, baselines, run>>

WithLogins(d, ips, usual) ==
    [d EXCEPT
       !.seen = window,
       !.habits = [@ EXCEPT
         !.hours = {e.hour : e \in Logins}, !.ips = ips, !.usual = usual,
         !.ipCoverage =
            IF ips # {} THEN "ok"
            ELSE IF Logins # {} THEN "no_srcip_on_matched_login_events"
            ELSE "no_logins_matched"]]

LoginSearch(b) ==
    /\ pc[b] = "logins"
    /\ \E ips \in TopOf(IpsOf(Logins), IpBuckets) : \E usual \in TopOf(ips, TopIps) :
         Continue(b, IF ips = {} THEN "fallback" ELSE "commands",
                  WithLogins(draft[b], ips, usual))
    /\ UNCHANGED <<window, changes, profiles, clock, baselines, run>>

\* Mutant: the fallback marks the addresses usable before it has found any.
WithFallbackAlwaysOk(d, ips, usual) ==
    [d EXCEPT !.habits = [@ EXCEPT
       !.ips = ips, !.usual = usual, !.ipCoverage = "ok_via_other_rule_types"]]

\* Mutant: a status the scorer does not know.
WithFallbackMisspelt(d, ips, usual) ==
    [d EXCEPT !.habits = [@ EXCEPT
       !.ips = ips, !.usual = usual, !.ipCoverage = "ok_via_other_rules"]]

WithFallback(d, ips, usual) ==
    [d EXCEPT !.habits = [@ EXCEPT
       !.ips = ips, !.usual = usual,
       !.ipCoverage =
          IF ips # {} THEN "ok_via_other_rule_types"
          ELSE IF d.habits.ipCoverage = "no_srcip_on_matched_login_events"
               THEN "no_srcip_anywhere_for_user" ELSE d.habits.ipCoverage]]

\* The search over every rule type, made when the logins carry no address.
Fallback(b) ==
    /\ pc[b] = "fallback"
    /\ \E ips \in TopOf(IpsOf(window), IpBuckets) : \E usual \in TopOf(ips, TopIps) :
         Continue(b, "commands", WithFallback(draft[b], ips, usual))
    /\ UNCHANGED <<window, changes, profiles, clock, baselines, run>>

SudoCommands == {e.command : e \in {f \in window : "sudo" \in f.groups}}

CommandSearch(b) ==
    /\ pc[b] = "commands"
    /\ \E commands \in TopOf(SudoCommands, CommandBuckets) :
         Continue(b, "volume", [draft[b] EXCEPT !.habits.commands = commands])
    /\ UNCHANGED <<window, changes, profiles, clock, baselines, run>>

Transfers == {e \in window : "firewall" \in e.groups /\ e.bytes}

WithVolume(d, volume) ==
    [d EXCEPT !.habits = [@ EXCEPT
       !.volume = volume,
       !.volumeCoverage =
          IF Transfers = {} THEN "no_bytes_out_field_seen" ELSE "ok"]]

VolumeSearch(b) ==
    /\ pc[b] = "volume"
    /\ \E volume \in IF Transfers = {} THEN {0} ELSE Volumes :
         Continue(b, "baseline", WithVolume(draft[b], volume))
    /\ UNCHANGED <<window, changes, profiles, clock, baselines, run>>

Assessed(habits) == [habits EXCEPT !.risk = UserRisk(habits)]

\* The systems accessed, which no scorer reads but whose search may fail, and the
\* baseline: get_baseline returns None on any failure, and zero is a baseline.
BaselineCheck(b) ==
    /\ pc[b] = "baseline"
    /\ \E status \in {"no_baseline_yet"}
                       \cup (IF baselines["plain"] = "none" THEN {} ELSE {"matched"}) :
         Continue(b, "write", [draft[b] EXCEPT
           !.habits = Assessed([draft[b].habits EXCEPT !.baseline = status])])
    /\ UNCHANGED <<window, changes, profiles, clock, baselines, run>>

\* A search raises: the profile is written with what has been found so far.
SearchFails(b) ==
    /\ pc[b] \in {"logins", "fallback", "commands", "volume", "baseline"}
    /\ Continue(b, "write", [draft[b] EXCEPT !.error = TRUE])
    /\ UNCHANGED <<window, changes, profiles, clock, baselines, run>>

\* Mutant: the document is stamped when it is written.
WriteStampedLate(b) ==
    /\ pc[b] = "write"
    /\ LET last == IF profiles = {} THEN 0 ELSE LatestProfile.computedAt
       IN  profiles' = profiles \cup {[draft[b] EXCEPT !.computedAt = last + 1]}
    /\ Continue(b, "idle", EmptyDraft(0))
    /\ UNCHANGED <<window, changes, clock, baselines, run>>

\* write_ueba_profile_to_es adds a document; the older ones stay.
Write(b) ==
    /\ pc[b] = "write"
    /\ profiles' = profiles \cup {draft[b]}
    /\ Continue(b, "idle", EmptyDraft(0))
    /\ UNCHANGED <<window, changes, clock, baselines, run>>

\* The write raises, or the process is killed.
Abandon(b) ==
    /\ pc[b] # "idle"
    /\ Continue(b, "idle", EmptyDraft(0))
    /\ UNCHANGED <<window, changes, profiles, clock, baselines, run>>

------------------------------------------------------------------------------
(* Baselines *)

Resting(begun) == [pc |-> "idle", begun |-> begun, counted |-> {}, todo |-> {},
                   stale |-> {}, listed |-> FALSE]

Known == {n \in Names : baselines[n] # "none"}

\* Mutant: only the names of the current window are written.
CountOnlyCurrent ==
    /\ run.pc = "idle" /\ run.begun < MaxBaselines
    /\ run' = [pc |-> "write", begun |-> run.begun + 1, listed |-> TRUE,
               counted |-> {e.name : e \in Logins},
               todo |-> {e.name : e \in Logins}, stale |-> {}]
    /\ UNCHANGED <<window, changes, profiles, pc, draft, clock, baselines>>

\* Count the logins of the window by name, then list the names with a baseline;
\* a failed listing counts as none.  Nobody else writes baselines in between.
Count ==
    /\ run.pc = "idle" /\ run.begun < MaxBaselines
    /\ \E listed \in BOOLEAN :
         LET counted == {e.name : e \in Logins}
         IN  run' = [pc |-> "write", begun |-> run.begun + 1, listed |-> listed,
                     counted |-> counted, todo |-> counted,
                     stale |-> IF listed THEN Known \ counted ELSE {}]
    /\ UNCHANGED <<window, changes, profiles, pc, draft, clock, baselines>>

WriteBaseline ==
    /\ run.pc = "write"
    /\ IF run.todo # {}
       THEN \E n \in run.todo :
              /\ baselines' = [baselines EXCEPT ![n] = "active"]
              /\ run' = [run EXCEPT !.todo = @ \ {n}]
       ELSE \E n \in run.stale :
              /\ baselines' = [baselines EXCEPT ![n] = "zero"]
              /\ run' = [run EXCEPT !.stale = @ \ {n}]
    /\ UNCHANGED <<window, changes, profiles, pc, draft, clock>>

\* The run is over, or a call of it raises and ends the process.
EndRun ==
    /\ run.pc # "idle"
    /\ run' = Resting(run.begun)
    /\ UNCHANGED <<window, changes, profiles, pc, draft, clock, baselines>>

------------------------------------------------------------------------------
(* Events arrive and leave the window: external *)

Observe(e) == e \notin window /\ window' = window \cup {e}

Expire(e) == e \in window /\ window' = window \ {e}

Change(e) ==
    /\ changes < MaxChanges /\ changes' = changes + 1
    /\ Observe(e) \/ Expire(e)
    /\ UNCHANGED <<profiles, pc, draft, clock, baselines, run>>

Init ==
    /\ window \in SUBSET Events /\ changes = 0
    /\ profiles = {} /\ clock = 0
    /\ pc = [b \in Builders |-> "idle"]
    /\ draft = [b \in Builders |-> EmptyDraft(0)]
    /\ \E old \in EarlierBaselines :
         baselines = [n \in Names |-> IF n \in old THEN "active" ELSE "none"]
    /\ run = Resting(0)

Rebuild(b) ==
    \/ Begin(b) \/ LoginSearch(b) \/ Fallback(b) \/ CommandSearch(b)
    \/ VolumeSearch(b) \/ BaselineCheck(b)
    \/ SearchFails(b) \/ Write(b) \/ Abandon(b)

BaselineRun == Count \/ WriteBaseline \/ EndRun

Next ==
    \/ \E b \in Builders : Rebuild(b)
    \/ BaselineRun
    \/ \E e \in Events : Change(e)

Spec == Init /\ [][Next]_vars

------------------------------------------------------------------------------
(* Properties *)

(* What a rebuild did not find out, because nothing was there or because a  *)
(* search failed, counts for nothing against an alert: the builder's        *)
(* coverage notes and the scorer's guards fit together.                     *)
SilenceIsNoEvidence ==
    profiles # {} =>
        LET p == LatestProfile.habits IN
        /\ \A a \in Scored :
             /\ p.hours = {} => LoginTimeDeviation(a, p) = 0
             /\ p.ips = {} => SourceIpNovelty(a, p) = 0
             /\ p.commands = {} => CommandRarity(a, p) = 0
             /\ p.volume = 0 => VolumeSpike(a, p) = 0
        /\ LatestProfile.error => PeerDeviation(p) = 0

(* A login at an hour at which the user was seen logging in, under either   *)
(* of his names, is not unusual, nor is one from an address of his, as long *)
(* as the window's logins come from no more addresses than a profile lists. *)
HabitsAreNotAnomalies ==
    profiles # {} =>
        LET p == LatestProfile.habits
            logins == {e \in LatestProfile.seen :
                         "authentication_success" \in e.groups}
            own == {e \in logins : e.name \in {"plain", "decorated"}}
        IN  \A a \in Scored :
              /\ (\E e \in own : e.hour = a.hour) => LoginTimeDeviation(a, p) = 0
              /\ a.ip \in IpsOf(own) /\ Cardinality(IpsOf(logins)) <= IpBuckets
                   => SourceIpNovelty(a, p) <= 5
              /\ a.ip \in IpsOf(own) /\ Cardinality(IpsOf(logins)) <= TopIps
                   => SourceIpNovelty(a, p) = 0

(* However rebuilds overlap, a slow one never supersedes a profile whose    *)
(* rebuild began after it.                                                  *)
LaterRebuildPrevails ==
    [][profiles # {} => LatestProfile'.began >= LatestProfile.began]_vars

(* A baseline run that got all its answers leaves a count for exactly the   *)
(* names that logged in: nobody keeps one from a window long past.          *)
BaselinesAreCurrent ==
    [][(/\ run.pc = "write" /\ run'.pc = "idle"
        /\ run.listed /\ run.todo = {} /\ run.stale = {})
         => \A n \in Names : baselines[n] = "active" <=> n \in run.counted]_vars
==============================================================================
