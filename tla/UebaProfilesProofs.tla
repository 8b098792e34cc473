-------------------------- MODULE UebaProfilesProofs --------------------------
(***************************************************************************)
(* The anomaly score is a percentage, and the profile index: types, that   *)
(* what a rebuild did not find out counts for nothing, that a later        *)
(* rebuild prevails, that baselines are those of the latest count, and     *)
(* that a user's own habits are not anomalies.                             *)
(***************************************************************************)
EXTENDS UebaProfiles, FiniteSetTheorems, TLAPS

------------------------------------------------------------------------------
(* Scores *)

LEMMA RiskBound ==
    ASSUME NEW p PROVE UserRisk(p) \in 0..65
BY DEF UserRisk, When

(* Whatever the alert and whatever profile was found, or none: the five     *)
(* dimensions of score_anomaly come to a percentage, so its clamps never    *)
(* act.                                                                     *)
THEOREM AnomalyInRange ==
    ASSUME NEW a \in Alerts, NEW p \in Habits \cup {NoProfile}
    PROVE  AnomalyScore(a, p) \in 0..100
<1>1. LoginTimeDeviation(a, p) \in 0..20
  BY DEF LoginTimeDeviation, DimensionWeight
<1>2. SourceIpNovelty(a, p) \in 0..20
  BY DEF SourceIpNovelty, DimensionWeight
<1>3. CommandRarity(a, p) \in 0..20
  BY DEF CommandRarity, DimensionWeight, When
<1>4. PeerDeviation(p) \in 0..20
  BY DEF PeerDeviation, DimensionWeight, When
<1>5. VolumeSpike(a, p) \in 0..20
  BY DEF VolumeSpike, DimensionWeight, When
<1> QED BY <1>1, <1>2, <1>3, <1>4, <1>5 DEF AnomalyScore

(* Without a profile, because there is none or because the search failed,   *)
(* the score comes to at most 40, and to 40 as soon as the alert names an   *)
(* address and a command: novelty and rarity are then taken for granted.    *)
THEOREM NoProfileScore ==
    ASSUME NEW a \in Alerts
    PROVE  /\ AnomalyScore(a, NoProfile) \in {0, 20, 40}
           /\ AnomalyScore(a, NoProfile) = 40
                <=> a.ip # NoIp /\ a.command # NoCommand
BY DEF AnomalyScore, LoginTimeDeviation, SourceIpNovelty, CommandRarity,
       PeerDeviation, VolumeSpike, DimensionWeight, When

------------------------------------------------------------------------------
(* The inductive invariant *)

\* A document's coverage note tells whether it has addresses; a failed rebuild
\* has no risk score; the stamp is the time at which the rebuild began.
Coherent(d) ==
    /\ d.habits.ips = {}
         => d.habits.ipCoverage \notin {"ok", "ok_via_other_rule_types"}
    /\ d.error => d.habits.risk = 0
    /\ d.computedAt = d.began

Searching == {"logins", "fallback", "commands", "volume", "baseline"}

\* Until the last search has answered there is no error and no risk score.
DraftsOK ==
    \A b \in Builders :
        /\ Coherent(draft[b])
        /\ pc[b] \in Searching => ~draft[b].error /\ draft[b].habits.risk = 0
        /\ pc[b] = "fallback" => draft[b].habits.ips = {}

ProfilesOK ==
    /\ \A p \in profiles : Coherent(p)
    /\ profiles # {} =>
         \E p \in profiles : \A q \in profiles : q.computedAt <= p.computedAt

IInv == TypeOK /\ DraftsOK /\ ProfilesOK

------------------------------------------------------------------------------
(* Types *)

LEMMA TopOfSubsets ==
    ASSUME NEW values, NEW n, NEW s \in TopOf(values, n)
    PROVE  s \subseteq values
BY DEF TopOf

LEMMA WindowTypes ==
    ASSUME window \subseteq Events
    PROVE  /\ Logins \subseteq Events
           /\ IpsOf(Logins) \subseteq Ips /\ IpsOf(window) \subseteq Ips
           /\ {e.hour : e \in Logins} \subseteq Hours
           /\ SudoCommands \subseteq Commands
BY ProfilesAssumption DEF Logins, IpsOf, EventRecords, SudoCommands

LEMMA EmptyDraftType ==
    ASSUME NEW time \in Nat
    PROVE  EmptyDraft(time) \in Documents /\ Coherent(EmptyDraft(time))
BY DEF EmptyDraft, NoHabits, Documents, Habits, Hours, IpCoverages, VolumeCoverages,
       BaselineStatuses, Coherent

\* What each answer makes of a draft is a document, and a coherent one.
LEMMA WithLoginsOK ==
    ASSUME window \subseteq Events, NEW d \in Documents, Coherent(d),
           NEW ips \in SUBSET Ips, NEW usual \in SUBSET Ips
    PROVE  /\ WithLogins(d, ips, usual) \in Documents
           /\ Coherent(WithLogins(d, ips, usual))
           /\ WithLogins(d, ips, usual).error = d.error
           /\ WithLogins(d, ips, usual).habits.risk = d.habits.risk
           /\ WithLogins(d, ips, usual).habits.ips = ips
BY WindowTypes
   DEF WithLogins, Documents, Habits, IpCoverages, Coherent

LEMMA WithFallbackOK ==
    ASSUME NEW d \in Documents, Coherent(d), d.habits.ips = {},
           NEW ips \in SUBSET Ips, NEW usual \in SUBSET Ips
    PROVE  /\ WithFallback(d, ips, usual) \in Documents
           /\ Coherent(WithFallback(d, ips, usual))
           /\ WithFallback(d, ips, usual).error = d.error
           /\ WithFallback(d, ips, usual).habits.risk = d.habits.risk
<1> DEFINE coverage == IF ips # {} THEN "ok_via_other_rule_types"
                       ELSE IF d.habits.ipCoverage = "no_srcip_on_matched_login_events"
                       THEN "no_srcip_anywhere_for_user" ELSE d.habits.ipCoverage
           h == [d.habits EXCEPT !.ips = ips, !.usual = usual, !.ipCoverage = coverage]
<1>1. d.habits \in Habits /\ d.habits.ipCoverage \in IpCoverages
  BY DEF Documents, Habits
<1>2. WithFallback(d, ips, usual) = [d EXCEPT !.habits = h]
  BY DEF WithFallback
<1>3. /\ coverage \in IpCoverages
      /\ ips = {} => coverage \notin {"ok", "ok_via_other_rule_types"}
  BY <1>1 DEF IpCoverages, Coherent
<1>4. h \in Habits /\ h.ips = ips /\ h.ipCoverage = coverage
        /\ h.risk = d.habits.risk
  <2> HIDE DEF coverage
  <2> QED BY <1>1, <1>3 DEF Habits
<1>5. /\ [d EXCEPT !.habits = h] \in Documents
      /\ [d EXCEPT !.habits = h].habits = h
      /\ [d EXCEPT !.habits = h].error = d.error
      /\ [d EXCEPT !.habits = h].computedAt = d.computedAt
      /\ [d EXCEPT !.habits = h].began = d.began
  <2> HIDE DEF h
  <2> QED BY <1>4 DEF Documents
<1> HIDE DEF coverage, h
<1> QED BY <1>2, <1>3, <1>4, <1>5 DEF Coherent

LEMMA WithVolumeOK ==
    ASSUME NEW d \in Documents, Coherent(d), NEW volume \in Nat
    PROVE  /\ WithVolume(d, volume) \in Documents
           /\ Coherent(WithVolume(d, volume))
           /\ WithVolume(d, volume).error = d.error
           /\ WithVolume(d, volume).habits.risk = d.habits.risk
BY DEF WithVolume, Documents, Habits, VolumeCoverages, Coherent

\* A builder that goes on with a sound draft keeps the types and the drafts sound.
LEMMA ContinueOK ==
    ASSUME TypeOK, DraftsOK, NEW b \in Builders, NEW call \in Calls,
           NEW d \in Documents, Continue(b, call, d), Coherent(d),
           call \in Searching => ~d.error /\ d.habits.risk = 0,
           call = "fallback" => d.habits.ips = {}
    PROVE  /\ pc' \in [Builders -> Calls] /\ draft' \in [Builders -> Documents]
           /\ DraftsOK'
<1>1. pc' \in [Builders -> Calls] /\ draft' \in [Builders -> Documents]
  BY DEF TypeOK, Continue
<1>2. DraftsOK'
  <2> SUFFICES ASSUME NEW c \in Builders
               PROVE  /\ Coherent(draft'[c])
                      /\ pc'[c] \in Searching
                           => ~draft'[c].error /\ draft'[c].habits.risk = 0
                      /\ pc'[c] = "fallback" => draft'[c].habits.ips = {}
    BY DEF DraftsOK, Coherent
  <2>1. CASE c = b
    <3> pc'[c] = call /\ draft'[c] = d
      BY <2>1 DEF TypeOK, Continue
    <3> QED OBVIOUS
  <2>2. CASE c # b
    <3> pc'[c] = pc[c] /\ draft'[c] = draft[c]
      BY <2>2 DEF TypeOK, Continue
    <3> QED BY DEF DraftsOK
  <2> QED BY <2>1, <2>2
<1> QED BY <1>1, <1>2

\* The steps of a rebuild but the write: nothing in the index changes.
LEMMA SearchOK ==
    ASSUME TypeOK, DraftsOK, NEW b \in Builders,
           \/ Begin(b) \/ LoginSearch(b) \/ Fallback(b) \/ CommandSearch(b)
           \/ VolumeSearch(b) \/ BaselineCheck(b) \/ SearchFails(b) \/ Abandon(b)
    PROVE  TypeOK' /\ DraftsOK' /\ UNCHANGED profiles
<1> DEFINE Good(call, d) ==
      /\ call \in Calls /\ d \in Documents /\ Continue(b, call, d) /\ Coherent(d)
      /\ call \in Searching => ~d.error /\ d.habits.risk = 0
      /\ call = "fallback" => d.habits.ips = {}
<1>0. draft[b] \in Documents /\ Coherent(draft[b])
  BY DEF TypeOK, DraftsOK
<1>1. ASSUME NEW call, NEW d, Good(call, d)
      PROVE  pc' \in [Builders -> Calls] /\ draft' \in [Builders -> Documents] /\ DraftsOK'
  BY <1>1, ContinueOK
<1> HIDE DEF Good
<1>2. CASE Begin(b)
  <2>1. clock + 1 \in Nat /\ EmptyDraft(clock + 1).error = FALSE
          /\ EmptyDraft(clock + 1).habits.risk = 0
    BY DEF TypeOK, EmptyDraft, NoHabits
  <2>2. Good("logins", EmptyDraft(clock + 1))
    BY <1>2, <2>1, EmptyDraftType DEF Good, Begin, Calls
  <2> QED BY <1>1, <1>2, <2>2, LimitsAssumption, ProfilesAssumption DEF Begin, TypeOK
<1>3. CASE LoginSearch(b)
  <2>1. PICK ips \in TopOf(IpsOf(Logins), IpBuckets) : \E usual \in TopOf(ips, TopIps) :
          Continue(b, IF ips = {} THEN "fallback" ELSE "commands",
                   WithLogins(draft[b], ips, usual))
    BY <1>3 DEF LoginSearch
  <2>2. PICK usual \in TopOf(ips, TopIps) :
          Continue(b, IF ips = {} THEN "fallback" ELSE "commands",
                   WithLogins(draft[b], ips, usual))
    BY <2>1
  <2>3. ips \in SUBSET Ips /\ usual \in SUBSET Ips /\ window \subseteq Events
    BY WindowTypes, TopOfSubsets DEF TypeOK
  <2>4. ~draft[b].error /\ draft[b].habits.risk = 0
    BY <1>3 DEF DraftsOK, LoginSearch, Searching
  <2>5. Good(IF ips = {} THEN "fallback" ELSE "commands",
             WithLogins(draft[b], ips, usual))
    BY <1>0, <2>2, <2>3, <2>4, WithLoginsOK DEF Good, Calls
  <2> QED BY <1>1, <1>3, <2>5 DEF LoginSearch, TypeOK
<1>4. CASE Fallback(b)
  <2>1. PICK ips \in TopOf(IpsOf(window), IpBuckets) : \E usual \in TopOf(ips, TopIps) :
          Continue(b, "commands", WithFallback(draft[b], ips, usual))
    BY <1>4 DEF Fallback
  <2>2. PICK usual \in TopOf(ips, TopIps) :
          Continue(b, "commands", WithFallback(draft[b], ips, usual))
    BY <2>1
  <2>3. ips \in SUBSET Ips /\ usual \in SUBSET Ips
    BY WindowTypes, TopOfSubsets DEF TypeOK
  <2>4. ~draft[b].error /\ draft[b].habits.risk = 0 /\ draft[b].habits.ips = {}
    BY <1>4 DEF DraftsOK, Fallback, Searching
  <2>5. Good("commands", WithFallback(draft[b], ips, usual))
    BY <1>0, <2>2, <2>3, <2>4, WithFallbackOK DEF Good, Calls
  <2> QED BY <1>1, <1>4, <2>5 DEF Fallback, TypeOK
<1>5. CASE CommandSearch(b)
  <2>1. PICK commands \in TopOf(SudoCommands, CommandBuckets) :
          Continue(b, "volume", [draft[b] EXCEPT !.habits.commands = commands])
    BY <1>5 DEF CommandSearch
  <2> DEFINE d == [draft[b] EXCEPT !.habits.commands = commands]
  <2>2. ~draft[b].error /\ draft[b].habits.risk = 0
    BY <1>5 DEF DraftsOK, CommandSearch, Searching
  <2>3. commands \subseteq Commands
    BY WindowTypes, TopOfSubsets DEF TypeOK
  <2>4. d \in Documents /\ Coherent(d) /\ ~d.error /\ d.habits.risk = 0
    BY <1>0, <2>2, <2>3 DEF Documents, Habits, Coherent
  <2>5. Good("volume", d)
    BY <2>1, <2>4 DEF Good, Calls
  <2> QED BY <1>1, <1>5, <2>5 DEF CommandSearch, TypeOK
<1>6. CASE VolumeSearch(b)
  <2>1. PICK volume \in IF Transfers = {} THEN {0} ELSE Volumes :
          Continue(b, "baseline", WithVolume(draft[b], volume))
    BY <1>6 DEF VolumeSearch
  <2>2. volume \in Nat
    BY ProfilesAssumption
  <2>3. ~draft[b].error /\ draft[b].habits.risk = 0
    BY <1>6 DEF DraftsOK, VolumeSearch, Searching
  <2>4. Good("baseline", WithVolume(draft[b], volume))
    BY <1>0, <2>1, <2>2, <2>3, WithVolumeOK DEF Good, Calls
  <2> QED BY <1>1, <1>6, <2>4 DEF VolumeSearch, TypeOK
<1>7. CASE BaselineCheck(b)
  <2>1. PICK status \in BaselineStatuses :
          Continue(b, "write",
            [draft[b] EXCEPT
              !.habits = Assessed([draft[b].habits EXCEPT !.baseline = status])])
    BY <1>7 DEF BaselineCheck, BaselineStatuses
  <2> DEFINE h == [draft[b].habits EXCEPT !.baseline = status]
             d == [draft[b] EXCEPT !.habits = Assessed(h)]
  <2>2. h \in Habits /\ h.ips = draft[b].habits.ips
          /\ h.ipCoverage = draft[b].habits.ipCoverage
    BY <1>0 DEF Documents, Habits
  <2>3. Assessed(h) \in Habits /\ Assessed(h).ips = h.ips
          /\ Assessed(h).ipCoverage = h.ipCoverage
    <3> UserRisk(h) \in 0..100
      BY RiskBound
    <3> QED BY <2>2 DEF Assessed, Habits
  <2>4. ~draft[b].error
    BY <1>7 DEF DraftsOK, BaselineCheck, Searching
  <2>5. d \in Documents /\ Coherent(d)
    <3> HIDE DEF h
    <3> QED BY <1>0, <2>2, <2>3, <2>4 DEF Documents, Coherent
  <2>6. Good("write", d)
    <3> "write" \in Calls \ Searching /\ "write" # "fallback"
      BY DEF Calls, Searching
    <3> QED BY <2>1, <2>5 DEF Good
  <2> QED BY <1>1, <1>7, <2>6 DEF BaselineCheck, TypeOK
<1>8. CASE SearchFails(b)
  <2> DEFINE d == [draft[b] EXCEPT !.error = TRUE]
  <2>1. draft[b].habits.risk = 0
    BY <1>8 DEF DraftsOK, SearchFails, Searching
  <2>2. d \in Documents /\ Coherent(d)
    BY <1>0, <2>1 DEF Documents, Coherent
  <2>3. Good("write", d)
    <3> "write" \in Calls \ Searching /\ "write" # "fallback"
      BY DEF Calls, Searching
    <3> QED BY <1>8, <2>2 DEF Good, SearchFails
  <2> QED BY <1>1, <1>8, <2>3 DEF SearchFails, TypeOK
<1>9. CASE Abandon(b)
  <2> Good("idle", EmptyDraft(0))
    <3> "idle" \in Calls \ Searching /\ "idle" # "fallback"
      BY DEF Calls, Searching
    <3> QED BY <1>9, EmptyDraftType DEF Good, Abandon
  <2> QED BY <1>1, <1>9 DEF Abandon, TypeOK
<1>10. UNCHANGED profiles
  BY DEF Begin, LoginSearch, Fallback, CommandSearch, VolumeSearch, BaselineCheck,
         SearchFails, Abandon
<1> QED BY <1>2, <1>3, <1>4, <1>5, <1>6, <1>7, <1>8, <1>9, <1>10

\* The write adds a coherent document, and one of them stays the latest.
LEMMA WriteOK ==
    ASSUME IInv, NEW b \in Builders, Write(b)
    PROVE  IInv'
<1> USE DEF IInv
<1>1. draft[b] \in Documents /\ Coherent(draft[b])
  BY DEF TypeOK, DraftsOK
<1>2. TypeOK' /\ DraftsOK'
  <2> "idle" \in Calls \ Searching /\ "idle" # "fallback" /\ 0 \in Nat
    BY DEF Calls, Searching
  <2>1. /\ pc' \in [Builders -> Calls] /\ draft' \in [Builders -> Documents]
        /\ DraftsOK'
    BY ContinueOK, EmptyDraftType DEF Write
  <2> QED BY <1>1, <2>1 DEF Write, TypeOK
<1>3. \A p \in profiles' : Coherent(p)
  BY <1>1 DEF ProfilesOK, Write
<1>4. \E p \in profiles' : \A q \in profiles' : q.computedAt <= p.computedAt
  <2>1. \A p \in profiles \cup {draft[b]} : p.computedAt \in Nat
    BY <1>1 DEF TypeOK, Documents
  <2>2. profiles' = profiles \cup {draft[b]}
    BY DEF Write
  <2>3. CASE profiles = {}
    BY <2>1, <2>2, <2>3
  <2>4. CASE profiles # {}
    <3>1. PICK p \in profiles : \A q \in profiles : q.computedAt <= p.computedAt
      BY <2>4 DEF ProfilesOK
    <3>2. CASE draft[b].computedAt <= p.computedAt
      BY <2>2, <3>1, <3>2
    <3>3. CASE ~(draft[b].computedAt <= p.computedAt)
      <4> \A q \in profiles' : q.computedAt <= draft[b].computedAt
        BY <2>1, <2>2, <3>1, <3>3
      <4> QED BY <2>2
    <3> QED BY <3>2, <3>3
  <2> QED BY <2>3, <2>4
<1>5. ProfilesOK'
  BY <1>3, <1>4 DEF ProfilesOK, Coherent
<1> QED BY <1>2, <1>5

\* The baseline builder and the window leave the profiles alone.
LEMMA OthersOK ==
    ASSUME IInv, BaselineRun \/ \E e \in Events : Change(e)
    PROVE  IInv' /\ UNCHANGED profiles
<1> USE DEF IInv
<1>1. UNCHANGED <<profiles, pc, draft, clock>>
  BY DEF BaselineRun, Count, WriteBaseline, EndRun, Change
<1>2. TypeOK'
  <2>1. CASE Count
    <3>1. PICK listed \in BOOLEAN :
            LET counted == {e.name : e \in Logins}
            IN  run' = [pc |-> "write", begun |-> run.begun + 1, listed |-> listed,
                        counted |-> counted, todo |-> counted,
                        stale |-> IF listed THEN Known \ counted ELSE {}]
      BY <2>1 DEF Count
    <3>2. {e.name : e \in Logins} \subseteq Names
      BY ProfilesAssumption DEF TypeOK, Logins, EventRecords
    <3>3. Known \subseteq Names /\ run.begun + 1 \in 0..MaxBaselines
      BY <2>1, ProfilesAssumption DEF Known, TypeOK, Runs, Count
    <3>4. run' \in Runs
      BY <3>1, <3>2, <3>3 DEF Runs
    <3> QED BY <2>1, <3>4 DEF Count, TypeOK
  <2>2. CASE WriteBaseline
    <3>1. CASE run.todo # {}
      BY <2>2, <3>1 DEF WriteBaseline, TypeOK, Runs
    <3>2. CASE run.todo = {}
      BY <2>2, <3>2 DEF WriteBaseline, TypeOK, Runs
    <3> QED BY <3>1, <3>2
  <2>3. CASE EndRun
    BY <2>3 DEF EndRun, Resting, TypeOK, Runs
  <2>4. CASE \E e \in Events : Change(e)
    BY <2>4, ProfilesAssumption DEF Change, Observe, Expire, TypeOK
  <2> QED BY <2>1, <2>2, <2>3, <2>4 DEF BaselineRun
<1>3. DraftsOK' /\ ProfilesOK'
  BY <1>1 DEF DraftsOK, ProfilesOK, Coherent
<1> QED BY <1>1, <1>2, <1>3

LEMMA InitOK == Init => IInv
<1> SUFFICES ASSUME Init PROVE IInv
  OBVIOUS
<1>1. EmptyDraft(0) \in Documents /\ Coherent(EmptyDraft(0))
  BY EmptyDraftType
<1>2. TypeOK
  <2>1. Resting(0) \in Runs
    BY ProfilesAssumption DEF Resting, Runs
  <2>2. baselines \in [Names -> {"none", "active", "zero"}]
    BY DEF Init
  <2> QED BY <1>1, <2>1, <2>2, ProfilesAssumption DEF Init, TypeOK, Calls
<1>3. DraftsOK
  BY <1>1 DEF Init, DraftsOK, Searching
<1>4. ProfilesOK
  BY DEF Init, ProfilesOK
<1> QED BY <1>2, <1>3, <1>4 DEF IInv

LEMMA StepOK ==
    ASSUME IInv, Next
    PROVE  IInv'
<1>1. CASE \E b \in Builders : Rebuild(b)
  <2>1. PICK b \in Builders : Rebuild(b)
    BY <1>1
  <2>2. CASE Write(b)
    BY <2>2, WriteOK
  <2>3. CASE ~Write(b)
    <3>1. TypeOK' /\ DraftsOK' /\ UNCHANGED profiles
      BY <2>1, <2>3, SearchOK DEF Rebuild, IInv
    <3> QED BY <3>1 DEF IInv, ProfilesOK
  <2> QED BY <2>2, <2>3
<1>2. CASE BaselineRun \/ \E e \in Events : Change(e)
  BY <1>2, OthersOK
<1> QED BY <1>1, <1>2 DEF Next

LEMMA InvariantHolds == Spec => []IInv
<1>1. IInv /\ UNCHANGED vars => IInv'
  BY DEF IInv, TypeOK, DraftsOK, ProfilesOK, Coherent, vars
<1>2. IInv /\ [Next]_vars => IInv'
  BY <1>1, StepOK
<1> QED BY InitOK, <1>2, PTL DEF Spec

------------------------------------------------------------------------------
(* Theorems *)

(* Every reachable state is of the declared types, for every number of      *)
(* builders, events and rebuilds.                                           *)
THEOREM TypeCorrect == Spec => []TypeOK
<1>1. IInv => TypeOK
  BY DEF IInv
<1> QED BY InvariantHolds, <1>1, PTL

LEMMA LatestIsLatest ==
    ASSUME ProfilesOK, profiles # {}
    PROVE  /\ LatestProfile \in profiles
           /\ \A q \in profiles : q.computedAt <= LatestProfile.computedAt
BY DEF ProfilesOK, LatestProfile

(* What the latest rebuild did not find out counts for nothing, whichever   *)
(* of its searches found nothing or failed.                                 *)
THEOREM SilenceIsHarmless == Spec => []SilenceIsNoEvidence
<1>1. IInv => SilenceIsNoEvidence
  <2> SUFFICES ASSUME IInv, profiles # {}
               PROVE  LET p == LatestProfile.habits IN
                      /\ \A a \in Scored :
                           /\ p.hours = {} => LoginTimeDeviation(a, p) = 0
                           /\ p.ips = {} => SourceIpNovelty(a, p) = 0
                           /\ p.commands = {} => CommandRarity(a, p) = 0
                           /\ p.volume = 0 => VolumeSpike(a, p) = 0
                      /\ LatestProfile.error => PeerDeviation(p) = 0
    BY DEF SilenceIsNoEvidence
  <2> DEFINE p == LatestProfile.habits
  <2>1. LatestProfile \in Documents /\ Coherent(LatestProfile)
    BY LatestIsLatest DEF IInv, TypeOK, ProfilesOK
  <2>2. p \in Habits /\ p # NoProfile
    BY <2>1, NoProfileAssumption DEF Documents
  <2> HIDE DEF p
  <2>3. ASSUME NEW a \in Scored
        PROVE  /\ p.hours = {} => LoginTimeDeviation(a, p) = 0
               /\ p.commands = {} => CommandRarity(a, p) = 0
               /\ p.volume = 0 => VolumeSpike(a, p) = 0
    BY <2>2 DEF LoginTimeDeviation, CommandRarity, VolumeSpike, When
  <2>4. ASSUME NEW a \in Scored, p.ips = {}
        PROVE  SourceIpNovelty(a, p) = 0
    <3> p.ipCoverage \notin {"ok", "ok_via_other_rule_types"}
      BY <2>1, <2>4 DEF Coherent, p
    <3> QED BY <2>2 DEF SourceIpNovelty
  <2>5. ASSUME LatestProfile.error
        PROVE  PeerDeviation(p) = 0
    <3> p.risk = 0
      BY <2>1, <2>5 DEF Coherent, p
    <3> QED BY <2>2 DEF PeerDeviation, When
  <2> QED BY <2>3, <2>4, <2>5 DEF p
<1> QED BY InvariantHolds, <1>1, PTL

(* However many rebuilds overlap, the profile in use is never replaced by   *)
(* one whose rebuild began earlier.                                         *)
THEOREM LaterRebuildWins == Spec => LaterRebuildPrevails
<1>1. ASSUME IInv, IInv', [Next]_vars, profiles # {}
      PROVE  LatestProfile'.began >= LatestProfile.began
  <2>1. profiles \subseteq profiles'
    BY <1>1 DEF Next, Rebuild, BaselineRun, Begin, LoginSearch, Fallback,
       CommandSearch, VolumeSearch, BaselineCheck, SearchFails, Write, Abandon,
       Count, WriteBaseline, EndRun, Change, vars
  <2>2. LatestProfile \in profiles /\ Coherent(LatestProfile)
          /\ LatestProfile \in Documents
    BY <1>1, LatestIsLatest DEF IInv, ProfilesOK, TypeOK
  <2>3. /\ LatestProfile' \in profiles'
        /\ \A q \in profiles' : q.computedAt <= LatestProfile'.computedAt
    BY <1>1, <2>1 DEF IInv, ProfilesOK, LatestProfile
  <2>4. Coherent(LatestProfile') /\ LatestProfile' \in Documents
    BY <1>1, <2>3 DEF IInv, ProfilesOK, TypeOK, Coherent
  <2> QED BY <2>1, <2>2, <2>3, <2>4 DEF Coherent, Documents
<1>2. IInv /\ IInv' /\ [Next]_vars
        => [profiles # {} => LatestProfile'.began >= LatestProfile.began]_vars
  BY <1>1
<1> QED BY InvariantHolds, <1>2, PTL DEF Spec, LaterRebuildPrevails

\* A baseline run has counted what it wrote, and what it still has to write is
\* counted; who is not counted has a count no longer, or is listed as stale.
BaselinesInHand ==
    run.pc = "write" =>
      /\ run.todo \subseteq run.counted
      /\ run.stale \cap run.counted = {}
      /\ \A n \in run.counted \ run.todo : baselines[n] = "active"
      /\ run.listed =>
           \A n \in Names \ (run.counted \cup run.stale) : baselines[n] # "active"

LEMMA BaselinesStep == TypeOK /\ BaselinesInHand /\ [Next]_vars => BaselinesInHand'
<1> SUFFICES ASSUME TypeOK, BaselinesInHand, [Next]_vars PROVE BaselinesInHand'
  OBVIOUS
<1>1. CASE Count
  <2>1. PICK listed \in BOOLEAN :
          LET counted == {e.name : e \in Logins}
          IN  run' = [pc |-> "write", begun |-> run.begun + 1, listed |-> listed,
                      counted |-> counted, todo |-> counted,
                      stale |-> IF listed THEN Known \ counted ELSE {}]
    BY <1>1 DEF Count
  <2> QED BY <1>1, <2>1 DEF Count, Known, BaselinesInHand
<1>2. CASE WriteBaseline
  <2>1. run \in Runs /\ DOMAIN baselines = Names
    BY DEF TypeOK
  <2>2. CASE run.todo # {}
    <3>1. PICK n \in run.todo : /\ baselines' = [baselines EXCEPT ![n] = "active"]
                               /\ run' = [run EXCEPT !.todo = @ \ {n}]
      BY <1>2, <2>2 DEF WriteBaseline
    <3>2. /\ run'.pc = run.pc /\ run'.counted = run.counted /\ run'.stale = run.stale
          /\ run'.listed = run.listed /\ run'.todo = run.todo \ {n}
      BY <2>1, <3>1 DEF Runs
    <3>3. n \in Names /\ \A m \in Names : baselines'[m] = IF m = n THEN "active"
                                                         ELSE baselines[m]
      BY <2>1, <3>1 DEF Runs
    <3>4. run.counted \subseteq Names /\ run.pc = "write"
      BY <1>2, <2>1 DEF Runs, WriteBaseline
    <3> QED BY <3>1, <3>2, <3>3, <3>4 DEF BaselinesInHand
  <2>3. CASE run.todo = {}
    <3>1. PICK n \in run.stale : /\ baselines' = [baselines EXCEPT ![n] = "zero"]
                                /\ run' = [run EXCEPT !.stale = @ \ {n}]
      BY <1>2, <2>3 DEF WriteBaseline
    <3>2. /\ run'.pc = run.pc /\ run'.counted = run.counted /\ run'.todo = run.todo
          /\ run'.listed = run.listed /\ run'.stale = run.stale \ {n}
      BY <2>1, <3>1 DEF Runs
    <3>3. n \in Names /\ \A m \in Names : baselines'[m] = IF m = n THEN "zero"
                                                         ELSE baselines[m]
      BY <2>1, <3>1 DEF Runs
    <3>4. run.counted \subseteq Names /\ run.pc = "write"
      BY <1>2, <2>1 DEF Runs, WriteBaseline
    <3> QED BY <3>1, <3>2, <3>3, <3>4 DEF BaselinesInHand
  <2> QED BY <2>2, <2>3
<1>3. CASE EndRun
  BY <1>3 DEF EndRun, Resting, BaselinesInHand
<1>4. CASE UNCHANGED <<baselines, run>>
  BY <1>4 DEF BaselinesInHand
<1> QED BY <1>1, <1>2, <1>3, <1>4 DEF Next, Rebuild, BaselineRun, Begin, LoginSearch,
           Fallback, CommandSearch, VolumeSearch, BaselineCheck, SearchFails, Write,
           Abandon, Change, vars

(* A baseline run that ends with all its answers leaves a count for exactly *)
(* the names it counted, however profiles and events change meanwhile.      *)
THEOREM BaselinesFollowCount == Spec => BaselinesAreCurrent
<1>1. Init => BaselinesInHand
  BY DEF Init, Resting, BaselinesInHand
<1>2. TypeOK /\ BaselinesInHand
        => [(/\ run.pc = "write" /\ run'.pc = "idle"
             /\ run.listed /\ run.todo = {} /\ run.stale = {})
             => \A n \in Names : baselines[n] = "active" <=> n \in run.counted]_vars
  BY DEF BaselinesInHand
<1>3. IInv => TypeOK
  BY DEF IInv
<1> QED BY <1>1, <1>2, <1>3, BaselinesStep, InvariantHolds, PTL
        DEF Spec, BaselinesAreCurrent

------------------------------------------------------------------------------
(* Habits *)

LoginsSeen(d) == {e \in d.seen : "authentication_success" \in e.groups}

\* A document has the hours of the logins it was made from and, if the search
\* could list them all, their addresses.
Faithful(d) ==
    LET ips == IpsOf(LoginsSeen(d)) IN
    /\ \A e \in LoginsSeen(d) : e.hour \in d.habits.hours
    /\ ips # {} /\ Cardinality(ips) <= IpBuckets =>
         /\ d.habits.ips = ips /\ d.habits.ipCoverage = "ok"
         /\ Cardinality(ips) <= TopIps => d.habits.usual = ips

AllFaithful == /\ \A b \in Builders : Faithful(draft[b])
               /\ \A p \in profiles : Faithful(p)

\* Faithfulness is about these fields and no other.
LEMMA FaithfulSame ==
    ASSUME NEW d, NEW e, Faithful(d), e.seen = d.seen,
           e.habits.hours = d.habits.hours, e.habits.ips = d.habits.ips,
           e.habits.usual = d.habits.usual,
           e.habits.ipCoverage = d.habits.ipCoverage
    PROVE  Faithful(e)
BY DEF Faithful, LoginsSeen

LEMMA EmptyFaithful == ASSUME NEW time PROVE Faithful(EmptyDraft(time))
<1>1. EmptyDraft(time).seen = {}
  BY DEF EmptyDraft
<1>2. LoginsSeen(EmptyDraft(time)) = {} /\ IpsOf({}) = {}
  BY <1>1 DEF LoginsSeen, IpsOf
<1> QED BY <1>2 DEF Faithful

LEMMA LoginsFaithful ==
    ASSUME NEW d \in Documents, NEW ips \in TopOf(IpsOf(Logins), IpBuckets),
           NEW usual \in TopOf(ips, TopIps)
    PROVE  Faithful(WithLogins(d, ips, usual))
<1> DEFINE w == WithLogins(d, ips, usual)
<1>1. d.habits \in Habits
  BY DEF Documents
<1>2. /\ w.seen = window /\ w.habits.hours = {e.hour : e \in Logins}
      /\ w.habits.ips = ips /\ w.habits.usual = usual
      /\ ips # {} => w.habits.ipCoverage = "ok"
  BY <1>1 DEF WithLogins, Documents, Habits
<1> HIDE DEF w
<1>3. LoginsSeen(w) = Logins
  BY <1>2 DEF LoginsSeen, Logins
<1>4. Cardinality(IpsOf(Logins)) <= IpBuckets => ips = IpsOf(Logins)
  BY DEF TopOf
<1>5. Cardinality(ips) <= TopIps => usual = ips
  BY DEF TopOf
<1>6. Faithful(w)
  BY <1>2, <1>3, <1>4, <1>5 DEF Faithful
<1> QED BY <1>6 DEF w

LEMMA ContinueFaithful ==
    ASSUME TypeOK, AllFaithful, NEW b \in Builders, NEW call, NEW d,
           Continue(b, call, d), Faithful(d)
    PROVE  \A c \in Builders : Faithful(draft'[c])
BY DEF TypeOK, AllFaithful, Continue

LEMMA FaithfulStep == IInv /\ AllFaithful /\ [Next]_vars => AllFaithful'
<1> SUFFICES ASSUME IInv, AllFaithful, [Next]_vars PROVE AllFaithful'
  OBVIOUS
<1> USE DEF IInv
<1>1. ASSUME UNCHANGED <<profiles, draft>> PROVE AllFaithful'
  BY <1>1 DEF AllFaithful, Faithful, LoginsSeen, IpsOf
<1>2. ASSUME NEW b \in Builders, NEW call, NEW d, Continue(b, call, d), Faithful(d),
             profiles' = profiles \/ profiles' = profiles \cup {draft[b]}
      PROVE  AllFaithful'
  <2>1. \A c \in Builders : Faithful(draft'[c])
    BY <1>2, ContinueFaithful
  <2>2. \A p \in profiles' : Faithful(p)
    BY <1>2 DEF AllFaithful
  <2> QED BY <2>1, <2>2 DEF AllFaithful, Faithful, LoginsSeen, IpsOf
<1>3. ASSUME NEW b \in Builders, Rebuild(b) PROVE AllFaithful'
  <2>1. draft[b] \in Documents /\ draft[b].habits \in Habits /\ Faithful(draft[b])
    BY DEF TypeOK, Documents, AllFaithful
  <2>2. CASE Begin(b)
    BY <1>2, <2>2, EmptyFaithful DEF Begin
  <2>3. CASE LoginSearch(b)
    <3>1. PICK ips \in TopOf(IpsOf(Logins), IpBuckets) : \E usual \in TopOf(ips, TopIps) :
            Continue(b, IF ips = {} THEN "fallback" ELSE "commands",
                     WithLogins(draft[b], ips, usual))
      BY <2>3 DEF LoginSearch
    <3>2. PICK usual \in TopOf(ips, TopIps) :
            Continue(b, IF ips = {} THEN "fallback" ELSE "commands",
                     WithLogins(draft[b], ips, usual))
      BY <3>1
    <3>3. Faithful(WithLogins(draft[b], ips, usual))
      BY <2>1, LoginsFaithful
    <3> QED BY <1>2, <2>3, <3>2, <3>3 DEF LoginSearch
  <2>4. CASE Fallback(b)
    <3>1. PICK ips \in TopOf(IpsOf(window), IpBuckets) : \E usual \in TopOf(ips, TopIps) :
            Continue(b, "commands", WithFallback(draft[b], ips, usual))
      BY <2>4 DEF Fallback
    <3>2. PICK usual \in TopOf(ips, TopIps) :
            Continue(b, "commands", WithFallback(draft[b], ips, usual))
      BY <3>1
    <3> DEFINE w == WithFallback(draft[b], ips, usual)
    <3>3. w.seen = draft[b].seen /\ w.habits.hours = draft[b].habits.hours
      BY <2>1 DEF WithFallback, Documents, Habits
    <3> HIDE DEF w
    <3>4. draft[b].habits.ips = {}
      BY <2>4 DEF Fallback, DraftsOK
    <3>5. LoginsSeen(w) = LoginsSeen(draft[b])
      BY <3>3 DEF LoginsSeen
    <3>6. Faithful(w)  \* no login had an address, or there were too many to list
      BY <2>1, <3>3, <3>4, <3>5 DEF Faithful
    <3> QED BY <1>2, <2>4, <3>2, <3>6 DEF Fallback, w
  <2>5. CASE CommandSearch(b)
    <3>1. PICK commands \in TopOf(SudoCommands, CommandBuckets) :
            Continue(b, "volume", [draft[b] EXCEPT !.habits.commands = commands])
      BY <2>5 DEF CommandSearch
    <3>2. Faithful([draft[b] EXCEPT !.habits.commands = commands])
      BY <2>1, FaithfulSame DEF Documents, Habits
    <3> QED BY <1>2, <2>5, <3>1, <3>2 DEF CommandSearch
  <2>6. CASE VolumeSearch(b)
    <3>1. PICK volume \in IF Transfers = {} THEN {0} ELSE Volumes :
            Continue(b, "baseline", WithVolume(draft[b], volume))
      BY <2>6 DEF VolumeSearch
    <3>2. Faithful(WithVolume(draft[b], volume))
      BY <2>1, FaithfulSame DEF WithVolume, Documents, Habits
    <3> QED BY <1>2, <2>6, <3>1, <3>2 DEF VolumeSearch
  <2>7. CASE BaselineCheck(b)
    <3>1. PICK status \in BaselineStatuses :
            Continue(b, "write",
              [draft[b] EXCEPT
                !.habits = Assessed([draft[b].habits EXCEPT !.baseline = status])])
      BY <2>7 DEF BaselineCheck, BaselineStatuses
    <3> DEFINE h == [draft[b].habits EXCEPT !.baseline = status]
    <3>2. /\ h.hours = draft[b].habits.hours /\ h.ips = draft[b].habits.ips
          /\ h.usual = draft[b].habits.usual
          /\ h.ipCoverage = draft[b].habits.ipCoverage /\ h \in Habits
      BY <2>1 DEF Habits
    <3>3. /\ Assessed(h).hours = h.hours /\ Assessed(h).ips = h.ips
          /\ Assessed(h).usual = h.usual /\ Assessed(h).ipCoverage = h.ipCoverage
      BY <3>2 DEF Assessed, Habits
    <3> HIDE DEF h
    <3>4. Faithful([draft[b] EXCEPT !.habits = Assessed(h)])
      BY <2>1, <3>2, <3>3, FaithfulSame DEF Documents
    <3> QED BY <1>2, <2>7, <3>1, <3>4 DEF BaselineCheck, h
  <2>8. CASE SearchFails(b)
    <3>1. Faithful([draft[b] EXCEPT !.error = TRUE])
      BY <2>1, FaithfulSame DEF Documents
    <3> QED BY <1>2, <2>8, <3>1 DEF SearchFails
  <2>9. CASE Write(b) \/ Abandon(b)
    BY <1>2, <2>9, EmptyFaithful DEF Write, Abandon
  <2> QED BY <1>3, <2>2, <2>3, <2>4, <2>5, <2>6, <2>7, <2>8, <2>9 DEF Rebuild
<1>4. CASE BaselineRun \/ (\E e \in Events : Change(e)) \/ UNCHANGED vars
  BY <1>1, <1>4 DEF BaselineRun, Count, WriteBaseline, EndRun, Change, vars
<1> QED BY <1>3, <1>4 DEF Next

(* A user's own hours are never unusual, nor his own addresses where the    *)
(* rebuild's search can list those of all logins (TopIps <= IpBuckets).     *)
THEOREM HabitsAreKnown == Spec => []HabitsAreNotAnomalies
<1>1. Init => AllFaithful
  BY EmptyFaithful DEF Init, AllFaithful
<1>2. IInv /\ AllFaithful => HabitsAreNotAnomalies
  <2> SUFFICES ASSUME IInv, AllFaithful, profiles # {}, NEW a \in Scored
               PROVE  LET p == LatestProfile.habits
                          logins == {e \in LatestProfile.seen :
                                       "authentication_success" \in e.groups}
                          own == {e \in logins : e.name \in {"plain", "decorated"}}
                      IN  /\ (\E e \in own : e.hour = a.hour)
                               => LoginTimeDeviation(a, p) = 0
                          /\ a.ip \in IpsOf(own) /\ Cardinality(IpsOf(logins)) <= IpBuckets
                               => SourceIpNovelty(a, p) <= 5
                          /\ a.ip \in IpsOf(own) /\ Cardinality(IpsOf(logins)) <= TopIps
                               => SourceIpNovelty(a, p) = 0
    BY DEF HabitsAreNotAnomalies
  <2> DEFINE p == LatestProfile.habits
             logins == LoginsSeen(LatestProfile)
             own == {e \in logins : e.name \in {"plain", "decorated"}}
  <2>1. LatestProfile \in Documents /\ Faithful(LatestProfile)
    BY LatestIsLatest DEF IInv, TypeOK, AllFaithful
  <2>2. p # NoProfile
    BY <2>1, NoProfileAssumption DEF Documents
  <2>3. own \subseteq logins /\ IpsOf(own) \subseteq IpsOf(logins)
    BY DEF IpsOf
  <2>4. Cardinality(IpsOf(logins)) \in Nat
    <3>1. IpsOf(logins) \subseteq Ips
      BY <2>1, ProfilesAssumption DEF IpsOf, LoginsSeen, Documents, EventRecords
    <3> QED BY <3>1, LimitsAssumption, FS_Subset, FS_CardinalityType
  <2>5. /\ \A e \in logins : e.hour \in p.hours
        /\ IpsOf(logins) # {} /\ Cardinality(IpsOf(logins)) <= IpBuckets =>
             /\ p.ips = IpsOf(logins) /\ p.ipCoverage = "ok"
             /\ Cardinality(IpsOf(logins)) <= TopIps => p.usual = IpsOf(logins)
    BY <2>1 DEF Faithful
  <2>6. logins = {e \in LatestProfile.seen : "authentication_success" \in e.groups}
    BY DEF LoginsSeen
  <2> HIDE DEF p, logins, own
  <2>7. (\E e \in own : e.hour = a.hour) => LoginTimeDeviation(a, p) = 0
    BY <2>3, <2>5 DEF LoginTimeDeviation
  <2>8. a.ip \in IpsOf(own) /\ Cardinality(IpsOf(logins)) <= IpBuckets
          => SourceIpNovelty(a, p) <= 5
    BY <2>2, <2>3, <2>5 DEF SourceIpNovelty
  <2>9. a.ip \in IpsOf(own) /\ Cardinality(IpsOf(logins)) <= TopIps
          => SourceIpNovelty(a, p) = 0
    BY <2>2, <2>3, <2>4, <2>5, LimitsAssumption DEF SourceIpNovelty
  <2> QED BY <2>6, <2>7, <2>8, <2>9 DEF p, own
<1> QED BY <1>1, <1>2, FaithfulStep, InvariantHolds, PTL DEF Spec
===============================================================================
