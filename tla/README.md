# Cosmic SIEM in TLA+

Specifications of the alert-processing core of this repository (`src/langgraph`),
the TLC configurations that check them on small instances, and TLAPS proofs of the
results that hold for every value of the constants.

## The system

Wazuh agents send alerts to Elasticsearch. A poll loop fetches the alerts without a
verdict, enriches and scores each, and runs it through a LangGraph of agents that
may block an address and open a ticket; the verdict goes back to the document, a
copy to the tenant's index and a notification to the tenant. Next to the loop,
scheduled hunts search the index and feed what they find into the same graph.
Analysts send verdicts through an API; a retrainer turns them into weights.

| Component | State it keeps | Operations | Interacts with | Hard because | Correct means |
|---|---|---|---|---|---|
| Scoring and thresholds: `confidence_scorer.py`, `coordination_agent.py` | none | `score`, `tier`, `route_after_coordination`, `_pre_classify`, `is_actionable` | called by the pipeline; reads UEBA | the same percentage is cut by five sets of thresholds in five files | label, route, action and severity agree; a further signal never lowers the score |
| Poll loop: `pipeline_runner.py` | `last_seen_ts`, the fetched page (memory); `triage.verdict` (index) | poll, run, write back, mirror, notify | index, graph, tenant registry, notifier | cursor over event time, page limit, crashes, partial failures | no alert twice in a session, none lost without a cause, messages tell what was decided |
| Agent graph: `graph.py`, `agents/*` | `AgentState` | coordination, triage, hunting, response | language model, index, response tools | nodes raise; undeclared keys are dropped; two threads run it | actions rest on evidence; the verdict acted on is the verdict recorded |
| Scheduled hunts: `hunting_agent.py`, `pipeline_runner.py` | nothing between cycles; `siem-hunt-results` is only shown | cycles, escalation | graph, on its own thread | runs beside the poll loop on the same alerts; windows, intervals and late indexing | no timely event slips between two cycles; a finding is repeated no longer than its window |
| Insider and YAML hunts: `insider_threat.py`, `hunt_loader.py` | the cycle or request in progress | four detections over every user; load and run a directory of playbooks | scheduler, API, graph | a failed search looks like an empty one; one bad file | a wrong finding has a cause; records tell what was tried; a request runs its playbooks in order, none if one cannot be loaded |
| Response tools: `response_tools.py` | firewall rules, isolation, issues, `siem-response-log` (all outside) | block, unblock, isolate, unisolate, ticket | Wazuh API, SSH, GitHub | lost replies, queued commands, retries of non-idempotent scripts | rules account for calls; the log for actions |
| Feedback loop: `feedback_loop.py` | verdict and weight-history indices | `record_verdict`, `retrain_weights` | API, index | read-compute-write by separate processes, fallbacks on failure | weights stay in range and go down only for a cause |
| UEBA: `ueba_engine.py`, `ueba_scorer.py`, `baseline_builder.py` | profiles, baselines | nightly rebuild, `score_anomaly` | scorer, triage | a rebuild without data supersedes a good profile | absence of history is no evidence |
| Tenants and notifications: `tenant_manager.py`, `notification_config_api.py`, `webhook_engine.py` | one configuration document per tenant | create, deactivate, set rules, send | poll loop, operators | read-modify-write by several operators; channels fail one by one | no configuration is lost; a matching channel is tried once |
| Threat intelligence: `feed_manager.py`, `ioc-matcher.py` | IOC index | feed pull, match | poll loop | lookups fail one by one | strongest match wins |
| Red team: `redteam_simulator.py`, `atomic_red_team_runner.py`, `attack_chain_simulator.py`, `chain_loader.py` | the report in progress; audit indices | simulate a technique, run a chain | SSH hosts, index, blast radius | every remote command may time out having run; stop on block; mode, allowlist, file, topology and known hosts decide together what runs | nothing unreviewed runs; what a test leaves is on record; claims have grounds |
| Blast radius: `blast_radius.py` | the map of reachable hosts in progress | three signals, one query per user | chain simulator, index | each query may fail, signals arrive in an order | a later signal never loses or blurs an earlier one |
| Reports, API, dashboard, rules | mostly none | reports, thin routers | all of the above | little | — |

## What is modelled

### `ConfidenceScoring`: the numbers

Pure operators, one per function; AlertPipeline is built from them. An alert
document is a record of what these functions read. `int(level / 15 * 100)` and
`int(score * 0.2)` are integer divisions; they agree with the floating-point
expressions on every level 0..16 and every score 0..100.

`ScoringLattice` makes a state machine of an alert that gains one signal per step, so
that "more evidence" is an action property.

### `AlertPipeline`: poll loop, hunt thread and graph

| TLA+ | Code |
|---|---|
| `Poll`, `Pages`, `Eligible` | `get_unprocessed_alerts` and the loop head in `main` |
| `Ingest` | `run_pipeline_once` up to the edge out of coordination |
| `Triage`, `Hunting`, `Respond`, `Block`, `Ticket`, `NodeRaises` | the graph's nodes, on thread `t` |
| `WriteBack`, `Mirror`, `Notify` | the end of `run_pipeline_once` |
| `Advance` | `last_seen_ts` and the loop |
| `StartHunt`, `Synthetic` | `run_hunt`, `escalate_hunt_to_triage` |
| `Start`, `Crash`, `Interrupt`, `HunterExits` | process start, kill, Ctrl-C, and the scheduler's `shutdown(wait=False)` |
| `Index`, `Tick` | external: Filebeat and the clock |

A step ends where another thread, a failure or a crash can come between: at each
external call that changes something outside. What a node only reads (recent
events, the model's answer, indicator lookups) is chosen within the step. Calls in
the constant `Unreliable` may fail; a call that loses only its reply counts as one
that took effect, since the loop looks at no reply. `trail`, `ran`, `runs` and
`late` are history variables that no action reads.

Abstracted: the fields of an alert are fixed data (`Content`); the language model
may answer any verdict; notes, summaries, the trace and `siem-response-log` entries
(which no step reads) are left out. The hunt jobs take turns; a job interrupted by
Ctrl-C may still run its second playbook. `--once` is the case of an `Interrupt`
after the first page, without hunts. The graph state of a hunt is passed through
`Channels`, the keys that `AgentState` declares: LangGraph drops every other key of an
input, `_pre_scored` among them, so `PreScored` is false and `Triage` computes the
percentage anew. `runs` counts the runs of a session and is set back by `Start`.

`AlertLedger` is the abstract specification: per round (session) an alert is
decided on once, while open; actions only follow a suspicious decision and precede
the closing; closing and telling use the decided verdict; nothing happens on behalf
of a round after a later round has decided. `AlertPipeline` maps `record` and the
poller's part of `trail` to it (`Ledger`, `LedgerSpec`).

### `ResponseActions`: the tools that act

Callers run `block_ip`/`isolate_endpoint` (`Put`), `unblock_ip`/`unisolate_endpoint`
(`SshAttempt`) and `create_ticket` (`PostIssue`) concurrently; `Log` is
`_log_response_action`. A request may take effect and lose its reply; a command is
queued at the agent and runs later (`RunAdd`); an SSH attempt may run the script and
still fail, and is repeated. The scripts are external: `firewall-drop` stacks rules
per add and removes one set per delete, as the comment in `unblock_ip` reports from
a live test; `isolate-host` is taken to be on or off.

### `FeedbackLoop`: verdicts and weights

`Record` is `record_verdict`; a retrain is `ReadVerdicts`, `ReadWeights` (which also
computes and stamps the entry) and `WriteEntry`. Every call has its fallback: a
failed lookup records zeros, a failed verdict search yields none, a failed weight
search yields the defaults, a failed write is dropped. Weights are hundredths; the
false-positive rate, rounded to three places in the code, exceeds 0.30 exactly when
10·fp > 3·total for every total up to the sample size of 100.

### `TenantConfig` and `Notifications`: who is told

`TenantConfig` is the registry: operators' calls of `create_tenant` (`PostNew`,
`Seed`), `deactivate_tenant` (`Get`, `PostInactive`) and the settings endpoint
(`Get`, `PostSettings`) overlap between the read of a document and the write of the
whole of it. `Families` is `TENANT_INDEX_FAMILIES`; `PostSettings` asks whether
"config" is one, as `write_tenant_doc` does. The code itself
never stores notification rules, which is what `notification_settings` shows; they get
into a document by hand, in the index, at the start (`Stored`) or later (`Edit`), so a
tenant may have had several documents with different rules.

`Notifications` extends it with `_dispatch_notifications`: `Dispatch` reads the document
once and finds the matching channels, `Send` tries one channel, `LogAttempt` logs it. An
alert may be dispatched again, as after a restart or a failed write-back (`round` tells
the dispatches apart). A channel whose configuration is not an object raises and ends
the dispatch; every other failure is an outcome. `AlertPipeline!Notify` is this dispatch
seen from outside, as one call that may fail.

### `UebaScoring` and `UebaProfiles`: what is usual for a user

`UebaScoring` holds the five dimensions of `score_anomaly` and the risk score of a
profile. `UebaProfiles` is the index: a rebuild is `Begin` (which stamps the
document), one step per search (`LoginSearch`, `Fallback`, `CommandSearch`,
`VolumeSearch`, `BaselineCheck`) and `Write`; a search that raises (`SearchFails`)
writes what has been found so far. The baseline builder (`Count`, `WriteBaseline`,
`EndRun`) runs beside it, and the window changes between any two steps. An event
stands for all documents that look like it, under the plain name of the user, the
name PAM decorates, or somebody else's name that begins with his, which the
rebuild's prefix searches also match. `seen` and `began` are history fields. The
builder's two searches return at most 1000 names (`baseline_builder.py:60` and `97`); the
model has fewer names than that. Beyond it the code counts only some names and zeroes
only some, without notice.

### `RedTeam`, `BlastRadius`, `AttackChain`: simulated attacks

`RedTeam` is one simulation: `Simulate` is `run_red_team_simulation` with the checks of
the technique handlers, then each remote command and each log write is a step.
`PlanTest`, `RunTest`, `Cleanup` and `LogOutcome` are `run_atomic_test`: the entry before,
the two SSH calls, the entry after. `CheckDetection` and `Recheck` are the two passes over
the SIEM's answer. A command that times out or raises (in decoding what it printed, for
one) may have run. `executed` and `residue` record what really happened on the hosts,
which the code cannot see; `atomicLog` is what its log holds and `refused` what the index
did not take, an error that `_log_execution` swallows.

`BlastRadius` is `map_blast_radius`, one query per step. `AttackChain` extends both with
the loop of `run_attack_chain` (`RunSingleStep`, `StepResult`, `HaltStep`, `Summarize`,
`WriteReports`) and the two graph nodes that start it (`ChainNode`, `RedTeamNode`), to
which no edge of `graph.py` leads. `Kill` ends the process at any step; nothing is
resumed.

`KillChain` is the abstract specification: a plan, one entry per step in order,
everything halted after a block when asked to stop, and a verdict that is "full"
exactly when every entry is "exploitable". `AttackChain` maps its `chain` record to it.

### `InsiderHunts`, `HuntWindows`, `YamlHunts`, `Hunts`: looking for more

`InsiderHunts` is a cycle of `run_all_insider_threat_hunts`: `Detect` is one detection
on one user, with the set of searches that fail chosen beside what they would have
found, so that `Threat` (what was the case) can be compared with what was flagged. The
searches match names by prefix, so `Facts` has beside a user's own acts (`own`) those of
accounts whose name begins with his (`others`), and `Answers` returns both; a list of
systems is cut at `TermsSize`; the code's hour distance does not wrap at midnight, the
one of `Threat` (`Apart`) does. `SkipUser` is a detection that raises: its user is
passed over, and counts as missed if he was a threat. `WriteInsiderResult`,
`EscalateFinding` (made, or swallowed on failure: `refused`) and `NextDetection` follow
the code's order, and `KillCycle` may come anywhere.

`HuntWindows` follows one default playbook hour by hour: `RunHunt` and `HuntFails` are
`run_hunt` at the hours the scheduler keeps, `Event` puts an event into the index some
hours after its timestamp, `RestartScheduler` starts a new interval without a cycle. An
escalation counts there as soon as it is made, also when the graph it invokes fails:
`run_hunt` does not look at what became of it, so a "repeat" may be the first that works,
and a finding that was "not lost" may have been handed to a graph that raised.
`YamlHunts` is `POST /api/v1/hunts/trigger`: `LoadPlaybook` for each file, then for each
playbook `SearchForHunt`, `RecordHunt`, `EscalateHunt`. `load_hunt_playbooks` looks only
for the presence of fields, so a file may have a threshold of 0 or less, or values that
raise when its playbook is run: in `_render_query` (`renders`), at the `baseline_type`
(`tags`) or in the comparison (`compares`). Such a request is aborted after the hunts
before it; an escalation may fail. `Hunts` puts the three engines
into one specification; since none reads what another writes, a behaviour follows one
of them. What an escalation does in the graph is AlertPipeline's hunt thread.

## Runs

| Run | Shows | Bounds |
|---|---|---|
| `tools` | label, route, action and severity agree; a signal never hurts; rules, tickets and log account for the calls; weights stay in range and move for a reason | levels, boosts and thresholds' neighbours; 2 callers, 4 calls, 2 attempts; 2 retrainers, 3 retrains, 3 verdicts, window 2, every call of theirs unreliable |
| `pipeline_faults` | types; no alert twice in a session; messages and document part ways only over a failed write-back; refinement of `AlertLedger`, by which only suspicious, open alerts are acted on and a verdict is final | 2 alerts, 2 sessions, 1 hunt, event counts 0 and 10, failing lookups, searches, blocks, write-backs and notices |
| `pipeline_live` | an alert is left behind only as late, tied or too old; the loop acts only on strong intelligence or ten events; timely alerts are run; pages are worked off | 3 alerts at 2 timestamps, pages of 1, 2 sessions, no recent events, failing searches and write-backs |
| `notifications` | types; one document per dispatch; failures stay apart; offboarding sticks | 2 tenants, 2 operators, 2 calls or edits, 2 alerts, 2 dispatches, 3 severities, every call unreliable |
| `ueba` | silence is no evidence; habits are no anomalies; later rebuilds prevail; baselines follow the window | 2 builders, 2 rebuilds, 1 baseline run after an earlier one, 4 events, 1 change of the window, limits 1 and 2 for 5 and 10 |
| `attack_chain` | types; nothing unreviewed runs; residue is logged or refused by the log; claims have grounds; nothing runs after a block; signals only sharpen; refinement of `KillChain`; runs end | 2 hosts, 1 of them reachable, 2 tests, a shipped chain with a technique that has no handler and one without, 1 account, 3 group lists |
| `hunts` | types; wrong findings have a cause; wrong records have one; repeats are bounded; no timely event is lost; requests are faithful; cycles end | 4 users in 2 departments, one with namesakes, 3 days, hours 0, 3 and 23, counts 0, 1 and 3, lists of 2 systems, thresholds of 2; 10 hours, intervals of 2, windows of 2 and 6, delays up to 2, 2 events; 4 directories of up to 3 playbooks, one threshold of 0, one file that cannot be loaded and two that cannot be run, 3 findings |

`tools` follows in each behaviour one of three parts that share no state (`part` in
`MCTools`): `ScoringLattice`, `ResponseActions` or `FeedbackLoop`. The largest runs have
2.3 million (`pipeline_faults`), 2.6 million (`tools`) and 2.7 million states
(`notifications`); all of them finish.

Why the bounds suffice: two alerts give an order, a page boundary and a tie; a third is
needed only for a tie behind a full page. Two sessions give one restart, and the
properties relate a session to the one before. One hunt can meet every step of the poll
loop, outlive an interrupted session and reach into the next. In `pipeline_live` no
source has ten recent events, so that whatever the loop does it must do on intelligence;
in `pipeline_faults` both causes occur. Two callers give every interleaving of a block
with an unblock; four calls let an unblock repeat after two blocks. One edit between two
channels, or between two dispatches of an alert, gives a tenant two documents with
different rules. Two buckets lowering one weight in three retrains reach the floor. Two
operators' calls give every overlap of a stale write-back with another call; two alerts
of two tenants tell one tenant's document from the other's. Two rebuilds overlap in
every way, and one change of the window falls between any two of their searches. A chain
of three steps has a step before, at and after a block, and a technique with two tests
on two hosts meets every pair of outcomes. Three days hold a run of two, and two days
with a gap; hours 23 and 3 lie on the two sides of midnight from 0; three users of a
department give a user and two peers whose searches fail apart, one of them with
namesakes; two systems listed of three give a cut. Windows of one and of three
intervals, with delays of up to one interval, give events that are seen once,
repeatedly, late and never.

`CHECK_DEADLOCK FALSE` stands only where a run really ends: at the bound on calls,
retrains, hours or signals, or because the process was killed or its report is written.

Runs that TLC finds violated, each a sentence of the repository the code contradicts:

| Run | Sentence | What happens |
|---|---|---|
| `notification_settings` | `notification_config_api.py:13-14` the settings are merged into the document | the write to the family "config" raises before the one that would store them |
| `yaml_hunts` | `hunt_insider_credential_hoarding.yml:3-5` the insider files are NOT loaded by the YAML loader | `load_hunt_playbooks` reads every `*.yml` of the directory (`hunt_loader.py:82-87`), so a file without its required fields makes every request fail |
| `hunt_score` | `response_agent.py:144-148` (and `hunting_agent.py:427-434`, `triage_agent.py:17-22` and `685-689`) a hunt's 85 is preserved and clears the response threshold on its own merits | `AgentState` (`state.py:33-51`) does not declare `_pre_scored`; the graph drops it and triage replaces the score, with 75 when the source has fewer than ten recent events |
| `dispatch` | `webhook_engine.py:12-14` and `350` never raises; one channel failing never blocks the others | `cfg.get` is outside any `try`; a channel configuration that is not an object, which the settings endpoint does not refuse, raises and ends the dispatch |
| `exploitable` | `redteam_simulator.py:124-126` and `172-174` 'exploitable' means the technique executed without a detection | the second pass (`112-114`, `160-162`) asks the SIEM about tests that failed or never ran as well, and finds nothing |

`exploitable` needs a reviewed test for T1110 or T1059; the shipped allowlist has none, so
it shows as soon as one is approved. `ClaimsHaveGrounds` is therefore stated of lateral
movement, of discovery and of whole chains, and says nothing of those two techniques.

More disagreements, seen in the code while it was modelled, have no run:

* `pipeline_runner.py:38-40` promises every new alert a run; `SkipHasCause` names the
  exceptions, among them alerts that share their timestamp with the last of a full page.
* `confidence_scorer.py:64-66` says that a user without a profile scores 0;
  `NoProfileScore` proves that he scores 40 as soon as the alert names an address and a
  command.
* `pipeline_runner.py:545-549` says that a hunt will trigger a notification; the synthetic
  alert is never indexed, so no notice is sent for it.
* `feedback_loop.py:166-167` gives the defaults only when no weights are stored; a failed
  search (177-178) gives them too.

Fairness: `AlertPipeline!FairSpec` asks weak fairness of the poll loop's steps as one
group and of the hunt thread's steps as another: each is a sequential thread, so a thread
that can move does. `AttackChain!FairSpec` asks it of the process running a chain
(`Proceed`), and `Hunts!FairSpec` of a cycle and of a request once begun, whose loops go
over finite lists. Calls to the index, the tracker, the webhooks and over SSH have
time-outs. The calls to the language model have none (`triage_agent.py:318-322`, the
summaries of hunts, `redteam_reporter.py:65`): that each answers or fails is an assumption,
and a model that never answers stops its thread, in the code as here. Alerts, hunts,
crashes, kills and restarts are not obliged to happen. The other modules state no liveness
and are checked without fairness.

## Proofs

All by TLAPS, for every value of the constants under the named assumptions of the
modules (which TLC evaluates in each run).

* `ConfidenceScoringProofs`: the score is a percentage; tier and route agree on all
  percentages; ten events or strong intelligence decide whether response acts; further
  signals never lower the score; the severities of tickets and notices fit the decision.
  Of the lattice of `ScoringLattice` the same is a property of its behaviours:
  `EvidenceNeverHurts`, `RoutingAgreesWithTier`, `ThresholdsFit`, by the invariant that
  whatever signals have arrived make a well-formed document.
* `AlertPipelineProofs`: every safety property of the pipeline, and that it counts down.
  `TypeCorrect`, `RunOncePerSession`, `VerdictStays` and `RefinesLedger` rest on one
  inductive invariant, `IInv`. The type invariant alone is not inductive (a step's place
  in the thread decides which fields of `run` are set), so `StepsOK` relates the program
  counter to `run`. `OncePerSession` needs in addition that everything run in this
  session lies at or behind the cursor or in hand, hence is neither in the page nor
  eligible again, and that the count is 1 for what this session has run and 0 for the
  rest (`RunsCounted`). The refinement needs that decisions of the current round are of
  alerts in hand or behind the cursor, and that what the poll thread holds is undecided
  before `Respond` and decided, open and of the latest round from there to the
  write-back. TLC checked the invariant before it was proved. The other three theorems
  each add to `IInv` what is in hand while the property is at stake. `NoticesAreTrue`:
  past the write-back the document has the verdict or, where that may fail, is open; a
  verdict is only written on an open document, by a poll loop that has decided it, and
  of this session no message about the alert in hand was sent before.
  `ActionsHaveEvidence`: a poll loop that may act has intel of its own alert or ten
  events, because triage replaces the score (`_pre_scored` is not a channel of the
  graph) and `TenEventsOrIntel` says when the new one is enough. `SkipsHaveCauses`: the
  page waits at or ahead of the cursor and of the alert in hand, so whatever the cursor
  passes is of the page, or tied with it, late or too old. `PromisesAreKept` draws from
  the refinement alone what `AlertLedger` is for: one decision per alert and session, no
  action or message without it, no verdict that was not decided. `PagesCountDown`: a
  page is worked off in at most ten steps of the poll loop per alert, whatever fails and
  whatever the hunt thread does; that only finitely many alerts are indexed is part of
  the invariant, not an assumption.
* `ResponseActionsProofs`: types and `RulesMatchCalls`, which is inductive given the
  types: each action moves one unit between queued, in force and removed.
  `UnblockIsBounded` and `LoggedTicketsExist` are not inductive: they speak of what is
  done, and need what is under way. The invariant adds the number of attempts the running
  unblocks still have (`Open`), and of successful tickets still to be logged (`Pending`),
  as cardinalities: a removal spends an attempt, an entry logged was pending.
* `FeedbackLoopProofs`: types and `RetrainIsGradual`, by the invariant that every entry
  written or about to be written is sound and that a latest entry exists (the weight
  search is a `CHOOSE` that would otherwise be unconstrained); the arithmetic is a lemma
  about one bucket, applied three times. `BlameHasEvidence` needs an invariant that
  outlives the retrain: for each lowered weight in an entry, written or not, and each
  other factor there is a recorded false positive in which the lowered one was at least
  as strong. Verdicts only grow, so an entry that had evidence keeps it. At the step
  that averages, the evidence comes from a lemma on sums: if one factor's sum over the
  bucket is no less than another's, some verdict of the bucket has it no less.
* `NotificationsProofs`: types, `OneDocumentPerNotice`, `OffboardingSticks` and
  `FailuresStayApart`. The
  invariant says that a call about to write a document back has read one, that every
  tenant's document is among those it has had, and that a dispatch under way has
  tried and will try only what one document asks for, attempts being told apart by their
  dispatch. The registry's steps are proved
  once, as lemmas about the registry alone, and used for all theorems. For
  `FailuresStayApart`, every channel that matches is tried or still to be until the dispatch
  ends, by itself or at a configuration that is not an object.
* `UebaProfilesProofs`: the anomaly score is a percentage; types;
  `SilenceIsNoEvidence`, `LaterRebuildPrevails`, `BaselinesAreCurrent` and
  `HabitsAreNotAnomalies`. The invariant says of every draft
  and document that a coverage note the scorer trusts comes with addresses, that a
  failed rebuild has no risk score, and that the stamp is the time the rebuild began;
  and that the index, unless empty, has a latest document. `HabitsAreNotAnomalies` adds
  that a document has the hours of the logins it was made from and, when the search can
  list them all, their addresses; it needs the usual addresses to be no more than those
  listed (`TopIps <= IpBuckets`, 5 and 10 in the code).
* `AttackChainProofs`: types, `NothingUnreviewed`, `ResidueIsOnRecord`,
  `ClaimsHaveGrounds` (from its two parts), `NoTestAfterBlock`, `BlastOnlySharpens` and
  the refinement of `KillChain`. The invariant ties the phase of the simulator to that of
  the chain, says that what is being run is a reviewed test on a host of its list, that
  it was announced to the log and leaves nothing once its cleanup is verified, and that
  an "exploitable" entry came from a live run of a technique that can be exploited.
  `RunGoesForward` says that each step takes the run forward in a bounded lexicographic
  order (link of the chain, phase, test), so nothing is repeated. `ReportsAreSound` draws
  from the refinement which entries are halted and when full exploitation is claimed.
* `HuntsProofs`: types, `RecordIsTrue`, `RepeatsAreBounded`, `NoTimelyEventIsLost` and
  `RequestIsFaithful` (from its three parts). The bound on repeats is not inductive: the
  invariant of `HuntWindows` says that the n-th escalation of an event lies at least n −
  1 intervals after it, so the window closes on them, and that the next cycle is due no
  later than an interval after an event came into the index unless one failed or was
  missed. The invariant of `YamlHunts` says that the records so far are those of the
  playbooks before the one at hand, each with grounds, and that a record's escalation
  was made, has failed, is the next step or, under a threshold of 0, has no finding to
  escalate; nothing is assumed of the thresholds. That of `InsiderHunts` says that the
  record tells whether there is something to escalate, and that what was tried was to
  be. `WrongFindingHasCause` is proved detection by detection: what it flags is compared
  with the hypothesis of the hunt said of the facts (`Threat`). A failed search lowers
  what is counted and a namesake raises it; since an average is monotone in its terms,
  each can accuse on one side of the comparison and clear on the other, and each
  detection needs only the causes of its side. Without a profile every system is new,
  and a login near midnight is far from the usual hours only by the code's distance;
  that the loop over shifted days finds exactly the runs of k consecutive days is
  `LongestRunFound`. It assumes that the systems agents log in to are finitely many
  (`InsiderAssumption`). `CyclesCountDown`: a cycle takes at most 8n + 8 steps for n
  users and a YAML request at most 5n for n playbooks, whatever fails.

Sums over sets and runs of days are defined by recursive functions. What they compute is
proved with the least-number principle on sets of naturals and induction on the
cardinality of finite sets, stated of one set at a time, since the induction theorems of the
library take an operator as their parameter. `FeedbackLoopProofs` and `HuntsProofs` each
hold the lemmas on their own sum: the two specifications share no module, and names of
theirs clash.

Only model-checked are the liveness properties `TimelyAlertIsRun`, `PageIsWorkedOff`,
`EveryCycleEnds` and `RunEnds`: fairness and ENABLED are out of the prover's reach. The
half of them that needs no fairness is proved: `PagesCountDown`, `CyclesCountDown` and
`RunGoesForward` bound the steps that are left, so what remains for TLC is that the next
of these steps is always enabled until the work is done.

## Plan: what is left

The modules of the first plan are done: the core, tenants and notifications, UEBA, red
team with its abstract chain, hunts. Left, in this order:

1. A composition of `AlertPipeline` with `ResponseActions` through the shared firewall,
   with duplicates across restarts and threads.
2. `ThreatIntelFeed` (feed pulls and the ageing of indicators) and `ApiAccess` (roles and
   token lifetimes).

## Not modelled, and why

The wording of prompts, notes, summaries, tickets and reports, since no step reads
them; the dashboard, SIGMA rules and agent configuration, which are static; the
language model, which may answer anything; Elasticsearch itself, taken as a store
whose writes are visible at once and whose calls fail. A component's
"partly" names in `PROJECT.json` what is left out of it; the plan has what is to come.
Within the modules: the criticality score of a blast radius and the write of its result;
the audit indices of the red team and `siem-hunt-results`, which are written and never
read by these programs; the baseline tags of YAML hunts, which change no decision; host
profiles, which no scorer reads.
