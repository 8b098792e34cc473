----------------------------- MODULE FeedbackLoop -----------------------------
(***************************************************************************)
(* The analyst feedback loop: verdicts recorded against alerts, and the    *)
(* retraining that lowers a confidence weight when too many alerts of a    *)
(* confidence bucket were false positives.                                 *)
(*                                                                         *)
(* Covered: verdicts arriving while a retrain is under way, lookups,       *)
(* searches and writes that fail (each has a fallback and none raises),    *)
(* and retrainers run side by side (--schedule and --once).                *)
(*                                                                         *)
(* Differences from the code: weights are hundredths; a retrain reads the  *)
(* weights and stamps its entry in one step; verdicts are ordered as they  *)
(* are written; a document is searchable once written.                     *)
(***************************************************************************)
EXTENDS FiniteSetsExt, Sequences

CONSTANTS
    Retrainers,   \* processes running retrain_weights
    Submissions,  \* what analysts may submit
    SampleSize,   \* RETRAIN_SAMPLE_SIZE
    Unreliable,   \* the calls that may fail
    MaxVerdicts,  \* bound on recorded verdicts
    MaxRetrains   \* bound on retrains

Factors == {"rule_severity", "anomaly", "time_factor"}
Inputs == [Factors -> 0..100]

\* A confidence_at_triage left out; {n} is one of n.
NotStated == {}

ASSUME SubmissionAssumption ==
    Submissions \subseteq [verdict: {"tp", "fp", "needs_review"},
                           stated: SUBSET Int, inputs: Inputs]
ASSUME SampleAssumption == SampleSize \in Nat \ {0}
ASSUME FailureAssumption == Unreliable \subseteq {"lookup", "verdicts", "weights", "write"}
ASSUME LimitAssumption == MaxVerdicts \in Nat /\ MaxRetrains \in Nat

DefaultWeights == [rule_severity |-> 40, anomaly |-> 35, time_factor |-> 25]
WeightStep == 5
MinWeight == 5

VARIABLES
    verdicts,  \* siem-analyst-verdicts
    history,   \* siem-weight-history
    stamps,    \* retrains stamped so far
    stage,     \* next step of each retrainer
    sample,    \* the verdicts it has read
    entry      \* the history entry it is about to write

feedback == <<verdicts, history, stamps, stage, sample, entry>>

NoEntry == [at |-> 0, old |-> DefaultWeights, new |-> DefaultWeights]

FeedbackInit ==
    /\ verdicts = <<>> /\ history = {} /\ stamps = 0
    /\ stage = [r \in Retrainers |-> "idle"]
    /\ sample = [r \in Retrainers |-> <<>>]
    /\ entry = [r \in Retrainers |-> NoEntry]

------------------------------------------------------------------------------
(* record_verdict *)

\* Buckets 1 to 3; 0 is "unknown".
Bucket(pct) == CASE pct \in 0..39   -> 1
                 [] pct \in 40..69  -> 2
                 [] pct \in 70..100 -> 3
                 [] OTHER           -> 0

NoInputs == [f \in Factors |-> 0]

Lookups(inputs) == {inputs} \cup (IF "lookup" \in Unreliable THEN {NoInputs} ELSE {})

Confidence(stated, inputs) ==
    LET total == MapThenSumSet(LAMBDA f : inputs[f], Factors)
    IN  IF stated # NotStated THEN CHOOSE n \in stated : TRUE
        ELSE IF total > 100 THEN 100 ELSE total

Record(s) ==
    /\ Len(verdicts) < MaxVerdicts
    /\ \E inputs \in Lookups(s.inputs) :
         verdicts' = Append(verdicts,
                       [verdict |-> s.verdict, inputs |-> inputs,
                        bucket |-> Bucket(Confidence(s.stated, inputs))])
    /\ UNCHANGED <<history, stamps, stage, sample, entry>>

------------------------------------------------------------------------------
(* retrain_weights *)

Recent == SubSeq(verdicts, IF Len(verdicts) > SampleSize
                           THEN Len(verdicts) - SampleSize + 1 ELSE 1,
                 Len(verdicts))

InBucket(vs, b) == {i \in DOMAIN vs : vs[i].bucket = b}
FalsePositives(vs, b) == {i \in InBucket(vs, b) : vs[i].verdict = "fp"}

TotalInput(vs, S, f) == MapThenSumSet(LAMBDA i : vs[i].inputs[f], S)

\* The factor with the highest total, hence average; of equals the first.
Strongest(vs, S) ==
    LET leads(f) == \A g \in Factors : TotalInput(vs, S, f) >= TotalInput(vs, S, g)
    IN  IF leads("rule_severity") THEN "rule_severity"
        ELSE IF leads("anomaly") THEN "anomaly" ELSE "time_factor"

\* Mutant: the factor is chosen over all verdicts of the bucket.
DominantOfAll(vs, b) == Strongest(vs, InBucket(vs, b))

Dominant(vs, b) == Strongest(vs, FalsePositives(vs, b))

TooManyFalse(vs, b) ==
    10 * Cardinality(FalsePositives(vs, b)) > 3 * Cardinality(InBucket(vs, b))

\* Mutant: a step up.
Raised(weight) == weight + WeightStep

Lowered(weight) ==
    IF weight - WeightStep < MinWeight THEN MinWeight ELSE weight - WeightStep

Adjust(weights, vs, b) ==
    IF TooManyFalse(vs, b)
    THEN [weights EXCEPT ![Dominant(vs, b)] = Lowered(@)] ELSE weights

\* The buckets in order; two of them may lower the same weight.
NewWeights(weights, vs) == Adjust(Adjust(Adjust(weights, vs, 1), vs, 2), vs, 3)

Latest == CHOOSE e \in history : \A d \in history : d.at <= e.at

StoredWeights == IF history = {} THEN DefaultWeights ELSE Latest.new

ReadVerdicts(r) ==
    /\ stage[r] = "idle" /\ stamps < MaxRetrains
    /\ \E vs \in {Recent} \cup (IF "verdicts" \in Unreliable THEN {<<>>} ELSE {}) :
         sample' = [sample EXCEPT ![r] = vs]
    /\ stage' = [stage EXCEPT ![r] = "weights"]
    /\ UNCHANGED <<verdicts, history, stamps, entry>>

ReadWeights(r) ==
    /\ stage[r] = "weights"
    /\ \E old \in {StoredWeights} \cup
                  (IF "weights" \in Unreliable THEN {DefaultWeights} ELSE {}) :
         entry' = [entry EXCEPT ![r] =
                     [at |-> stamps + 1, old |-> old,
                      new |-> NewWeights(old, sample[r])]]
    /\ stamps' = stamps + 1
    /\ stage' = [stage EXCEPT ![r] = "write"]
    /\ UNCHANGED <<verdicts, history, sample>>

WriteEntry(r) ==
    /\ stage[r] = "write"
    /\ \/ history' = history \cup {entry[r]}
       \/ "write" \in Unreliable /\ UNCHANGED history
    /\ stage' = [stage EXCEPT ![r] = "idle"]
    /\ sample' = [sample EXCEPT ![r] = <<>>]
    /\ entry' = [entry EXCEPT ![r] = NoEntry]
    /\ UNCHANGED <<verdicts, stamps>>

------------------------------------------------------------------------------
FeedbackNext ==
    \/ \E s \in Submissions : Record(s)
    \/ \E r \in Retrainers : ReadVerdicts(r) \/ ReadWeights(r) \/ WriteEntry(r)

FeedbackSpec == FeedbackInit /\ [][FeedbackNext]_feedback
------------------------------------------------------------------------------
(* Properties *)

Weights == [Factors -> 0..100]
Entries == [at: Nat, old: Weights, new: Weights]
VerdictDocs == [verdict: {"tp", "fp", "needs_review"}, inputs: Inputs, bucket: 0..3]

FeedbackTypeOK ==
    /\ verdicts \in Seq(VerdictDocs)
    /\ history \subseteq Entries
    /\ stamps \in Nat
    /\ stage \in [Retrainers -> {"idle", "weights", "write"}]
    /\ sample \in [Retrainers -> Seq(VerdictDocs)]
    /\ entry \in [Retrainers -> Entries]

(* A retrain raises no weight, takes no more than one step per bucket from *)
(* one, and however many retrains run, and whatever base a failed search   *)
(* or another retrainer left them, none leaves the floor..default range.   *)
Gradual(e) ==
    \A f \in Factors :
        /\ MinWeight <= e.new[f] /\ e.new[f] <= e.old[f]
        /\ e.old[f] <= DefaultWeights[f]
        /\ e.old[f] - e.new[f] <= 3 * WeightStep

RetrainIsGradual == \A e \in history : Gradual(e)

(* A weight is only lowered for a false positive in which its factor was   *)
(* at least as strong as whichever other factor one compares it with.      *)
BlameHasEvidence ==
    \A e \in history : \A f \in Factors, g \in Factors :
        e.new[f] < e.old[f] =>
          \E i \in DOMAIN verdicts :
            /\ verdicts[i].verdict = "fp" /\ verdicts[i].bucket # 0
            /\ verdicts[i].inputs[f] >= verdicts[i].inputs[g]
==============================================================================
