-------------------------- MODULE FeedbackLoopProofs --------------------------
(* Retraining keeps every weight within its floor and its default, and      *)
(* lowers none without a false positive that speaks for it, for any number  *)
(* of retrainers, failures, verdicts and sample sizes.                      *)
EXTENDS FeedbackLoop, SequenceTheorems, FiniteSetTheorems, TLAPS

\* Weights a retrain may start from.
InRange(w) ==
    /\ w \in Weights
    /\ \A f \in Factors : MinWeight <= w[f] /\ w[f] <= DefaultWeights[f]

\* v comes from w by at most n steps down on each factor.
StepsDown(w, v, n) ==
    \A f \in Factors : v[f] <= w[f] /\ w[f] - v[f] <= n * WeightStep

SoundEntry(e) == e \in Entries /\ InRange(e.old) /\ InRange(e.new)
                 /\ StepsDown(e.old, e.new, 3)

\* There is a latest entry: the search for it is well defined.
HasLatest == history # {} => \E e \in history : \A d \in history : d.at <= e.at

(* The invariant: what is written and what is about to be written is sound. *)
IInv ==
    /\ FeedbackTypeOK
    /\ \A e \in history : SoundEntry(e)
    /\ HasLatest
    /\ \A r \in Retrainers : SoundEntry(entry[r])

------------------------------------------------------------------------------
(* The defaults are in their own range. *)
LEMMA DefaultsInRange == InRange(DefaultWeights)
BY SMT DEF InRange, Weights, Factors, DefaultWeights, MinWeight

LEMMA NoEntryIsSound == SoundEntry(NoEntry)
BY DefaultsInRange, SMT
   DEF SoundEntry, NoEntry, Entries, StepsDown, InRange, Weights, WeightStep

(* One bucket lowers at most one weight, by at most one step, to no less    *)
(* than the floor.                                                          *)
LEMMA AdjustOnce ==
    ASSUME NEW w, InRange(w), NEW vs, NEW b
    PROVE  InRange(Adjust(w, vs, b)) /\ StepsDown(w, Adjust(w, vs, b), 1)
<1> DEFINE d == Dominant(vs, b)
<1>1. d \in Factors
  BY DEF Dominant, Strongest, Factors
<1>2. CASE TooManyFalse(vs, b)
  <2>1. Adjust(w, vs, b) = [w EXCEPT ![d] = Lowered(w[d])]
    BY <1>2 DEF Adjust
  <2>2. \A f \in Factors : w[f] \in 0..100 /\ DefaultWeights[f] \in 0..100
    BY DefaultsInRange DEF InRange, Weights
  <2>3. /\ Lowered(w[d]) \in 0..100
        /\ MinWeight <= Lowered(w[d]) /\ Lowered(w[d]) <= w[d]
        /\ w[d] - Lowered(w[d]) <= WeightStep
    BY <1>1, <2>2, SMT DEF Lowered, InRange, MinWeight, WeightStep
  <2> HIDE DEF d
  <2> QED BY <1>1, <2>1, <2>2, <2>3, SMT
             DEF InRange, StepsDown, Weights, WeightStep
<1>3. CASE ~TooManyFalse(vs, b)
  BY <1>3, SMT DEF Adjust, InRange, StepsDown, Weights, WeightStep
<1> QED BY <1>2, <1>3

(* The three buckets together: three steps at most. *)
LEMMA NewWeightsSound ==
    ASSUME NEW w, InRange(w), NEW vs
    PROVE  InRange(NewWeights(w, vs)) /\ StepsDown(w, NewWeights(w, vs), 3)
<1> DEFINE w1 == Adjust(w, vs, 1)
           w2 == Adjust(w1, vs, 2)
           w3 == Adjust(w2, vs, 3)
<1>1. InRange(w1) /\ StepsDown(w, w1, 1)
  BY AdjustOnce
<1>2. InRange(w2) /\ StepsDown(w1, w2, 1)
  BY <1>1, AdjustOnce
<1>3. InRange(w3) /\ StepsDown(w2, w3, 1)
  BY <1>2, AdjustOnce
<1>4. NewWeights(w, vs) = w3
  BY DEF NewWeights
<1> HIDE DEF w1, w2, w3
<1>5. ASSUME NEW f \in Factors
      PROVE  w3[f] <= w[f] /\ w[f] - w3[f] <= 3 * WeightStep
  <2>1. w[f] \in Int /\ w1[f] \in Int /\ w2[f] \in Int /\ w3[f] \in Int
    BY <1>1, <1>2, <1>3 DEF InRange, Weights
  <2>2. /\ w1[f] <= w[f] /\ w[f] - w1[f] <= 5
        /\ w2[f] <= w1[f] /\ w1[f] - w2[f] <= 5
        /\ w3[f] <= w2[f] /\ w2[f] - w3[f] <= 5
    BY <1>1, <1>2, <1>3, SMT DEF StepsDown, WeightStep
  <2> QED BY <2>1, <2>2, SMT DEF WeightStep
<1>6. StepsDown(w, w3, 3)
  BY <1>5 DEF StepsDown
<1> QED BY <1>3, <1>4, <1>6

(* What a retrain reads is a sound entry's result or the defaults. *)
LEMMA StoredInRange ==
    ASSUME IInv
    PROVE  InRange(StoredWeights)
<1>1. CASE history = {}
  BY <1>1, DefaultsInRange DEF StoredWeights
<1>2. CASE history # {}
  <2>1. Latest \in history
    BY <1>2 DEF IInv, HasLatest, Latest
  <2> QED BY <1>2, <2>1 DEF StoredWeights, IInv, SoundEntry
<1> QED BY <1>1, <1>2

(* What a verdict records has its type, whatever the lookup answers. *)
LEMMA RecordType ==
    ASSUME FeedbackTypeOK, NEW s \in Submissions, Record(s)
    PROVE  verdicts' \in Seq(VerdictDocs)
<1>1. s.verdict \in {"tp", "fp", "needs_review"} /\ s.inputs \in Inputs
  BY SubmissionAssumption
<1>2. PICK inputs \in Lookups(s.inputs) :
        verdicts' = Append(verdicts,
                      [verdict |-> s.verdict, inputs |-> inputs,
                       bucket |-> Bucket(Confidence(s.stated, inputs))])
  BY DEF Record
<1>3. inputs \in Inputs
  <2>1. NoInputs \in Inputs
    BY DEF NoInputs, Inputs
  <2>2. inputs = s.inputs \/ inputs = NoInputs
    BY <1>2 DEF Lookups
  <2> QED BY <1>1, <2>1, <2>2
<1>4. \A n : Bucket(n) \in 0..3
  BY DEF Bucket
<1> DEFINE doc == [verdict |-> s.verdict, inputs |-> inputs,
                   bucket |-> Bucket(Confidence(s.stated, inputs))]
<1>5. doc \in VerdictDocs
  BY <1>1, <1>3, <1>4 DEF VerdictDocs
<1> HIDE DEF doc
<1>6. verdicts' = Append(verdicts, doc)
  BY <1>2 DEF doc
<1> QED BY <1>5, <1>6 DEF FeedbackTypeOK

(* The latest verdicts, fewer than the sample size at the start. *)
LEMMA RecentType ==
    ASSUME FeedbackTypeOK
    PROVE  Recent \in Seq(VerdictDocs)
<1>1. verdicts \in Seq(VerdictDocs) /\ Len(verdicts) \in Nat
  BY DEF FeedbackTypeOK
<1> DEFINE first == IF Len(verdicts) > SampleSize THEN Len(verdicts) - SampleSize + 1 ELSE 1
<1>2. first \in 1..(Len(verdicts) + 1)
  BY <1>1, SampleAssumption
<1>3. Recent = SubSeq(verdicts, first, Len(verdicts))
  BY DEF Recent
<1> HIDE DEF first
<1>4. first \in Int /\ Len(verdicts) \in Int /\ \A i \in first..Len(verdicts) : verdicts[i] \in VerdictDocs
  BY <1>1, <1>2
<1> QED BY <1>3, <1>4, SubSeqProperties, Zenon

------------------------------------------------------------------------------
LEMMA InvInitially == FeedbackInit => IInv
<1> SUFFICES ASSUME FeedbackInit PROVE IInv
  OBVIOUS
<1>1. FeedbackTypeOK /\ \A r \in Retrainers : SoundEntry(entry[r])
  BY NoEntryIsSound DEF FeedbackInit, FeedbackTypeOK, SoundEntry
<1> QED BY <1>1 DEF FeedbackInit, IInv, HasLatest

LEMMA InvStep == IInv /\ [FeedbackNext]_feedback => IInv'
<1> SUFFICES ASSUME IInv, [FeedbackNext]_feedback PROVE IInv'
  OBVIOUS
<1>1. ASSUME NEW s \in Submissions, Record(s) PROVE IInv'
  BY <1>1, RecordType DEF Record, IInv, HasLatest, FeedbackTypeOK
<1>2. ASSUME NEW r \in Retrainers, ReadVerdicts(r) PROVE IInv'
  <2>1. \A vs : vs = <<>> => vs \in Seq(VerdictDocs)
    OBVIOUS
  <2>2. PICK vs \in Seq(VerdictDocs) : sample' = [sample EXCEPT ![r] = vs]
    BY <1>2, <2>1, RecentType DEF ReadVerdicts, IInv
  <2>3. stage' = [stage EXCEPT ![r] = "weights"] /\ UNCHANGED <<verdicts, history, stamps, entry>>
    BY <1>2 DEF ReadVerdicts
  <2>4. FeedbackTypeOK'
    BY <2>2, <2>3 DEF FeedbackTypeOK, IInv
  <2> QED BY <2>3, <2>4 DEF IInv, HasLatest
<1>3. ASSUME NEW r \in Retrainers, ReadWeights(r) PROVE IInv'
  <2>1. PICK old : /\ InRange(old)
                   /\ entry' = [entry EXCEPT ![r] =
                        [at |-> stamps + 1, old |-> old,
                         new |-> NewWeights(old, sample[r])]]
    BY <1>3, StoredInRange, DefaultsInRange DEF ReadWeights
  <2> DEFINE e == [at |-> stamps + 1, old |-> old, new |-> NewWeights(old, sample[r])]
  <2>2. InRange(NewWeights(old, sample[r])) /\ StepsDown(old, NewWeights(old, sample[r]), 3)
    BY <2>1, NewWeightsSound
  <2>3. /\ stamps' \in Nat /\ stage' = [stage EXCEPT ![r] = "write"]
        /\ UNCHANGED <<verdicts, history, sample>>
    BY <1>3 DEF ReadWeights, IInv, FeedbackTypeOK
  <2>4. SoundEntry(e)
    BY <2>1, <2>2 DEF SoundEntry, Entries, InRange, IInv, FeedbackTypeOK
  <2>5. e \in Entries
    BY <2>4 DEF SoundEntry
  <2> HIDE DEF e
  <2>6. entry' = [entry EXCEPT ![r] = e]
    BY <2>1 DEF e
  <2>7. FeedbackTypeOK'
    BY <2>3, <2>5, <2>6 DEF FeedbackTypeOK, IInv
  <2> QED BY <2>3, <2>4, <2>6, <2>7 DEF IInv, HasLatest, FeedbackTypeOK
<1>4. ASSUME NEW r \in Retrainers, WriteEntry(r) PROVE IInv'
  <2>1. /\ entry' = [entry EXCEPT ![r] = NoEntry] /\ sample' = [sample EXCEPT ![r] = <<>>]
        /\ stage' = [stage EXCEPT ![r] = "idle"] /\ UNCHANGED <<verdicts, stamps>>
    BY <1>4 DEF WriteEntry
  <2>2. entry' \in [Retrainers -> Entries] /\ \A q \in Retrainers : SoundEntry(entry'[q])
    BY <2>1, NoEntryIsSound DEF IInv, FeedbackTypeOK, SoundEntry
  <2>3. history' = history \/ history' = history \cup {entry[r]}
    BY <1>4 DEF WriteEntry
  <2>4. \A e \in history' : SoundEntry(e)
    BY <2>3 DEF IInv
  <2>t. FeedbackTypeOK'
    <3>1. sample' \in [Retrainers -> Seq(VerdictDocs)] /\ stage' \in [Retrainers -> {"idle", "weights", "write"}]
      BY <2>1 DEF IInv, FeedbackTypeOK
    <3>2. history' \subseteq Entries
      BY <2>4 DEF SoundEntry
    <3> QED BY <2>1, <2>2, <3>1, <3>2 DEF IInv, FeedbackTypeOK
  <2>5. CASE history' = history \cup {entry[r]} /\ history # {}
    <3>1. PICK top \in history : \A d \in history : d.at <= top.at
      BY <2>5 DEF IInv, HasLatest
    <3>2. \A d \in history' : d.at \in Nat
      BY <2>4 DEF SoundEntry, Entries
    <3>3. ASSUME top.at <= entry[r].at PROVE HasLatest'
      <4>1. \A d \in history' : d.at <= entry[r].at
        BY <2>5, <3>1, <3>2, <3>3, SMT
      <4>2. entry[r] \in history'
        BY <2>5
      <4> QED BY <4>1, <4>2 DEF HasLatest
    <3>4. ASSUME ~(top.at <= entry[r].at) PROVE HasLatest'
      <4>1. \A d \in history' : d.at <= top.at
        BY <2>5, <3>1, <3>2, <3>4, SMT
      <4>2. top \in history'
        BY <2>5
      <4> QED BY <4>1, <4>2 DEF HasLatest
    <3>5. HasLatest'
      BY <3>3, <3>4
    <3> QED BY <2>2, <2>4, <2>t, <3>5 DEF IInv
  <2>6. CASE history' = history \cup {entry[r]} /\ history = {}
    <3>1. history' = {entry[r]} /\ entry[r].at \in Nat
      BY <2>6 DEF IInv, SoundEntry, Entries
    <3>2. HasLatest'
      BY <3>1, SMT DEF HasLatest
    <3> QED BY <2>2, <2>4, <2>t, <3>2 DEF IInv
  <2>7. CASE history' = history
    BY <2>2, <2>4, <2>7, <2>t DEF IInv, HasLatest
  <2> QED BY <2>3, <2>5, <2>6, <2>7
<1>5. CASE UNCHANGED feedback
  BY <1>5 DEF feedback, IInv, HasLatest, FeedbackTypeOK
<1> QED BY <1>1, <1>2, <1>3, <1>4, <1>5 DEF FeedbackNext

(* Verdicts, history and retrainers keep the shapes record_verdict and      *)
(* retrain_weights give them.                                               *)
THEOREM TypeCorrect == FeedbackSpec => []FeedbackTypeOK
<1>1. IInv => FeedbackTypeOK
  BY DEF IInv
<1> QED BY InvInitially, InvStep, <1>1, PTL DEF FeedbackSpec

(* Retraining is gradual and stays in range, whatever the sample size, the  *)
(* number of retrainers and the calls that fail.                            *)
THEOREM RetrainingIsGradual == FeedbackSpec => []RetrainIsGradual
<1>1. IInv => RetrainIsGradual
  BY DEF IInv, RetrainIsGradual, SoundEntry, InRange, StepsDown, Gradual
<1> QED BY InvInitially, InvStep, <1>1, PTL DEF FeedbackSpec

------------------------------------------------------------------------------
(* Sums over finite sets.                                                   *)

Pick(s) == CHOOSE x \in s : TRUE
SumOver(a, S) == MapThenSumSet(LAMBDA i : a[i], S)
IsSum(g, a, D) ==
    g = [s \in SUBSET D |-> IF s = {} THEN 0 ELSE a[Pick(s)] + g[s \ {Pick(s)}]]

(* Every non-empty set of naturals has a least element. *)
LEMMA Least ==
    ASSUME NEW T \in SUBSET Nat, T # {}
    PROVE  \E x \in T : \A y \in T : x <= y
<1>1. PICK x \in T : \A y \in T : ~ (<<y, x>> \in OpToRel(<, Nat))
  BY NatLessThanWellFounded, WFMin
<1>2. \A y \in Nat : y < x => <<y, x>> \in OpToRel(<, Nat)
  BY DEF OpToRel
<1>3. \A y \in T : ~(y < x)
  BY <1>1, <1>2, Zenon
<1> QED BY <1>3

(* Induction, for sets of naturals. *)
LEMMA Induction ==
    ASSUME NEW T \in SUBSET Nat, 0 \in T, \A n \in T : n + 1 \in T
    PROVE  T = Nat
<1>1. SUFFICES ASSUME Nat \ T # {} PROVE FALSE
  OBVIOUS
<1>2. PICK n \in Nat \ T : \A m \in Nat \ T : n <= m
  BY <1>1, Least
<1>3. n - 1 \in T /\ (n - 1) + 1 = n
  BY <1>2
<1> QED BY <1>2, <1>3

(* What is left when the sum has taken its next element out. *)
LEMMA OneLess ==
    ASSUME NEW D, IsFiniteSet(D), NEW s \in SUBSET D, s # {}
    PROVE  /\ Pick(s) \in s /\ s \ {Pick(s)} \in SUBSET D
           /\ Cardinality(s) \in Nat /\ Cardinality(s \ {Pick(s)}) = Cardinality(s) - 1
           /\ Cardinality(s) # 0
<1>1. Pick(s) \in s
  BY DEF Pick
<1>2. IsFiniteSet(s)
  BY FS_Subset
<1> QED BY <1>1, <1>2, FS_RemoveElement, FS_EmptySet, FS_CardinalityType

(* The recursion of a sum over a finite set is well defined. *)
LEMMA SumDefined ==
    ASSUME NEW a, NEW D, IsFiniteSet(D)
    PROVE  \E g : IsSum(g, a, D) /\ SumOver(a, D) = g[D]
<1> DEFINE Eq(g, s) == g[s] = IF s = {} THEN 0 ELSE a[Pick(s)] + g[s \ {Pick(s)}]
           T == {n \in Nat : \E g : /\ g = [s \in SUBSET D |-> g[s]]
                                  /\ \A s \in SUBSET D : Cardinality(s) <= n => Eq(g, s)}
<1>0. \A s \in SUBSET D : Cardinality(s) \in Nat /\ (Cardinality(s) = 0 <=> s = {})
  BY FS_Subset, FS_CardinalityType, FS_EmptySet
<1>1. 0 \in T
  <2> DEFINE g == [s \in SUBSET D |-> 0]
  <2>1. g = [s \in SUBSET D |-> g[s]] 
    OBVIOUS
  <2>2. \A s \in SUBSET D : Cardinality(s) <= 0 => s = {}
    BY <1>0
  <2>3. \A s \in SUBSET D : Cardinality(s) <= 0 => Eq(g, s)
    BY <2>2
  <2> QED BY <2>1, <2>3
<1>2. ASSUME NEW n \in T PROVE n + 1 \in T
  <2>1. PICK g : g = [s \in SUBSET D |-> g[s]] /\ \A s \in SUBSET D : Cardinality(s) <= n => Eq(g, s)
    BY <1>2
  <2> DEFINE h == [s \in SUBSET D |-> IF Cardinality(s) <= n THEN g[s] ELSE a[Pick(s)] + g[s \ {Pick(s)}]]
  <2>2. ASSUME NEW s \in SUBSET D, Cardinality(s) <= n + 1 PROVE Eq(h, s)
    <3>1. CASE s = {}
      <4>1. Cardinality(s) = 0 /\ Cardinality(s) <= n
        BY <3>1, <1>0
      <4> QED BY <3>1, <4>1, <2>1
    <3>2. CASE s # {}
      <4> DEFINE t == s \ {Pick(s)}
      <4>1. t \in SUBSET D /\ Cardinality(t) = Cardinality(s) - 1 /\ Cardinality(s) \in Nat
        BY <3>2, OneLess
      <4>2. Cardinality(t) <= n
        BY <4>1, <2>2
      <4>3. h[t] = g[t]
        BY <4>1, <4>2
      <4>4. CASE Cardinality(s) <= n
        <5>1. h[s] = g[s] /\ Eq(g, s)
          BY <4>4, <2>1
        <5> QED BY <5>1, <4>3, <3>2
      <4>5. CASE ~(Cardinality(s) <= n)
        <5>1. h[s] = a[Pick(s)] + g[t]
          BY <4>5
        <5> QED BY <5>1, <4>3, <3>2
      <4> QED BY <4>4, <4>5
    <3> QED BY <3>1, <3>2
  <2>3. h = [s \in SUBSET D |-> h[s]] 
    OBVIOUS
  <2> HIDE DEF h, Eq
  <2>4. n + 1 \in Nat /\ \A s \in SUBSET D : Cardinality(s) <= n + 1 => Eq(h, s)
    BY <2>2
  <2> QED BY <2>3, <2>4
<1>3. Cardinality(D) \in T
  <2>1. T = Nat
    <3> HIDE DEF T
    <3>1. T \in SUBSET Nat
      BY DEF T
    <3> QED BY <3>1, <1>1, <1>2, Induction
  <2> QED BY <2>1, FS_CardinalityType
<1>4. PICK g : g = [s \in SUBSET D |-> g[s]] /\ \A s \in SUBSET D : Cardinality(s) <= Cardinality(D) => Eq(g, s)
  BY <1>3
<1>5. \A s \in SUBSET D : Cardinality(s) <= Cardinality(D)
  BY FS_Subset
<1>6. \A s \in SUBSET D : g[s] = IF s = {} THEN 0 ELSE a[Pick(s)] + g[s \ {Pick(s)}]
  BY <1>4, <1>5
<1>7. IsSum(g, a, D)
  BY <1>4, <1>6 DEF IsSum
<1>8. SumOver(a, D) = (CHOOSE h : IsSum(h, a, D))[D]
  BY Zenon DEF SumOver, MapThenSumSet, MapThenFoldSet, IsSum, Pick
<1> QED BY <1>7, <1>8

(* A sum of smaller numbers is smaller. *)
LEMMA SumLess ==
    ASSUME NEW a, NEW b, NEW D, IsFiniteSet(D), D # {},
           \A i \in D : a[i] \in Int /\ b[i] \in Int /\ a[i] < b[i]
    PROVE  /\ SumOver(a, D) \in Int /\ SumOver(b, D) \in Int
           /\ SumOver(a, D) < SumOver(b, D)
<1>1. PICK g : IsSum(g, a, D) /\ SumOver(a, D) = g[D]
  BY SumDefined
<1>2. PICK h : IsSum(h, b, D) /\ SumOver(b, D) = h[D]
  BY SumDefined
<1> DEFINE Less(s) == /\ g[s] \in Int /\ h[s] \in Int /\ g[s] <= h[s]
                      /\ s # {} => g[s] < h[s]
           T == {n \in Nat : \A s \in SUBSET D : Cardinality(s) = n => Less(s)}
<1>3. \A s \in SUBSET D : /\ g[s] = IF s = {} THEN 0 ELSE a[Pick(s)] + g[s \ {Pick(s)}]
                          /\ h[s] = IF s = {} THEN 0 ELSE b[Pick(s)] + h[s \ {Pick(s)}]
  BY <1>1, <1>2 DEF IsSum
<1>4. 0 \in T
  <2>1. \A s \in SUBSET D : Cardinality(s) = 0 => s = {}
    BY FS_Subset, FS_EmptySet
  <2>2. {} \in SUBSET D /\ g[{}] = 0 /\ h[{}] = 0
    BY <1>3
  <2>3. Less({})
    BY <2>2
  <2> HIDE DEF Less
  <2> QED BY <2>1, <2>3
<1>5. ASSUME NEW n \in T PROVE n + 1 \in T
  <2>1. ASSUME NEW s \in SUBSET D, Cardinality(s) = n + 1 PROVE Less(s)
    <3>0. Cardinality({}) = 0 /\ n \in Nat
      BY FS_EmptySet
    <3>1. s # {}
      BY <2>1, <3>0
    <3> DEFINE p == Pick(s)
               t == s \ {p}
    <3>2. t \in SUBSET D /\ Cardinality(t) = n /\ p \in D
      BY <2>1, <3>0, <3>1, OneLess
    <3>3. Less(t)
      BY <3>2
    <3>4. a[p] \in Int /\ b[p] \in Int /\ a[p] < b[p]
      BY <3>2
    <3>5. g[s] = a[p] + g[t] /\ h[s] = b[p] + h[t]
      BY <1>3, <3>1
    <3> HIDE DEF p, t
    <3> QED BY <3>3, <3>4, <3>5
  <2>2. n + 1 \in Nat /\ \A s \in SUBSET D : Cardinality(s) = n + 1 => Less(s)
    BY <2>1
  <2> HIDE DEF Less
  <2> QED BY <2>2
<1>6. T = Nat
  <2>1. T \in SUBSET Nat
    OBVIOUS
  <2> HIDE DEF T
  <2> QED BY <2>1, <1>4, <1>5, Induction
<1>7. Less(D)
  BY <1>6, FS_CardinalityType
<1> QED BY <1>1, <1>2, <1>7

------------------------------------------------------------------------------
(* The blame for false positives.                                           *)

\* The evidence for lowering f rather than g.
Blames(v, f, g) == v.verdict = "fp" /\ v.bucket # 0 /\ v.inputs[f] >= v.inputs[g]
Evidence(vs, f, g) == \E i \in DOMAIN vs : Blames(vs[i], f, g)

(* The total of a factor is a sum over a function. *)
LEMMA TotalIsSum ==
    ASSUME NEW vs, NEW S, NEW f
    PROVE  TotalInput(vs, S, f) = SumOver([i \in S |-> vs[i].inputs[f]], S)
BY Zenon DEF TotalInput, SumOver, MapThenSumSet, MapThenFoldSet

(* A factor whose total is not behind is not behind in every one of them. *)
LEMMA NotBehindSomewhere ==
    ASSUME NEW vs, NEW S, IsFiniteSet(S), S # {}, NEW f, NEW g,
           \A i \in S : vs[i].inputs[f] \in Int /\ vs[i].inputs[g] \in Int
    PROVE  /\ TotalInput(vs, S, f) \in Int /\ TotalInput(vs, S, g) \in Int
           /\ TotalInput(vs, S, f) >= TotalInput(vs, S, g)
                => \E i \in S : vs[i].inputs[f] >= vs[i].inputs[g]
<1> DEFINE a == [i \in S |-> vs[i].inputs[f]]
           b == [i \in S |-> vs[i].inputs[g]]
           c == [i \in S |-> a[i] + 1]
           d == [i \in S |-> b[i] + 1]
<1>1. \A i \in S : a[i] \in Int /\ b[i] \in Int
  OBVIOUS
<1>2. \A i \in S : c[i] \in Int /\ a[i] < c[i] /\ d[i] \in Int /\ b[i] < d[i]
  BY <1>1
<1>3. TotalInput(vs, S, f) = SumOver(a, S) /\ TotalInput(vs, S, g) = SumOver(b, S)
  BY TotalIsSum
<1>4. (\A i \in S : a[i] < b[i]) \/ \E i \in S : vs[i].inputs[f] >= vs[i].inputs[g]
  OBVIOUS
<1> HIDE DEF a, b, c, d
<1>5. SumOver(a, S) \in Int /\ SumOver(b, S) \in Int
  BY <1>1, <1>2, SumLess
<1>6. (\A i \in S : a[i] < b[i]) => SumOver(a, S) < SumOver(b, S)
  BY <1>1, SumLess
<1> QED BY <1>3, <1>4, <1>5, <1>6

(* The strongest factor is behind no other one in all of the verdicts. *)
LEMMA StrongestHasEvidence ==
    ASSUME NEW vs, NEW S, IsFiniteSet(S), S # {}, NEW g \in Factors,
           \A i \in S : vs[i].inputs \in Inputs
    PROVE  \E i \in S : vs[i].inputs[Strongest(vs, S)] >= vs[i].inputs[g]
<1> DEFINE total(f) == TotalInput(vs, S, f)
<1>1. \A f \in Factors : \A i \in S : vs[i].inputs[f] \in Int
  BY DEF Inputs
<1>2. ASSUME NEW f \in Factors, NEW h \in Factors
      PROVE  /\ total(f) \in Int
             /\ total(f) >= total(h) => \E i \in S : vs[i].inputs[f] >= vs[i].inputs[h]
  <2>1. \A i \in S : vs[i].inputs[f] \in Int /\ vs[i].inputs[h] \in Int
    BY <1>1
  <2> QED BY <2>1, NotBehindSomewhere
<1>3. /\ total("rule_severity") \in Int /\ total("anomaly") \in Int
      /\ total("time_factor") \in Int
  BY <1>2 DEF Factors
<1> DEFINE s == Strongest(vs, S)
<1>4. s \in Factors /\ total(s) >= total(g)
  <2> HIDE DEF total
  <2>1. s = IF \A h \in Factors : total("rule_severity") >= total(h) THEN "rule_severity"
            ELSE IF \A h \in Factors : total("anomaly") >= total(h) THEN "anomaly"
            ELSE "time_factor"
    BY DEF Strongest, total
  <2> HIDE DEF s
  <2> QED BY <1>3, <2>1 DEF Factors
<1> HIDE DEF s, total
<1>5. \E i \in S : vs[i].inputs[s] >= vs[i].inputs[g]
  BY <1>2, <1>4
<1> QED BY <1>5 DEF s

(* A weight in its range is a number. *)
LEMMA WeightIsInt ==
    ASSUME NEW w, InRange(w), NEW f \in Factors
    PROVE  w[f] \in Int
<1>1. \A n \in 0..100 : n \in Int
  OBVIOUS
<1>2. w[f] \in 0..100
  BY Zenon DEF InRange, Weights
<1> QED BY <1>1, <1>2, Zenon

(* A bucket lowers a weight only on the evidence of its false positives. *)
LEMMA AdjustHasEvidence ==
    ASSUME NEW w, InRange(w), NEW vs \in Seq(VerdictDocs), NEW b \in 1..3,
           NEW f \in Factors, NEW g \in Factors, Adjust(w, vs, b)[f] < w[f]
    PROVE  Evidence(vs, f, g)
<1> DEFINE S == FalsePositives(vs, b)
<1>1. w \in [Factors -> 0..100]
  BY DEF InRange, Weights
<1>2. w[f] \in Int
  BY WeightIsInt
<1>3. \A n \in Int : ~(n < n)
  OBVIOUS
<1>4. w \in [Factors -> 0..100] /\ ~(w[f] < w[f])
  BY <1>1, <1>2, <1>3, Zenon
<1>5. Adjust(w, vs, b) # w
  BY <1>4
<1>6. TooManyFalse(vs, b) /\ f = Dominant(vs, b)
  <2>1. TooManyFalse(vs, b)
    BY <1>5, Zenon DEF Adjust
  <2> DEFINE d == Dominant(vs, b)
  <2>2. Adjust(w, vs, b) = [w EXCEPT ![d] = Lowered(w[d])]
    BY <2>1, Zenon DEF Adjust
  <2> HIDE DEF d
  <2>3. f # d => Adjust(w, vs, b)[f] = w[f]
    BY <1>4, <2>2
  <2>4. f = d
    BY <1>4, <2>3
  <2> QED BY <2>1, <2>4 DEF d
<1>7. S \subseteq DOMAIN vs /\ InBucket(vs, b) \subseteq DOMAIN vs /\ DOMAIN vs = 1..Len(vs)
      /\ Len(vs) \in Nat
  BY DEF FalsePositives, InBucket
<1>8. IsFiniteSet(S) /\ IsFiniteSet(InBucket(vs, b))
  <2>1. IsFiniteSet(1..Len(vs))
    BY <1>7, FS_Interval
  <2> QED BY <1>7, <2>1, FS_Subset
<1>9. S # {}
  <2>1. Cardinality(InBucket(vs, b)) \in Nat /\ Cardinality({}) = 0
    BY <1>8, FS_CardinalityType, FS_EmptySet
  <2>2. S = {} => ~(10 * Cardinality(S) > 3 * Cardinality(InBucket(vs, b)))
    BY <2>1
  <2> QED BY <1>6, <2>2 DEF TooManyFalse
<1>10. \A i \in S : vs[i] \in VerdictDocs /\ vs[i].verdict = "fp" /\ vs[i].bucket = b
  BY <1>7 DEF FalsePositives, InBucket
<1>11. \A i \in S : vs[i].inputs \in Inputs
  BY <1>10 DEF VerdictDocs
<1> HIDE DEF S
<1>12. PICK i \in S : vs[i].inputs[Strongest(vs, S)] >= vs[i].inputs[g]
  BY <1>8, <1>9, <1>11, StrongestHasEvidence
<1>13. f = Strongest(vs, S)
  BY <1>6 DEF Dominant, S
<1> QED BY <1>7, <1>10, <1>12, <1>13 DEF Evidence, Blames

(* So do the three of them together. *)
LEMMA NewWeightsHaveEvidence ==
    ASSUME NEW w, InRange(w), NEW vs \in Seq(VerdictDocs),
           NEW f \in Factors, NEW g \in Factors, NewWeights(w, vs)[f] < w[f]
    PROVE  Evidence(vs, f, g)
<1> DEFINE w1 == Adjust(w, vs, 1)
           w2 == Adjust(w1, vs, 2)
           w3 == Adjust(w2, vs, 3)
<1>1. InRange(w1) /\ InRange(w2) /\ InRange(w3)
  BY AdjustOnce
<1>2. w3[f] < w[f]
  BY DEF NewWeights
<1>3. w1[f] < w[f] => Evidence(vs, f, g)
  BY AdjustHasEvidence
<1>4. w2[f] < w1[f] => Evidence(vs, f, g)
  <2> HIDE DEF w1
  <2> QED BY <1>1, AdjustHasEvidence
<1>5. w3[f] < w2[f] => Evidence(vs, f, g)
  <2> HIDE DEF w2
  <2> QED BY <1>1, AdjustHasEvidence
<1> HIDE DEF w1, w2, w3
<1>6. w[f] \in Int /\ w1[f] \in Int /\ w2[f] \in Int /\ w3[f] \in Int
  BY <1>1, WeightIsInt, Zenon
<1>7. w1[f] < w[f] \/ w2[f] < w1[f] \/ w3[f] < w2[f]
  BY <1>2, <1>6
<1> QED BY <1>3, <1>4, <1>5, <1>7

\* Every verdict of vs is in the record.
Recorded(vs, record) == \A i \in DOMAIN vs : \E j \in DOMAIN record : record[j] = vs[i]

\* What an entry lowers, the record speaks for.
Grounded(e, record) ==
    \A f \in Factors, g \in Factors : e.new[f] < e.old[f] => Evidence(record, f, g)

(* The invariant: samples are verdicts on record, and every entry written   *)
(* or about to be written is grounded in the record.                        *)
BlameInv ==
    /\ \A r \in Retrainers : Recorded(sample[r], verdicts) /\ Grounded(entry[r], verdicts)
    /\ \A e \in history : Grounded(e, verdicts)

(* The index of verdicts only grows. *)
LEMMA RecordGrows ==
    ASSUME FeedbackTypeOK, [FeedbackNext]_feedback
    PROVE  \A j \in DOMAIN verdicts : j \in DOMAIN verdicts' /\ verdicts'[j] = verdicts[j]
<1>1. ASSUME NEW s \in Submissions, Record(s)
      PROVE  \A j \in DOMAIN verdicts : j \in DOMAIN verdicts' /\ verdicts'[j] = verdicts[j]
  <2>1. PICK doc : verdicts' = Append(verdicts, doc)
    BY <1>1 DEF Record
  <2> QED BY <2>1 DEF FeedbackTypeOK
<1>2. ASSUME NEW r \in Retrainers, ReadVerdicts(r) \/ ReadWeights(r) \/ WriteEntry(r)
      PROVE  verdicts' = verdicts
  BY <1>2 DEF ReadVerdicts, ReadWeights, WriteEntry
<1> QED BY <1>1, <1>2 DEF FeedbackNext, feedback

(* So what is on record, and what is grounded in it, stays so. *)
LEMMA GroundsStay ==
    ASSUME FeedbackTypeOK, [FeedbackNext]_feedback
    PROVE  /\ \A e : Grounded(e, verdicts) => Grounded(e, verdicts')
           /\ \A vs : Recorded(vs, verdicts) => Recorded(vs, verdicts')
<1>1. \A j \in DOMAIN verdicts : j \in DOMAIN verdicts' /\ verdicts'[j] = verdicts[j]
  BY RecordGrows
<1>2. \A f, g : Evidence(verdicts, f, g) => Evidence(verdicts', f, g)
  BY <1>1 DEF Evidence
<1> QED BY <1>1, <1>2 DEF Grounded, Recorded

(* The evidence in a sample is evidence on record. *)
LEMMA SampleIsEvidence ==
    ASSUME NEW vs, Recorded(vs, verdicts), NEW f, NEW g, Evidence(vs, f, g)
    PROVE  Evidence(verdicts, f, g)
BY DEF Recorded, Evidence, Blames

(* The search for the latest verdicts returns verdicts on record. *)
LEMMA RecentIsRecorded ==
    ASSUME FeedbackTypeOK
    PROVE  Recorded(Recent, verdicts) /\ Recorded(<<>>, verdicts)
<1>1. verdicts \in Seq(VerdictDocs) /\ Len(verdicts) \in Nat /\ DOMAIN verdicts = 1..Len(verdicts)
  BY DEF FeedbackTypeOK
<1> DEFINE first == IF Len(verdicts) > SampleSize THEN Len(verdicts) - SampleSize + 1 ELSE 1
<1>2. first \in 1..(Len(verdicts) + 1)
  BY <1>1, SampleAssumption
<1>3. Recent = SubSeq(verdicts, first, Len(verdicts))
  BY DEF Recent
<1> HIDE DEF first
<1>4. \A i \in DOMAIN Recent : /\ first + i - 1 \in DOMAIN verdicts
                             /\ verdicts[first + i - 1] = Recent[i]
  BY <1>1, <1>2, <1>3
<1> QED BY <1>4 DEF Recorded

LEMMA BlameInitially == FeedbackInit => BlameInv
<1>1. Grounded(NoEntry, verdicts)
  BY DEF Grounded, NoEntry, DefaultWeights, Factors
<1>2. Recorded(<<>>, verdicts)
  BY DEF Recorded
<1> QED BY <1>1, <1>2 DEF FeedbackInit, BlameInv

LEMMA BlameStep == ASSUME IInv, BlameInv, [FeedbackNext]_feedback PROVE BlameInv'
<1>0. /\ \A e : Grounded(e, verdicts) => Grounded(e, verdicts')
      /\ \A vs : Recorded(vs, verdicts) => Recorded(vs, verdicts')
  BY GroundsStay DEF IInv
<1>1. ASSUME NEW r \in Retrainers, ReadVerdicts(r) PROVE BlameInv'
  <2>1. PICK vs : Recorded(vs, verdicts) /\ sample' = [sample EXCEPT ![r] = vs]
    BY <1>1, RecentIsRecorded DEF ReadVerdicts, IInv
  <2>2. history' = history /\ entry' = entry
    BY <1>1 DEF ReadVerdicts
  <2>3. \A q \in Retrainers : sample'[q] = vs \/ sample'[q] = sample[q]
    BY <2>1 DEF IInv, FeedbackTypeOK
  <2>4. \A q \in Retrainers : Recorded(sample'[q], verdicts')
    BY <1>0, <2>1, <2>3 DEF BlameInv
  <2> QED BY <1>0, <2>2, <2>4 DEF BlameInv
<1>2. ASSUME NEW r \in Retrainers, ReadWeights(r) PROVE BlameInv'
  <2>1. PICK old : /\ InRange(old)
                   /\ entry' = [entry EXCEPT ![r] =
                        [at |-> stamps + 1, old |-> old,
                         new |-> NewWeights(old, sample[r])]]
    BY <1>2, StoredInRange, DefaultsInRange DEF ReadWeights
  <2> DEFINE e == [at |-> stamps + 1, old |-> old, new |-> NewWeights(old, sample[r])]
  <2>2. sample[r] \in Seq(VerdictDocs) /\ Recorded(sample[r], verdicts)
    BY DEF IInv, FeedbackTypeOK, BlameInv
  <2>3. Grounded(e, verdicts)
    <3>1. SUFFICES ASSUME NEW f \in Factors, NEW g \in Factors, e.new[f] < e.old[f]
                   PROVE  Evidence(verdicts, f, g)
      BY DEF Grounded
    <3>2. NewWeights(old, sample[r])[f] < old[f]
      BY <3>1
    <3>3. Evidence(sample[r], f, g)
      BY <2>1, <2>2, <3>2, NewWeightsHaveEvidence
    <3> QED BY <2>2, <3>3, SampleIsEvidence
  <2> HIDE DEF e
  <2>4. entry' = [entry EXCEPT ![r] = e] /\ history' = history /\ sample' = sample
    BY <1>2, <2>1 DEF e, ReadWeights
  <2>5. \A q \in Retrainers : entry'[q] = e \/ entry'[q] = entry[q]
    BY <2>4 DEF IInv, FeedbackTypeOK
  <2>6. \A q \in Retrainers : Grounded(entry'[q], verdicts')
    BY <1>0, <2>3, <2>5 DEF BlameInv
  <2> QED BY <1>0, <2>4, <2>6 DEF BlameInv
<1>3. ASSUME NEW r \in Retrainers, WriteEntry(r) PROVE BlameInv'
  <2>1. /\ entry' = [entry EXCEPT ![r] = NoEntry] /\ sample' = [sample EXCEPT ![r] = <<>>]
        /\ history' = history \/ history' = history \cup {entry[r]}
    BY <1>3 DEF WriteEntry
  <2>2. Grounded(NoEntry, verdicts) /\ Recorded(<<>>, verdicts)
    BY DEF Grounded, NoEntry, DefaultWeights, Factors, Recorded
  <2>3. \A q \in Retrainers : /\ entry'[q] = NoEntry \/ entry'[q] = entry[q]
                              /\ sample'[q] = <<>> \/ sample'[q] = sample[q]
    BY <2>1 DEF IInv, FeedbackTypeOK
  <2>4. \A q \in Retrainers : Grounded(entry'[q], verdicts') /\ Recorded(sample'[q], verdicts')
    BY <1>0, <2>2, <2>3 DEF BlameInv
  <2>5. \A e \in history' : Grounded(e, verdicts')
    BY <1>0, <2>1 DEF BlameInv
  <2> QED BY <2>4, <2>5 DEF BlameInv
<1>4. ASSUME NEW s \in Submissions, Record(s) PROVE BlameInv'
  BY <1>0, <1>4 DEF Record, BlameInv
<1>5. CASE UNCHANGED feedback
  BY <1>0, <1>5 DEF feedback, BlameInv
<1> QED BY <1>1, <1>2, <1>3, <1>4, <1>5 DEF FeedbackNext

(* Whichever other factor one compares it with, no weight is lowered        *)
(* without a recorded false positive in which its factor was at least as    *)
(* strong: the averages that retrain takes over a sample never blame a      *)
(* factor that no verdict speaks for.                                       *)
THEOREM BlameIsDeserved == FeedbackSpec => []BlameHasEvidence
<1>1. IInv /\ BlameInv => BlameHasEvidence
  BY DEF BlameInv, Grounded, Evidence, Blames, BlameHasEvidence
<1>2. IInv /\ BlameInv /\ [FeedbackNext]_feedback => IInv' /\ BlameInv'
  BY InvStep, BlameStep
<1> QED BY InvInitially, BlameInitially, <1>1, <1>2, PTL DEF FeedbackSpec
==============================================================================
